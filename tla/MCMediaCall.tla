----------------------------- MODULE MCMediaCall -----------------------------
(***************************************************************************)
(* Instances of MediaCall for TLC.                                         *)
(***************************************************************************)
EXTENDS MediaCallProps

\* Speech and audio.
AudioShapes == { {"model", "audio"}, {"caller"} }
=============================================================================
