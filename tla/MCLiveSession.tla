---------------------------- MODULE MCLiveSession ----------------------------
(***************************************************************************)
(* Instances of LiveSession for TLC.                                       *)
(***************************************************************************)
EXTENDS LiveSessionProps

\* Every place a fragment, a chunk and a turn_complete can meet: both
\* speakers alone and in one message, audio alone and with speech, a
\* barge-in, and turn_complete alone or with the last words.
AllShapes == { {"caller"}, {"model"}, {"audio"}, {"caller", "model"},
               {"model", "audio"}, {"interrupted"}, {"complete"},
               {"model", "complete"}, {"model", "interrupted", "complete"} }

\* One shape of each kind the tasks' interleavings can tell apart.
FewShapes == { {"caller"}, {"model", "audio"}, {"complete"} }

\* The caller talks over the model, whose turn ends in the middle of it.
BargeIn == { {"caller"}, {"model", "audio"}, {"interrupted", "complete"} }
=============================================================================
