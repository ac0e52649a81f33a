------------------------------- MODULE MCBridge -------------------------------
(***************************************************************************)
(* Instances of Bridge for TLC: one frame of each kind, and chunks at the  *)
(* rails, at zero and next to a segment's bound.                           *)
(***************************************************************************)
EXTENDS Bridge

Mulaw(codes) == [kind |-> "mulaw", codes |-> codes]
Chunk(samples) == [samples |-> samples, half |-> FALSE]

AnyFrames == {Mulaw(<<>>), Mulaw(<<0>>), Mulaw(<<128, 127>>)}
               \cup [kind : {"notBase64", "notAscii"}, codes : {<<>>}]
AnyChunks == {Chunk(<<>>), Chunk(<<-32768, 32767>>), Chunk(<<-1, 123>>),
              [samples |-> <<1>>, half |-> TRUE]}
=============================================================================
