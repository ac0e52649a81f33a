-------------------------------- MODULE Bridge --------------------------------
(***************************************************************************)
(* One bridged call, src/decana/bridge: session.py over codec.py, gain.py, *)
(* resampler.py, timing.py and recording.py.  Leg "in" is caller -> Gemini *)
(* and leg "out" is Gemini -> caller.                                      *)
(*                                                                         *)
(* The handlers are synchronous, so each is one action.  Audio is counted  *)
(* in pieces of one 8 kHz period: one code, two 16 kHz samples, three      *)
(* 24 kHz samples; what the filter does to a waveform is left out, so a    *)
(* piece keeps its level through a resampler, which may keep it back.      *)
(* A write to the timing log or to a WAV may fail, and either peer may     *)
(* have stopped listening.                                                 *)
(***************************************************************************)
EXTENDS Codec

CONSTANTS
    Frames,                 \* payloads of the caller's leg
    Chunks,                 \* chunks of Gemini's leg
    MaxFrames, MaxChunks,   \* bounds on how many are handled
    TimingFails, WavFails,  \* whether those writes may raise an OSError
    None

ASSUME FramesAssumption ==
    Frames \subseteq [kind : {"mulaw", "notBase64", "notAscii"}, codes : Seq(Code)]
ASSUME ChunksAssumption == Chunks \subseteq [samples : Seq(Sample), half : BOOLEAN]
ASSUME BoundsAssumption == MaxFrames \in Nat /\ MaxChunks \in Nat
ASSUME FaultsAssumption == TimingFails \in BOOLEAN /\ WavFails \in BOOLEAN
ASSUME NoneAssumption == None \notin Seq(Sample)

VARIABLES
    phase,      \* "open", "closed", or "raised" by close()
    final,      \* legs whose resampler was given its last input
    held,       \* per leg: what its resampler has not given back
    open,       \* legs whose peer still takes what it is given
    handed,     \* per leg: what was given to the peer's client
    reached,    \* per leg: what of it the peer took
    forwards,   \* per leg: how many payloads those were
    claims,     \* per leg: forward lines in the timing log
    errors,     \* frame_error lines, as <<leg, stage>>
    lost,       \* per leg: lines the log could not take
    caller, model,  \* the recorder's buffers
    wav,        \* the two files, None when not written
    taken,      \* per leg: every sample a resampler took
    handled     \* per leg: calls of its handler

peers == <<open, handed, reached, forwards>>
log == <<claims, errors, lost>>
vars == <<phase, final, held, peers, log, caller, model, wav, taken, handled>>

Legs == {"in", "out"}
Limit(leg) == IF leg = "in" THEN MaxFrames ELSE MaxChunks

Init ==
    /\ phase = "open" /\ final = {} /\ open = Legs
    /\ held = [leg \in Legs |-> <<>>] /\ taken = [leg \in Legs |-> <<>>]
    /\ handed = [leg \in Legs |-> <<>>] /\ reached = [leg \in Legs |-> <<>>]
    /\ forwards = [leg \in Legs |-> 0] /\ claims = [leg \in Legs |-> 0]
    /\ errors = {} /\ lost = [leg \in Legs |-> 0] /\ caller = <<>> /\ model = <<>>
    /\ wav = [leg \in Legs |-> None] /\ handled = [leg \in Legs |-> 0]

Handles(leg) == /\ handled[leg] < Limit(leg)
                /\ handled' = [handled EXCEPT ![leg] = @ + 1]

-----------------------------------------------------------------------------
(* The timing log: one line per record(), or an OSError.                   *)

Lines == IF TimingFails THEN {0, 1} ELSE {1}

\* An AudioFrameError: the frame is dropped and the stage is logged.
FrameError(leg, stage) ==
    /\ \E n \in Lines : /\ errors' = IF n = 1 THEN errors \cup {<<leg, stage>>} ELSE errors
                        /\ lost' = [lost EXCEPT ![leg] = @ + 1 - n]
    /\ UNCHANGED claims

\* The frame went nowhere.
Dropped == UNCHANGED <<held, taken, peers, model>>

\* Any other exception leaves the handler as it is.
Raises == Dropped /\ UNCHANGED log

-----------------------------------------------------------------------------
(* Forwarding, shared by the handlers and the flush of close().            *)

\* PHONE_INBOUND_GAIN_DB is 0, and unity gain returns its input untouched.
ApplyGain(samples) == samples

\* What goes over the wire of a leg.
Payload(leg, samples) == IF leg = "in" THEN samples ELSE MulawEncode(samples)

\* Mutated form: a push that gave nothing back is forwarded too.
NothingEmittedUnseen(samples) == FALSE

\* A resampler batches: most pushes give nothing back, which is a no-op.
NothingEmitted(samples) == samples = <<>>

\* Mutated form: the model's leg is recorded only if the socket takes it.
RecordedIfSent(codes) == IF "out" \in open THEN codes ELSE <<>>

\* The model's leg is recorded before it is sent, whether the socket drops it or not.
Recorded(codes) == codes

\* `given[leg]` is forwarded on each of `legs`, and leaves `line[leg]` lines.
Forward(legs, given, line) ==
    LET payload == [leg \in Legs |-> Payload(leg, given[leg])]
        logs == {leg \in legs : ~ NothingEmitted(given[leg])}
    IN /\ handed' = [leg \in Legs |-> handed[leg] \o payload[leg]]
       /\ reached' = [leg \in Legs |-> IF leg \in open THEN reached[leg] \o payload[leg]
                                                      ELSE reached[leg]]
       /\ forwards' = [leg \in Legs |-> IF payload[leg] = <<>> THEN forwards[leg]
                                                             ELSE forwards[leg] + 1]
       /\ model' = model \o Recorded(payload["out"])
       /\ claims' = [leg \in Legs |-> IF leg \in logs THEN claims[leg] + line[leg]
                                                     ELSE claims[leg]]
       /\ lost' = [leg \in Legs |-> IF leg \in logs THEN lost[leg] + 1 - line[leg]
                                                   ELSE lost[leg]]

\* A resampler takes `samples` and gives back as much of what it holds as it likes.
Push(leg, samples) ==
    LET buffer == held[leg] \o samples
    IN \E n \in 0 .. Len(buffer), line \in [Legs -> Lines] :
          /\ taken' = [taken EXCEPT ![leg] = @ \o samples]
          /\ held' = [held EXCEPT ![leg] = SubSeq(buffer, n + 1, Len(buffer))]
          /\ Forward({leg}, [l \in Legs |-> IF l = leg THEN SubSeq(buffer, 1, n) ELSE <<>>],
                     line)
          /\ UNCHANGED <<open, errors>>

-----------------------------------------------------------------------------
(* The two handlers and close().                                           *)

WholeSamples(chunk) == ~ chunk.half

\* b64decode raises a plain ValueError on a payload that is not ASCII.
HandleTwilioFrame(frame) ==
    /\ Handles("in")
    /\ caller' = IF frame.kind = "mulaw" THEN caller \o frame.codes ELSE caller
    /\ \/ frame.kind = "notAscii" /\ Raises
       \/ frame.kind = "notBase64" /\ FrameError("in", "base64") /\ Dropped
       \/ /\ frame.kind = "mulaw"
          /\ \/ frame.codes = <<>> /\ FrameError("in", "codec") /\ Dropped
             \/ frame.codes # <<>> /\ "in" \in final /\ Raises
             \/ /\ frame.codes # <<>> /\ "in" \notin final
                /\ Push("in", ApplyGain(MulawDecode(frame.codes)))
    /\ UNCHANGED <<phase, final, wav>>

HandleGeminiChunk(chunk) ==
    /\ Handles("out")
    /\ \/ ~ WholeSamples(chunk) /\ FrameError("out", "resample") /\ Dropped
       \/ WholeSamples(chunk) /\ "out" \in final /\ Raises
       \/ WholeSamples(chunk) /\ "out" \notin final /\ Push("out", chunk.samples)
    /\ UNCHANGED <<phase, final, caller, wav>>

\* Mutated form: the caller's leg alone is flushed.
FlushedInboundOnly(raised) == {"in"}

\* The inbound leg first; if its line cannot be written, the other is not reached.
Flushed(raised) == IF raised THEN {"in"} ELSE Legs

\* What a leg's file holds, if it can be written.
Recording(codes) == IF WavFails THEN {None, MulawDecode(codes)} ELSE {MulawDecode(codes)}

Close ==
    /\ phase = "open"
    /\ \E line \in [Legs -> Lines] :
          LET raises == [leg \in Legs |-> line[leg] = 0 /\ ~ NothingEmitted(held[leg])]
              legs == Flushed(raises["in"])
          IN /\ Forward(legs, [l \in Legs |-> IF l \in legs THEN held[l] ELSE <<>>], line)
             /\ final' = legs
             /\ held' = [l \in Legs |-> IF l \in legs THEN <<>> ELSE held[l]]
             /\ phase' = IF \E l \in legs : raises[l] THEN "raised" ELSE "closed"
             /\ IF phase' = "raised" THEN UNCHANGED wav
                ELSE \E c \in Recording(caller), m \in Recording(model') :
                        wav' = [leg \in Legs |-> IF leg = "in" THEN c ELSE m]
    /\ UNCHANGED <<open, errors, caller, taken, handled>>

\* The sender was closed, or the session is over: what comes is dropped silently.
PeerStops(leg) ==
    /\ leg \in open
    /\ open' = open \ {leg}
    /\ UNCHANGED <<phase, final, held, handed, reached, forwards, log, caller, model,
                   wav, taken, handled>>

Next ==
    \/ \E frame \in Frames : HandleTwilioFrame(frame)
    \/ \E chunk \in Chunks : HandleGeminiChunk(chunk)
    \/ Close
    \/ \E leg \in Legs : PeerStops(leg)

Spec == Init /\ [][Next]_vars

-----------------------------------------------------------------------------
(* Every variable has its type.                                            *)
TypeOK ==
    /\ phase \in {"open", "closed", "raised"} /\ final \in SUBSET Legs
    /\ open \in SUBSET Legs /\ held \in [Legs -> Seq(Sample)]
    /\ taken \in [Legs -> Seq(Sample)]
    /\ handed["in"] \in Seq(Sample) /\ handed["out"] \in Seq(Code)
    /\ reached["in"] \in Seq(Sample) /\ reached["out"] \in Seq(Code)
    /\ forwards \in [Legs -> Nat] /\ claims \in [Legs -> Nat] /\ lost \in [Legs -> Nat]
    /\ errors \in SUBSET (Legs \X {"base64", "codec", "gain", "resample"})
    /\ caller \in Seq(Code) /\ model \in Seq(Code)
    /\ wav \in [Legs -> Seq(Sample) \cup {None}]
    /\ handled \in [Legs -> Nat]

(* No audio is lost, repeated or reordered between a resampler and the     *)
(* peer's client, nothing is left behind by a close() that did not raise,  *)
(* and a peer that stopped listening got a prefix (session.py:238-257).    *)
NothingLost ==
    /\ \A leg \in Legs :
          /\ handed[leg] \o Payload(leg, held[leg]) = Payload(leg, taken[leg])
          /\ reached[leg] = SubSeq(handed[leg], 1, Len(reached[leg]))
    /\ phase = "closed" => \A leg \in Legs : held[leg] = <<>>

(* The timing log claims a forward only for a payload that was handed on,  *)
(* and misses one only if a line could not be written; a frame error names *)
(* a stage that the pipeline's order leaves reachable (session.py:8-11,    *)
(* 123-130, 165-170).                                                      *)
ClaimsTrue ==
    /\ \A leg \in Legs : /\ claims[leg] <= forwards[leg]
                         /\ forwards[leg] <= claims[leg] + lost[leg]
    /\ errors \subseteq {<<"in", "base64">>, <<"in", "codec">>, <<"out", "resample">>}

(* A recording that was written is complete: the caller's file is what     *)
(* Gemini was handed, the model's is all the bridge produced to the last   *)
(* piece, even where the socket dropped it (session.py:229-236, 250-257).  *)
RecordingHolds ==
    /\ wav["in"] # None => wav["in"] = handed["in"]
    /\ wav["out"] # None => wav["out"] = MulawDecode(MulawEncode(taken["out"]))

(* What the caller is sent is as loud as what was spoken, to 1/32 of its   *)
(* level and 8 steps: no wrap, no sign lost, no segment confused           *)
(* (codec.py:110-129).                                                     *)
HeardAsSpoken ==
    \A i \in 1 .. Len(handed["out"]) : Faithful(taken["out"][i], handed["out"][i])
=============================================================================
