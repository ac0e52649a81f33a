# Decana in TLA+

Decana answers a phone call with a voice model. Twilio posts a webhook, the
server opens a Gemini Live session and answers with TwiML; Twilio then opens a
media socket, over which the caller's audio goes to Gemini and Gemini's audio
comes back. When the call ends, the server hands a record (caller, transcript,
reason) to the post-call pipeline: an analysis by a text model, an SMS to the
caller, an email and a brief to the operator. A vertical's *profile* directory
supplies prompts, the outcome labels and the SMS templates.

This directory models the parts of that system in which something can go wrong
that a unit test would hardly reach. Line numbers below are those of
`src/src/decana`.

## 1. Inventory

| Part | Source | State | Operations | What makes it hard | What makes it correct |
|---|---|---|---|---|---|
| Gemini live session | `gemini/live.py` | inbox, outbox, open turn, `_closed`, `_torn_down`, two tasks, socket, connection manager | `open_live_session`, `start`, `send_audio`, `events`, `close`, reader, drain | two tasks, a consumer and several closers interleave; anything may fail | one correctly named `Closed`; no word lost or held, no turn split; tasks stopped before the socket; the consumer always gets its end |
| Registry of pending sessions | `twilio/server.py` 155-214, 310-363 | `pending`: CallSid to session and time | `voice`, `_register`, `_sweep_expired`, `_adopt` | webhooks are retried and overlap across awaits; the sweep works on a snapshot | a session has one holder and is never left open in nobody's hands, nor closed under its call |
| Call lifecycle | `twilio/server.py` 138-153, 365-564 | call lock, `done`, sender queue, pump and drain tasks, transcript | `media`, `_begin_call`, `_pump_events`, `_drain_outbound`, `_teardown`, `_deliver_record` | any of three tasks may end the call, and the one that does cancels the others, which may be waiting for its lock | at most one record, last, complete, truthfully named; no task stuck |
| Audio bridge | `bridge/session.py`, `resampler.py`, `timing.py`, `recording.py` | a resampler per leg, finalised at close; the timing log; the recorder | `handle_twilio_frame`, `handle_gemini_chunk`, `close` | resamplers batch, peers stop listening, the disk fails, and the flush comes after both | no audio lost; the log claims only what happened; a recording is complete |
| Audio codec and gain | `bridge/codec.py`, `gain.py` | none | `mulaw_decode`, `mulaw_encode`, `apply_gain` | rails, zero, segment bounds | a code stands for its sample |
| Post-call dispatch | `dispatch/dispatch.py`, `brief.py`, `senders.py` | the artifact directory, the `.sms-sent` marker | `post_call`, `dispatch`, five effects | partial failure, overlap of two runs of one call, a crash between any two steps | at most one SMS, a truthful report and brief, the email whatever else failed |
| Settings and start-up | `settings.py`, `dispatch/wiring.py`, `__main__.py` | none after start-up | `from_env`, `has_twilio`, `has_smtp`, `build_on_call_end`, `main` | a half-filled environment is first noticed in a call | what may not serve does not, and no gate is open without its credentials |
| Profile loader | `profile/load.py` | none after start-up | `load_profile` | what it accepts is first used months later, in a call | what loads can be used |
| Post-call analysis | `analysis/analyse.py` | none | `analyse` | the answer of a model can be anything | a bad answer decides nothing, a good one decides |
| Spend guard | `scripts/_budget.py` | a ledger file | `try_spend` | kills inside the write, restarts, midnight, two processes | no day spends more than its cap |
| Mutation harness | `scripts/mutate_check.py` | the file it mutates | `main`, `restore`, the signal handler | signals inside its writes and inside its own handler | the tree is always restored |
| Other scripts, hooks, landing pages | `scripts`, `hook-checks`, `landings` | none | | | not modelled: section 7 |

How they interact: `main` reads the environment and the profile and builds the
senders. The voice webhook *opens* a live session and puts it into the registry;
the media socket takes it out and builds a call over it; the call's handler and
pump pass audio through the bridge between the sender queue and the session;
teardown closes the bridge and the session and calls `on_call_end`, which is
`post_call`; this uses the profile's labels in `analyse` and its templates in
the SMS stage, whose recipient is the number the webhook was resolved to.
Everything up to `post_call` runs on one asyncio loop; the SMS and email stages
run in worker threads. Only the artifact directory survives a restart. The two
scripts are processes of their own, over files that survive them.

## 2. Modules

| Module | Models | Notes |
|---|---|---|
| `EventStream` | what a session promises: a FIFO stream with one terminal event | abstract specification |
| `LiveSession` | `gemini/live.py` | one action per piece of code between two awaits |
| `LiveSessionSafety` | its types, its safety properties (endings, frames, words, turns, audio), and the mapping under which it refines `EventStream` | all proved in `LiveSessionProofs` |
| `LiveSessionProps`, `MCLiveSession` | liveness, the open that leaks, the caller's turn, instances | |
| `MediaCall` | `twilio/server.py` from the start message to the record, over `INSTANCE LiveSession` | also the event loop's ready queue |
| `CallStory` | what a call promises `on_call_end`: one record of a story that is closed, with all its turns, blaming Gemini only for what closed it | abstract specification |
| `MediaCallProps`, `MCMediaCall` | its properties, the mapping under which it refines `CallStory`, instances | the safety properties are proved in `MediaCallProofs` |
| `Registry`, `MCRegistry` | the pending registry, its sweep, and the adoption | sessions are abstract: open, closing, closed |
| `Codec` | mu-law, one sample and one code at a time | no state |
| `Bridge`, `MCBridge` | both legs of the bridge with resamplers, timing log and recorder, over `Codec` | one action per handler |
| `Dispatch`, `MCDispatch` | `post_call`, the five effects and the lines of the brief | crashes included |
| `Settings` | the environment, the credential gates and the senders they choose | no state |
| `Vertical` | start-up over `Settings` and `load_profile`, the caller's number, `analyse` and the SMS stage's use of them | one deployment, one call |
| `VerticalProps`, `MCVertical` | its properties and inputs | |
| `SpendGuard` | `_budget.py` under processes that are killed and restarted, and reads that fail | |
| `MutateCheck` | `mutate_check.py` under signals | |
| `MCScripts` | an instance of each of the two | a behaviour takes steps of one of them, as they share nothing |
| `LiveSessionProofs`, `MediaCallProofs`, `RegistryProofs`, `BridgeProofs`, `DispatchProofs`, `VerticalProofs`, `SpendGuardProofs`, `MutateCheckProofs` | theorems | section 5 |

An operator commented *Mutated form* is a plausible bug of the definition below
it. No action uses one: they exist to show that the properties would notice.

### LiveSession

A server message is the *set* of fields it carries; a fragment, a chunk and a
frame are named by their number. `Translate` keeps the order in which
`_translate` appends events: a turn closed by a change of speaker first, audio
before a turn closed by `turn_complete`. `EmitClosed` is `_emit_closed`: flush,
then the one `Closed`. A cancelled task takes its `...Cancelled` action and no
other, since `task.cancel()` makes the next resumption raise. `close()` is six
actions, one per await. `messages`, `heard`, `completes`, `frames` and `cause`
are history variables: no guard reads them, but for the bounds on
`messages` and `frames`, which also number what they count. `Awaited` is the
refinement mapping: the inbox up to its `Closed`, and nothing once `events()` has
returned, since the reader may still append behind a `Closed` that the drain or a
`close()` emitted.

`OnlyCompleteSplits` is what the accumulator does: nothing but a `turn_complete`
comes between two turns of one speaker. For the caller the docstring promises
more, that only the model's speech or the end does: `CallerTurnsWhole`, which is
violated.

### MediaCall

Which task runs next decides what the record holds, so `ready` models asyncio's
FIFO of runnable tasks. The head runs one piece of code after another and leaves
the queue only when an await suspends it; awaiting a finished task, a free lock
or a non-empty queue does not suspend. Assumptions: awaiting `transport.close()`
and the connection manager's exit suspend at least once; tasks woken by one
step are queued in the order the code wakes them. With free
interleaving instead of the queue, the order of cancellations and wake-ups that
the loop fixes would be open, and TLC would report races that asyncio cannot
produce.

Teardown is `Acquire` (lock, `done`, close the sender, cancel the drain),
`FlushBridge`, `CloseSession` (the actions of `LiveSession`'s `close()`),
`StopPump`, `DeliverRecord`, `Delivered`, with `TeardownRaises` for an exception
that leaves it. Of the bridge this module needs only when it raises: a resampler
either gives audio back or keeps it (`pushed`), and raises once it was given its
last input (`finalised`). What becomes of the audio is `Bridge`'s matter.

One start message per socket is modelled; Twilio sends one per stream.

### Registry

`running` names the request that has not reached an await. `close()` of a
session that another request already tears down returns at once. A sweep visits
its snapshot in any order: the insertion order of the dict is abstracted, so a
sweep may meet another entry first than in the code. The guarded `pop` is by
key, and what is closed is the session of the snapshot, as in
`server.py:190-192`. A call's life after adoption is one `HangUp`.

### Codec and Bridge

`Codec` computes as the code does, on plain integers: `>> 2` is a flooring
division, an inverted code is `255 - code`, a shift is a product with `Pow2`.
No value leaves 16 bits (`Decoded` and `Coded` in `BridgeProofs`), so no width is lost. `Faithful` is what
G.711 promises, independent of how a code is found.

In `Bridge` a handler is one action, since the code between two awaits is. Audio
is counted in pieces of one 8 kHz period; a resampler takes a piece and gives
back any prefix of what it holds (`Push`), which is all the filter's batching
can do to order and number; what it does to the waveform is left out. `given` to
the peer's client (`handed`) and taken by it (`reached`) differ once the peer
stopped listening, which `PeerStops` lets happen at any time. `close()` flushes
the inbound leg first, and if its line cannot be written the outbound leg and
the recording are not reached (`Flushed`). The gain is the deployed 0 dB, which
returns its input; other values of the constant are not modelled.

### Dispatch

A run is one `post_call`. `claimedBy` and `briefBy`, the run that wrote the brief
last, are history variables. A brief whose write fails or is killed may be left
torn (`Torn`), and counts as none, since a cut-off text states
no outcome. `SmsMarkRaises` is
an `OSError` other than `FileExistsError`, with the file created or not.
`Configured` is the set of senders that are not stand-ins; `Settings` defines it
from an environment. A sender may be accepted and still raise, since an answer
can be lost. The stage outcomes are kept as the statuses the operator reads in
email and brief; `RenderBrief` says which line of the brief states what. Two runs
of one CallSid exist when a webhook is retried after its call was adopted. The
two worker threads are awaited, so a run is sequential.

### Settings and Vertical

A variable of the environment is unset, empty, a number or another text. A
string of a file is its core and whether it is padded with blanks; a template
is the set of its placeholders, each with a field name, a conversion that
`str.format` knows or does not, and a kind of format spec: plain, one that no
string has, or one with a nested field. The loader's parser tries neither the
conversion nor the spec; `str.format` meets an unknown conversion before the
spec. Every check of
the loader is a conjunct of `Loads`; which error is reported first is left out,
as the code leaves it open (`load.py:85-87`). `HooksAssumption` says what Twilio
sends: a call it places names the human in `To`, a call it takes names them in
`From`, or a text that is no number. The SMS stage here is for one call; that it
sends at most once is `Dispatch`'s matter.

### SpendGuard and MutateCheck

Both write a file with `write_text`, which truncates it first: that is a step of
its own in both, since a kill or a signal lands there. A process of `SpendGuard`
runs its script for ever; `Crash` stands for a kill and for a raised write. A
read of an existing ledger may raise `OSError`, which `_load` takes for a missing
file; `misread` counts such reads per day, and `MaxMisreads` bounds them for TLC.
`overlapped` records that a process read the ledger while another was between
reading and writing it: the code has no lock, and two such processes do lose an
update. `CapHolds` is stated for days without either: without overlap, and with
the cap granted once more for each read that failed.

In `MutateCheck` a handler interrupts a run between any two steps, or another
handler (`handler` is the innermost one's step: an inner handler's `SystemExit`
unwinds the outer one). `Flushed` is the buffer of an interrupted write, which
reaches the file when the unwinding closes it; `AfterExit` is the `finally` that
the `SystemExit` passes through, or not, between arming the handler and entering
the `try`. An `OSError` of the restore itself is not modelled: the harness could
do nothing about it.

## 3. Runs

| Run | Instance | Distinct states | Result |
|---|---|---|---|
| `live_session` | two closers, nine message shapes, two messages, two frames | 598 381 | holds: words, turns, audio, endings, refinement of `EventStream`, liveness |
| `live_callerturn` | one caller who speaks around a `turn_complete`, four messages | | `CallerTurnsWhole` violated |
| `live_open_leak` | one closer | | `FailedOpenLeaksNothing` violated |
| `call_endings` | two messages, one frame, failing disk, failing socket close | 217 438 | holds: the one record, refinement of `CallStory`, liveness |
| `call_lostrecord` | one message, nothing fails | | `EndingHasRecord` violated |
| `registry_overlap` | two calls, one of them retried; two sockets; open, close and begin may fail; the sweep's TTL is exceeded by the first tick | 62 404 | holds |
| `registry_orphan` | one call, three overlapping webhooks, nothing fails | | `NoOrphan` violated |
| `bridge_audio` | two frames and two chunks of every kind, both peers stopping, the log and the WAVs failing | 683 766 | holds |
| `dispatch_crash` | two runs of one call, any write may fail, kills anywhere | 33 801 | holds |
| `dispatch_marker` | only the marker may fail | | `EveryRunEmails` violated |
| `vertical_loaded` | every single fault of an environment or a profile; every list of up to two labels; every template of up to two placeholders; four webhooks; every answer | 32 092 | holds |
| `scripts_kept` | two processes, a cap of three, two days, kills anywhere, one failing read a day; two mutation runs, signals and kills anywhere | 230 447 | holds |

Why the bounds are enough. *Session*: two messages are the least in which a turn
can be split, merged with the next or closed by the other speaker; two frames
the least that can be swapped; two closers the least that can race. *Call*: two
messages put one event before and one after the ending; the three enders are
the code's own. *Registry*: two sockets and three webhooks over two calls let a
retried and a plain call sweep, register and adopt in any order; one tick
suffices since a session is either past its TTL or not. *Bridge*: two pushes per
leg are the least that can be batched, swapped or split by a finalised
resampler; the chunks hold both rails, minus one and a segment's bound, and the
frames the codes of both rails and of the negative zero; every other sample is covered by
the proof. *Dispatch*: two runs share a marker and a brief; a third meets no
state that the second did not. *Vertical*: the checks compare at most two labels,
and a template's fields with its links one by one. *SpendGuard*: two processes
are the least that overlap, a cap of three lets each be granted more than once,
two days the least with a stale ledger, and one failing read a day shows what each
further one does again. *MutateCheck*: two runs, as the second
may find what the first left. `CHECK_DEADLOCK FALSE` is set everywhere because
calls, runs, requests and days end, and nothing follows.

### Findings

A violated property states what a comment or docstring says, and is listed with
the quotation in `PROJECT.json`. Each run's counterexample in a sentence:

* `live_callerturn`: a caller speaks into the model's answer; the `turn_complete`
  of the interrupted answer flushes the caller's open turn (`live.py:318-319`),
  and the rest of the sentence is a second transcript, against `live.py:134-138`.
* `live_open_leak`: `start()` raises after the manager was entered; the
  session holding the manager's exit is dropped (`live.py:437`).
* `call_lostrecord`: teardown finalises the resamplers and suspends in
  `session.close()`; the pump routes a chunk that was already queued, its push
  raises, and `_stop_task` re-raises that error before the record is delivered.
* `registry_orphan`: two retries read the same superseded session, await its
  close, and each write themselves; the first one's session stays open.
* `dispatch_marker`: a `PermissionError` or full disk at `marker.open("x")`
  takes the email with it.

Next to the violated properties stands what does hold:
`OnlyCompleteSplits`, `OnlyRaisingLosesRecord`, `OrphanedByStartOnly`, `RunsEnd`.

### Known weaknesses

These are in the models, and the properties are stated so that they hold with
them. Three of them contradict a text of the repository, and no run is spent on
them since each is a matter of reading two places side by side:

* An `OSError` on reading an existing ledger, a permission or too many open
  files, is taken for a missing one and starts the day afresh
  (`_budget.py:50-53`), where the docstring of the function starts fresh on a
  missing file alone, and says of a count that is unknown that it "must mean
  'no'" (39-47). `CapHolds` counts these reads.
* `"{a:{b}}"` loads with a link `a` alone and raises `KeyError` at the first SMS;
  `"{a:d}"` and `"{a!z}"` load and raise `ValueError` there. `profile/model.py:35-38`
  promises formatting "without a KeyError", and `load.py:3-8` that every failure a
  profile can contain is caught at startup. `NamesResolve` says what is left of
  it: the names outside a spec are linked.
* `recording.py:13-16` says that the model's file "IS what reached the caller's
  ear"; `session.py:232-233` says that it holds every chunk the bridge produced
  even if the socket drops it, and so does the code. `RecordingHolds` follows the
  latter.

The others contradict no text:

* A record is lost when the session's `close()` raises in `_teardown`
  (`server.py:520`); a session is orphaned when `_begin_call` fails after the
  adoption (`server.py:412-428`), which `OrphanedByStartOnly` exempts, and when
  `close()` of the session it supersedes raises in a retried webhook
  (`server.py:213`).
* The sender is closed before the bridge is flushed, so the recovered tail goes
  nowhere and is logged as forwarded: `ClaimsTrue` is about what was handed to
  the peer's client.
* A timing line that cannot be written in `close()` leaves the outbound tail and
  the recording behind (`session.py:254`): `NothingLost` and `RecordingHolds`
  are about a `close()` that did not raise and files that were written, and so do
  not cover this one.
* A sweep suspended in one `close()` reaches the key of its next entry, which a
  retry has filled afresh, and pops that (`server.py:190`): `CallKeepsSession` is
  about a call whose webhook was not retried.
* "already sent for this call" is reported though the claiming run failed to
  send: `OkMeansSent` is about *ok* only, and `BriefAgrees` takes a brief
  that repeats the line for truthful.
* `has_smtp` counts empty texts as credentials (`settings.py:93-110`), where
  `_require` and `has_twilio` do not.
* Two overlapping spenders lose an update, and two overlapping mutation runs
  restore each other's mutant.

## 4. Fairness

* `LiveSession`: the event loop resumes what is ready: a cancelled task, a
  `close()` whose awaited task is done or whose SDK call returns, a consumer
  with a non-empty inbox. Nothing makes the remote speak or end, a send
  complete, or anybody call `close()`.
* `MediaCall`: the loop keeps running the head of its queue; closing a socket,
  leaving the manager, `on_call_end` and a socket send return. The caller and
  the remote may stay silent for ever.
* `Registry`: a request that began goes on, and an awaited `close()` or factory
  call returns. Requests need not come.
* `Dispatch`: a run that began goes on: `analyse()` has its own timeout and the
  senders return or raise. A kill may come at any time or never.
* `Bridge`, `Vertical`, `SpendGuard`, `MutateCheck`: none is assumed, and only
  safety is checked. The bridge's handlers run when called; a script may be killed
  for good.

Weak fairness is enough: what waits for the running task or request to reach an
await stays enabled once the others, which are finitely many and bounded, have.

## 5. Proofs

Each theorem holds for every value of the constants that satisfies the named
assumptions of its module. Each rests on an inductive invariant that TLC's
properties do not mention; this is what it says and why it is needed.

* `LiveSessionProofs`. `StreamImplemented`: the session implements
  `EventStream`. The step simulation needs `Promise`: before the end no `Closed`
  is in the inbox, after it exactly one, until the consumer took it. An
  `_emit_closed` that is the first is the stream's `End`; a message emits, or is
  appended behind the `Closed` where nobody looks; a delivery moves the end up by
  one or is it. `OneClosedHolds` and `EndingNamedHolds` are from `SessionEnded`,
  which says the same of the whole stream and ties `closed` to `cause`.
  `TasksStoppedFirstHolds` needs `Stopping`: a cancelled task has not stopped,
  and a closer that waits no more has seen it stop. `FramesInOrderHolds` is
  inductive with the types. `TypeCorrect` carries what a message is translated
  to (`TranslateTyped`).
  `EveryWordOnceHolds`, `OnlyCompleteSplitsHolds` and `AudioNeverHeldHolds` come from
  `Telling`. Their formulas speak of what is visible or open now, which says too
  little of the next message: `Tale` counts the open turn as the last event of
  the stream, so that a flush changes nothing (`TaleFlush`); a new fragment
  comes after every word heard (`TaleExtend`); and `Rests` says that a stream
  with no turn open behind it had its last turn ended by a `turn_complete`,
  without which a speaker who goes on would split a turn. `TaleTranslate` takes
  one message of any shape through `_translate` in the order of the code. After
  the end only what stands before the `Closed` is told, and it no longer moves
  (`BeforeStays`). What one more event does to words, turns and chunks is stated
  once, for any sequence (`OrderMore`, `WordsMore`, `SplitMore`, `ChunksMore`).
* `MediaCallProofs`. `CallKeepsToSession`: a call adopts an open session and
  takes only steps of `LiveSession`, so the invariants of `LiveSessionProofs`
  hold of the session inside every call (`SessionInv`, cited through
  `INSTANCE ... WITH Closers <- Enders`). `TypeCorrect` includes that the loop
  forgets no task: one that can go on is in the queue (`Scheduled`), for which
  every action must be shown to wake only what `Woken` queues.
  `RecordOnceAndLastHolds` and `OnlyRaisingLosesRecordHolds` come from
  `TeardownInv`: a task is between `_teardown`'s lock and its end exactly while
  it holds the lock, and no cancelled task ever gets there (`Exclusive`);
  nothing is torn down before the first ending, and then only by the holder, in
  the order of the code (`OneTeardown`). `RecordHasEveryTurnHolds` needs the
  queue's order: the pump has copied what it was given (`Copied`), and a
  `close()` whose `Closed` woke the pump resumes behind it (`PumpFirst`), so the
  pump has met the `Closed` before it is cancelled. `StoryToldHolds`: a call
  implements `CallStory`, where the story is the session's stream up to its
  `Closed`. What a step of the session does to that is `ReportedStep` of
  `LiveSessionProofs`; delivering the record is the abstract `HandOff`, for
  which the reason must be known: a task that met an ending has one, and one
  that blames Gemini names the `Closed` the pump took (`Named`). Assumes only
  the types of the bounds and switches, and what section 2 says of the event
  loop.
* `RegistryProofs`. `HolderSafe` (a session has one holder): `OneHolder` is not
  inductive, as `Register` could write a session somebody already holds;
  `HolderInv` adds that a session in the registry or with a socket is one whose
  webhook is *done*, and that only a request inside a sweep, a supersede or a
  hang-up awaits a `close()`. `OrphanedByStartOnlyHolds` and
  `CallKeepsSessionHolds` follow the session of an unretried webhook: its key
  holds itself or nothing (`OwnKey`), so whoever pops the key closes or adopts
  this very session; `Followed` says where it is while it is open. For that,
  sessions are opened once (`Unborn`) and awaited by one request at a time
  (`AwaitedCloses`).
* `BridgeProofs`, the codec. `Coded` and `Decoded`, for all 65 536 samples and 256 codes. The
  segment of a magnitude is characterised without `CHOOSE` (`SegmentIs`), a
  packed value by the level of its segment and quantum (`PackedIs`), and the
  error is bounded per segment.
* `BridgeProofs`, the bridge. `NothingLostHolds`, `ClaimsTrueHolds`, `RecordingComplete`,
  `HeardAsSpokenHolds`, from `BridgeInv`: each leg has a `Flow` (handed on and
  held make up what was taken; a peer that listens has it all and one that
  stopped a prefix; each forward has its line or a lost one), and `Whole` ties
  the recorder's buffers and the files to the flows. The last theorem is the
  flow of the outbound leg with `Coded` for each sample.
* `DispatchProofs`. `AtMostOneSmsHolds` and `OkMeansSentHolds` from `SmsInv`;
  `BriefAgreesHolds` from `BriefInv`. The marker is a permission that is handed
  out once: a call is marked iff some run claimed it; a run that is sending, or
  saw its message accepted, is the one that claimed, and the count is 0 or 1
  accordingly. For the brief: a run at its brief has the outcomes
  it gave to its email, but for the email's own (`BriefDue`); a whole brief
  repeats those of `briefBy` (`Says`), whose outcomes no later step changes, its
  own or another run's (`SaysKept`, `BriefElsewhere`). Assumes only that `None` is not a run or
  a report.
* `VerticalProofs`. `SmsOnlyOnVerdictHolds`, `SmsToTheCallerHolds`,
  `VerdictKeptHolds` and `NamesResolveHolds`, for any environment, directory,
  webhook and answer. `Staged` says that a serving deployment's file passed
  `Loads` and its profile is `Built` from it, that the number is the resolved
  one and that the analysis is `Analysed` of the answer; the lemma
  `LoadedTemplate` draws from `Loads` that no template stands under the reserved
  label and that fields and links agree. `TypeCorrect` says that only a serving
  deployment has a profile and that every outcome is one of its labels or the
  reserved one. `EnvironmentAssumption` and `ProfilesAssumption` say that the
  deployments are environments with directories, and that no profile is `None`.
* `SpendGuardProofs`. `CapHoldsAlways`: a state that may be written back covers
  what its day granted, but for the cap once per read that failed on that day
  (`Refills`), and knows of no later day (`Covers`); a torn ledger
  allows nothing; one process at a time is between reading and writing.
* `MutateCheckProofs`. `TreeRestoredAlways`: where a run stands says what the file
  holds (`FileKnown`), but while it is about to be rewritten, and then the run is
  still to rewrite and verify it, whatever handlers nest.

Every safety property of a passing run is proved. Only model-checked are the
liveness properties `StreamEnds`, `CloseCompletes`, `NoTaskStuck`,
`EndingReachesRecord`, `RequestsFinish` and `RunsEnd`: liveness under fairness is
beyond TLAPS. The five violated properties have TLC's counterexamples.

## 6. Composition and plan

`MediaCall` runs over `INSTANCE LiveSession`; `Bridge` over `Codec`; `Vertical`
over `Settings`. Everything the first plan named is built but:

1. A second start message on a socket (`server.py:382`). Twilio sends one per
   stream, and the code promises nothing for two.
2. `Registry` over `Dispatch`: the two runs of one CallSid are assumed in
   `Dispatch`; `Registry` shows that a retried webhook can lead to two calls.
3. An abstract specification of the registry (a webhook's session is handed to
   at most one socket, or closed) that `Registry` implements.

## 7. Not modelled

* The layout of TwiML, email and brief, logging, and the prompt and rendering of
  the transcript: formatting that no property is about.
* The filter of the resampler, and a phone gain other than 0 dB: what they do to
  a waveform is a matter of measurement, and `scripts/verify_soxr_premise.py`
  measures it.
* The vendors: Gemini, Twilio and SMTP are what the code sees of them. A message
  may carry any fields, a send may fail, an answer may be lost, a request may be
  retried.
* `scripts/smoke_*`, `spike_*`, `check_ids`, `verify_soxr_premise`: sequential
  drivers that call the modelled parts once and print what happened. Of
  `smoke_dispatch` the way its paid tier uses the spend guard is modelled.
* `hook-checks` (checks of the development workflow) and `landings` (static
  sites that do not talk to the server).
