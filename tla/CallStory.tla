------------------------------- MODULE CallStory -------------------------------
(***************************************************************************)
(* What a call promises whoever is told how it went: the session's events  *)
(* make a story that only grows and is closed once, and when it is closed  *)
(* the call may be told of once, with all the turns of the story, blaming  *)
(* Gemini for the ending only when the story was closed by Gemini, and for *)
(* what closed it.                                                         *)
(***************************************************************************)
EXTENDS Naturals, Sequences, SequencesExt

CONSTANTS Ours,   \* the endings that are not Gemini's
          Blame   \* what each way Gemini closes a story is called in a record

VARIABLES
    story,      \* the events up to the closing one
    over,       \* the story is closed
    told        \* the records handed off

storyVars == <<story, over, told>>

IsClosing(e) == e.kind = "closed"
TurnsOf(s) == {i \in DOMAIN s : s[i].kind = "transcript"}

\* copy holds the transcripts of s: each of them once, in their order.
CopiesTurns(copy, s) ==
    \E from \in [DOMAIN copy -> TurnsOf(s)] :
        /\ \A i \in DOMAIN copy : copy[i] = s[from[i]]
        /\ \A i, j \in DOMAIN copy : i < j => from[i] < from[j]
        /\ \A k \in TurnsOf(s) : \E i \in DOMAIN copy : from[i] = k

\* A record of a closed story that may end with this reason.
Names(reason, s) ==
    \/ reason \in Ours
    \/ \E k \in DOMAIN Blame :
           s[Len(s)].reason = k /\ reason = Blame[k]

Tells(r, s) == CopiesTurns(r.transcript, s) /\ Names(r.reason, s)

-----------------------------------------------------------------------------
Init == story = <<>> /\ over = FALSE /\ told = <<>>

\* Something is reported, and the story goes on.
Report ==
    /\ ~over
    /\ IsPrefix(story, story')
    /\ \A i \in DOMAIN story' : ~IsClosing(story'[i])
    /\ UNCHANGED <<over, told>>

\* The story is closed: its last events, then the closing one.
Close ==
    /\ ~over /\ over' = TRUE
    /\ story' # <<>>
    /\ IsPrefix(story, story')
    /\ \A i \in DOMAIN story' : IsClosing(story'[i]) <=> i = Len(story')
    /\ UNCHANGED told

\* The call is told of.
HandOff ==
    /\ over /\ told = <<>>
    /\ Len(told') = 1
    /\ Tells(told'[1], story)
    /\ UNCHANGED <<story, over>>

Spec == Init /\ [][Report \/ Close \/ HandOff]_storyVars
=============================================================================
