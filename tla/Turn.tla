-------------------------------- MODULE Turn --------------------------------
(***************************************************************************)
(* The end of a turn: the Stop hook (hook.py), which sends a reply back for *)
(* revision or lets a delegated run go on (autopilot.py), and the commands *)
(* that give a session its run (autopilot_cli.py).                         *)
(*                                                                         *)
(* The hook must not keep a turn from ending for ever.  What it remembers  *)
(* between two stops is in two files: the marker, with the check that sent *)
(* this session back last, and the pointer, with the count of requests in a *)
(* row and the plan as it was at the last.  Each file operation of the hook *)
(* is a step, and the hook may fail at any of them; a command, which the   *)
(* agent runs within its turn, is one step.  The claim a command makes on  *)
(* the plan is left to the board.                                          *)
(***************************************************************************)
EXTENDS Naturals

CONSTANTS
  Session,    \* sessions
  None,       \* no owner, no pointer, no digest
  Body,       \* what a plan can say, its owner and its ledger left out
  Asking,     \* those for which turn_end_reason has a request
  Closed,     \* those whose status is done, incomplete or cancelled
  Limit,      \* max_continuations
  MaxTurns,   \* bound on the turns of all sessions
  MaxEngages, \* bound on the engagements and takeovers
  MaxLedger   \* bound on the lines of the cycle ledger

ASSUME TurnAssumption ==
  /\ None \notin Session
  /\ Asking \subseteq Body /\ Closed \subseteq Body
  /\ Limit \in Nat \ {0}
  /\ MaxTurns \in Nat /\ MaxEngages \in Nat /\ MaxLedger \in Nat

VARIABLES
  plan,     \* the plan file
  pointer,  \* pointer[s]: autopilot/<s>.json for this plan, or None
  marker,   \* marker[s]: stop/<s>.json, or "absent"
  pc,       \* pc[s]: between turns, at work, or the next step of the hook
  active,   \* active[s]: stop_hook_active, this stop follows a request
  bad,      \* bad[s]: the reply has problems
  by,       \* by[s]: the check that found a reason at this stop, or "none"
  note,     \* note[s]: the hook is about to show the note
  turns,    \* turns begun
  engages,  \* engagements and takeovers so far
  back,     \* back[s]: the check that last sent the turn back, or "none"
  inTurn,   \* inTurn[s]: requests of the autopilot in this turn
  asked,    \* asked[s]: its requests since the plan last changed
  told      \* told[s]: whether the person was told the run was let go

hookVars == <<pc, active, bad, by, note>>
history == <<back, inTurn, asked, told>>
vars == <<plan, pointer, marker, hookVars, turns, engages, history>>

Check == {"none", "reply", "autopilot"}
Plan == [owner : Session \cup {None}, body : Body, ledger : 0..MaxLedger]
Pointer == [streak : Nat, digest : Plan \cup {None}]

Init ==
  /\ plan \in [owner : {None}, body : Body \ Closed, ledger : {0}]
  /\ pointer = [s \in Session |-> None]
  /\ marker = [s \in Session |-> "absent"]
  /\ pc = [s \in Session |-> "idle"]
  /\ active = [s \in Session |-> FALSE]
  /\ bad = [s \in Session |-> FALSE]
  /\ by = [s \in Session |-> "none"]
  /\ note = [s \in Session |-> FALSE]
  /\ turns = 0
  /\ engages = 0
  /\ back = [s \in Session |-> "none"]
  /\ inTurn = [s \in Session |-> 0]
  /\ asked = [s \in Session |-> 0]
  /\ told = [s \in Session |-> "no"]

GoTo(s, step) == pc' = [pc EXCEPT ![s] = step]
-----------------------------------------------------------------------------
(* The turn, and the commands the agent runs in it                         *)

Prompt(s) ==
  /\ pc[s] = "idle"
  /\ turns < MaxTurns
  /\ turns' = turns + 1
  /\ GoTo(s, "work")
  /\ UNCHANGED <<plan, pointer, marker, active, bad, by, note, engages, history>>

\* The next stop is the first of a turn, and follows no request.
TurnOver(s) ==
  /\ GoTo(s, "idle")
  /\ active' = [active EXCEPT ![s] = FALSE]
  /\ back' = [back EXCEPT ![s] = "none"]
  /\ inTurn' = [inTurn EXCEPT ![s] = 0]

\* The person interrupts: no Stop hook runs.
Interrupt(s) ==
  /\ pc[s] = "work"
  /\ TurnOver(s)
  /\ UNCHANGED <<plan, pointer, marker, bad, by, note, turns, engages, asked,
                 told>>

WritePlan(new) ==
  /\ plan' = new
  /\ asked' = IF new = plan THEN asked ELSE [s \in Session |-> 0]

\* The agent edits its plan, and may set its status.
Edit(s, body) ==
  /\ pc[s] = "work"
  /\ plan.owner = s
  /\ WritePlan([plan EXCEPT !.body = body])
  /\ UNCHANGED <<pointer, marker, hookVars, turns, engages, back, inTurn, told>>

\* The pointer is written anew, and its count begins again.
Point(s) ==
  /\ pointer' = [pointer EXCEPT ![s] = [streak |-> 0, digest |-> None]]
  /\ engages' = engages + 1
  /\ inTurn' = [inTurn EXCEPT ![s] = 0]
  /\ told' = [told EXCEPT ![s] = "no"]

Engage(s) ==
  /\ pc[s] = "work"
  /\ engages < MaxEngages
  /\ plan.owner \in {None, s}
  /\ plan.body \notin Closed
  /\ plan' = [plan EXCEPT !.owner = s]
  /\ asked' = IF plan.owner = s THEN [asked EXCEPT ![s] = 0]
                                ELSE [r \in Session |-> 0]
  /\ Point(s)
  /\ UNCHANGED <<marker, hookVars, turns, back>>

\* The owner has shown no activity for long enough.
Takeover(s) ==
  /\ pc[s] = "work"
  /\ engages < MaxEngages /\ plan.ledger < MaxLedger
  /\ plan.body \notin Closed
  /\ WritePlan([owner |-> s, body |-> plan.body, ledger |-> plan.ledger + 1])
  /\ Point(s)
  /\ UNCHANGED <<marker, hookVars, turns, back>>

Cycle(s) ==
  /\ pc[s] = "work"
  /\ plan.owner = s
  /\ plan.ledger < MaxLedger
  /\ WritePlan([plan EXCEPT !.ledger = @ + 1])
  /\ UNCHANGED <<pointer, marker, hookVars, turns, engages, back, inTurn, told>>

\* An honest close, the only one the command makes.
Close(s, body) ==
  /\ pc[s] = "work"
  /\ plan.owner = s
  /\ body \in Closed \ Asking
  /\ WritePlan([plan EXCEPT !.body = body])
  /\ pointer' = [pointer EXCEPT ![s] = None]
  /\ UNCHANGED <<marker, hookVars, turns, engages, back, inTurn, told>>
-----------------------------------------------------------------------------
(* stop                                                                    *)

\* The agent replies, and the harness runs the hook.
Reply(s, problems) ==
  /\ pc[s] = "work"
  /\ bad' = [bad EXCEPT ![s] = problems]
  /\ GoTo(s, "check")
  /\ UNCHANGED <<plan, pointer, marker, active, by, note, turns, engages,
                 history>>

\* Mutant: the marker of an earlier turn counts.
LastOfAnyTurn(s) == IF marker[s] = "absent" THEN "none" ELSE marker[s]

\* The check that sent this turn back last, as far as the marker tells.
Last(s) == IF active[s] /\ marker[s] # "absent" THEN marker[s] ELSE "none"

Revise(s) ==
  /\ pc[s] = "check"
  /\ Last(s) # "reply" /\ bad[s]
  /\ by' = [by EXCEPT ![s] = "reply"]
  /\ GoTo(s, "mark")
  /\ UNCHANGED <<plan, pointer, marker, active, bad, note, turns, engages,
                 history>>

ReplyPasses(s) ==
  /\ pc[s] = "check"
  /\ Last(s) = "reply" \/ ~bad[s]
  /\ GoTo(s, "evaluate")
  /\ UNCHANGED <<plan, pointer, marker, active, bad, by, note, turns, engages,
                 history>>

Owns(s) == pointer[s] # None /\ plan.owner = s

\* turn_end_reason: work left, a wait or a blocker nobody will hear of, or a
\* close that is not honest.
Unfinished == plan.body \in Asking

\* No run of this session, nothing to ask of it, or a background task that
\* will wake the session: the pointer stays as it is.
NothingToAsk(s) ==
  /\ pc[s] = "evaluate"
  /\ GoTo(s, "mark")
  /\ UNCHANGED <<plan, pointer, marker, active, bad, by, note, turns, engages,
                 history>>

\* Mutant: only the flag of the harness tells a repeat ...
RepeatByFlag(s) == active[s]

\* Mutant: ... or only the plan does.
RepeatByPlan(s) == pointer[s].digest = plan

Repeat(s) == active[s] \/ pointer[s].digest = plan

Streak(s) == IF Repeat(s) THEN pointer[s].streak + 1 ELSE 1

Count(s) ==
  pointer' = [pointer EXCEPT ![s] = [streak |-> Streak(s), digest |-> plan]]

Ask(s) ==
  /\ pc[s] = "evaluate"
  /\ Owns(s) /\ Unfinished
  /\ Streak(s) <= Limit
  /\ Count(s)
  /\ by' = [by EXCEPT ![s] = "autopilot"]
  /\ GoTo(s, "mark")
  /\ UNCHANGED <<plan, marker, active, bad, note, turns, engages, history>>

\* Mutant: the note comes one stop late.
LetGoLate(s) ==
  /\ pc[s] = "evaluate"
  /\ Owns(s) /\ Unfinished
  /\ Streak(s) > Limit
  /\ Count(s)
  /\ note' = [note EXCEPT ![s] = Streak(s) = Limit + 2]
  /\ GoTo(s, "mark")
  /\ UNCHANGED <<plan, marker, active, bad, by, turns, engages, history>>

\* Too many in a row: the turn may end, and the first time with a note.
LetGo(s) ==
  /\ pc[s] = "evaluate"
  /\ Owns(s) /\ Unfinished
  /\ Streak(s) > Limit
  /\ Count(s)
  /\ note' = [note EXCEPT ![s] = Streak(s) = Limit + 1]
  /\ GoTo(s, "mark")
  /\ UNCHANGED <<plan, marker, active, bad, by, turns, engages, history>>

\* Mutant: a marker is kept up, but never made.
MarksIfThere(s) == marker[s] # "absent"

\* Mutant: a marker is made, but not kept up.
MarksIfAbsent(s) == marker[s] = "absent" /\ by[s] # "none"

Marks(s) == by[s] # "none" \/ marker[s] # "absent"

Mark(s) ==
  /\ pc[s] = "mark"
  /\ marker' = IF Marks(s) THEN [marker EXCEPT ![s] = by[s]] ELSE marker
  /\ GoTo(s, "print")
  /\ UNCHANGED <<plan, pointer, active, bad, by, note, turns, engages, history>>

\* What the hook held is gone when it ends.
Forget(s) == /\ by' = [by EXCEPT ![s] = "none"]
             /\ note' = [note EXCEPT ![s] = FALSE]
             /\ bad' = [bad EXCEPT ![s] = FALSE]

\* decision: block.
SendBack(s) ==
  /\ pc[s] = "print" /\ by[s] # "none"
  /\ GoTo(s, "work")
  /\ active' = [active EXCEPT ![s] = TRUE]
  /\ back' = [back EXCEPT ![s] = by[s]]
  /\ IF by[s] = "autopilot"
       THEN /\ inTurn' = [inTurn EXCEPT ![s] = @ + 1]
            /\ asked' = [asked EXCEPT ![s] = @ + 1]
       ELSE UNCHANGED <<inTurn, asked>>
  /\ Forget(s)
  /\ UNCHANGED <<plan, pointer, marker, turns, engages, told>>

EndTurn(s) ==
  /\ pc[s] = "print" /\ by[s] = "none"
  /\ TurnOver(s)
  /\ told' = IF note[s] THEN [told EXCEPT ![s] = "yes"] ELSE told
  /\ Forget(s)
  /\ UNCHANGED <<plan, pointer, marker, turns, engages, asked>>

\* The hook raises, or the harness kills it: the turn ends.  A marker whose
\* writing is cut short is empty, and tells of no check.
Fail(s) ==
  /\ pc[s] \in {"check", "evaluate", "mark", "print"}
  /\ TurnOver(s)
  /\ \/ UNCHANGED marker
     \/ /\ pc[s] = "mark" /\ Marks(s)
        /\ marker' = [marker EXCEPT ![s] = "none"]
  /\ told' = IF note[s] THEN [told EXCEPT ![s] = "lost"] ELSE told
  /\ Forget(s)
  /\ UNCHANGED <<plan, pointer, turns, engages, asked>>

Replies(s) == \E problems \in BOOLEAN : Reply(s, problems)

HookStep(s) ==
  \/ Revise(s) \/ ReplyPasses(s)
  \/ NothingToAsk(s) \/ Ask(s) \/ LetGo(s)
  \/ Mark(s) \/ SendBack(s) \/ EndTurn(s)

Command(s) ==
  \/ Engage(s) \/ Takeover(s) \/ Cycle(s)
  \/ \E body \in Body : Edit(s, body) \/ Close(s, body)

Next ==
  \E s \in Session :
    \/ Prompt(s) \/ Interrupt(s) \/ Command(s)
    \/ Replies(s) \/ HookStep(s) \/ Fail(s)

Spec == Init /\ [][Next]_vars

\* An agent at work replies in the end, and the hook runs to its end.
LiveSpec ==
  /\ Spec
  /\ \A s \in Session : WF_vars(Replies(s)) /\ WF_vars(HookStep(s))
-----------------------------------------------------------------------------
TypeOK ==
  /\ plan \in Plan
  /\ pointer \in [Session -> Pointer \cup {None}]
  /\ marker \in [Session -> Check \cup {"absent"}]
  /\ pc \in [Session -> {"idle", "work", "check", "evaluate", "mark", "print"}]
  /\ active \in [Session -> BOOLEAN] /\ bad \in [Session -> BOOLEAN]
  /\ by \in [Session -> Check] /\ note \in [Session -> BOOLEAN]
  /\ turns \in 0..MaxTurns /\ engages \in 0..MaxEngages
  /\ back \in [Session -> Check]
  /\ inTurn \in [Session -> Nat] /\ asked \in [Session -> Nat]
  /\ told \in [Session -> {"no", "yes", "lost"}]

\* The autopilot asks at most Limit times in one turn, whatever the agent does
\* to the plan between two requests, unless it engages the plan anew; replies
\* sent back in between count for nothing (turn-end-check.md:37-46).
AsksInTurn == \A s \in Session : inTurn[s] <= Limit

\* It asks at most Limit times for a plan that nobody changes, over however
\* many turns, interrupted ones and failed hooks (autopilot.py:8-11).
AsksForPlan == \A s \in Session : asked[s] <= Limit

\* A reply the reply check sent back is not sent back by it again: between two
\* of its requests in a turn there is one of the autopilot (hook.py:196).
NeverTwice ==
  \A s \in Session : pc[s] = "print" /\ by[s] = "reply" => back[s] # "reply"

\* A reply with problems ends a turn only when it revises one sent back for its
\* problems: no marker left by an interrupted turn or a failed hook lets it
\* through unread.
BadRepliesRevised ==
  \A s \in Session :
    pc[s] = "print" /\ by[s] = "none" /\ bad[s] => back[s] = "reply"

\* A run is let go with no word only when the person was told before, or the
\* hook that was to tell failed.
LetGoIsTold ==
  \A s \in Session :
    pointer[s] # None /\ pointer[s].streak > Limit =>
      told[s] # "no" \/ note[s]

\* Every turn ends: the two checks, taking turns, never keep a session at work
\* for ever, even if every reply is bad and the plan is never finished
\* (autopilot.py:8-11, hook.py:208).
TurnEnds == \A s \in Session : pc[s] # "idle" ~> pc[s] = "idle"
=============================================================================
