------------------------------ MODULE PlanFile ------------------------------
(***************************************************************************)
(* The commands on an autopilot plan (autopilot_cli.py): engage, takeover, *)
(* cycle and close read the plan file, then ask the board for its claim or *)
(* give it back, and write the plan, whole, from the text they read.  Two  *)
(* sessions may run them at once, agents edit the plan meanwhile, and a    *)
(* command can be killed between any two steps.                            *)
(*                                                                         *)
(* Every write adds an entry of its own to the plan: an edit, a line of the*)
(* ledger, an owner, a status.  The claim changes in one step, as          *)
(* ClaimPromise has it.  The checks of the text (criteria, checklist, close*)
(* problems) may refuse any command and are left out; what the pointer does*)
(* at the end of a turn is in Turn.                                        *)
(***************************************************************************)
EXTENDS Naturals

CONSTANTS
  Owner,      \* sessions
  NoOwner,    \* nobody
  MaxEntries  \* bound on the entries

ASSUME PlanAssumption == NoOwner \notin Owner /\ MaxEntries \in Nat

VARIABLES
  entries,   \* the entries so far are 1..entries
  text,      \* the plan file: owner, status and the entries it has
  holds,     \* who claims the plan on the board
  silent,    \* the sessions neither the board nor the plan has seen for long
  points,    \* the sessions whose pointer names the plan
  command,   \* command[s]: the command s runs, its step and the text it read
  behindIt,  \* entries made while another command had read the plan
  robbed     \* sessions that lost the claim to a takeover or while silent

planVars ==
  <<entries, text, holds, silent, points, command, behindIt, robbed>>

Entry == 1..MaxEntries
Text == [owner : Owner \cup {NoOwner}, status : {"new", "running", "closed"},
         has : SUBSET Entry]
Blank == [owner |-> NoOwner, status |-> "new", has |-> {}]
NoCommand == [at |-> "idle", kind |-> "cycle", read |-> Blank]

PlanInit ==
  /\ entries = 0 /\ text = Blank
  /\ holds = NoOwner /\ silent = {} /\ points = {}
  /\ command = [s \in Owner |-> NoCommand]
  /\ behindIt = {} /\ robbed = {}
-----------------------------------------------------------------------------
Busy(s) == command[s].at # "idle"

\* The plan with a new entry; another command that has read it will undo it.
WriteText(s, new) ==
  /\ entries < MaxEntries /\ entries' = entries + 1
  /\ text' = [new EXCEPT !.has = @ \cup {entries'}]
  /\ behindIt' = IF \E o \in Owner \ {s} : Busy(o)
                 THEN behindIt \cup {entries'} ELSE behindIt

\* The agent edits the plan file.
EditPlan(s) ==
  /\ ~Busy(s)
  /\ WriteText(s, text)
  /\ silent' = silent \ {s}
  /\ UNCHANGED <<holds, points, command, robbed>>

GoSilent(s) ==
  /\ ~Busy(s) /\ silent' = silent \cup {s}
  /\ UNCHANGED <<entries, text, holds, points, command, behindIt, robbed>>
-----------------------------------------------------------------------------
OnStep(s, kinds, step) == command[s].kind \in kinds /\ command[s].at = step
Then(s, step) ==
  command' = [command EXCEPT ![s] = IF step = "idle" THEN NoCommand
                                    ELSE [@ EXCEPT !.at = step]]
Files == UNCHANGED <<entries, text, behindIt>>

Load(s, kind, step) ==
  /\ ~Busy(s)
  /\ command' =
       [command EXCEPT ![s] = [at |-> step, kind |-> kind, read |-> text]]
  /\ silent' = silent \ {s}
  /\ Files /\ UNCHANGED <<holds, points, robbed>>

Engage(s) ==
  /\ text.owner \in {NoOwner, s} /\ text.status # "closed"
  /\ Load(s, "engage", "claim")

\* Refused while the owner or the plan was active within the limit.
Takeover(s) ==
  /\ text.status = "running" /\ text.owner \in silent \cup {s}
  /\ Load(s, "takeover", "release")

Cycle(s) == text.owner = s /\ Load(s, "cycle", "write")
Close(s) == text.owner = s /\ Load(s, "close", "write")

\* takeover drops the claim of the owner it read; a third may hold it by now.
ReleaseOwner(s) ==
  LET o == command[s].read.owner
  IN /\ OnStep(s, {"takeover"}, "release") /\ Then(s, "claim")
     /\ holds' = IF holds = o THEN NoOwner ELSE holds
     /\ robbed' = IF holds = o THEN robbed \cup {o} ELSE robbed
     /\ Files /\ UNCHANGED <<silent, points>>

\* Mutant: a conflict on the board does not stop the command.
Ignored(s) == TRUE

Claimable(s) == holds \in {NoOwner, s} \cup silent

ClaimPlan(s) ==
  /\ OnStep(s, {"engage", "takeover"}, "claim")
  /\ Claimable(s) /\ Then(s, "write")
  /\ holds' = s
  /\ robbed' = (IF holds \in silent THEN robbed \cup {holds} ELSE robbed) \ {s}
  /\ Files /\ UNCHANGED <<silent, points>>

ClaimConflict(s) ==
  /\ OnStep(s, {"engage", "takeover"}, "claim")
  /\ ~Claimable(s) /\ Then(s, "idle")
  /\ Files /\ UNCHANGED <<holds, silent, points, robbed>>

\* The text each command writes: the one it read, with its own field set.
NewText(s) ==
  CASE command[s].kind \in {"engage", "takeover"} ->
         [command[s].read EXCEPT !.owner = s, !.status = "running"]
    [] command[s].kind = "cycle" -> command[s].read
    [] command[s].kind = "close" -> [command[s].read EXCEPT !.status = "closed"]

Write(s) ==
  /\ command[s].at = "write"
  /\ WriteText(s, NewText(s))
  /\ Then(s, CASE command[s].kind = "cycle" -> "idle"
               [] command[s].kind = "close" -> "drop"
               [] OTHER -> "point")
  /\ UNCHANGED <<holds, silent, points, robbed>>

Point(s) ==
  /\ command[s].at = "point" /\ Then(s, "idle")
  /\ points' = points \cup {s}
  /\ Files /\ UNCHANGED <<holds, silent, robbed>>

DropClaim(s) ==
  /\ command[s].at = "drop" /\ Then(s, "unpoint")
  /\ holds' = IF holds = s THEN NoOwner ELSE holds
  /\ Files /\ UNCHANGED <<silent, points, robbed>>

Unpoint(s) ==
  /\ command[s].at = "unpoint" /\ Then(s, "idle")
  /\ points' = points \ {s}
  /\ Files /\ UNCHANGED <<holds, silent, robbed>>

\* Killed, or refused by one of the checks of the text.
CommandDies(s) ==
  /\ command[s].at \in {"release", "claim", "write", "drop", "unpoint"}
  /\ Then(s, "idle")
  /\ Files /\ UNCHANGED <<holds, silent, points, robbed>>

PlanNext ==
  \E s \in Owner :
    \/ EditPlan(s) \/ GoSilent(s) \/ Engage(s) \/ Takeover(s) \/ Cycle(s)
    \/ Close(s) \/ ReleaseOwner(s) \/ ClaimPlan(s) \/ ClaimConflict(s)
    \/ Write(s) \/ Point(s) \/ DropClaim(s) \/ Unpoint(s) \/ CommandDies(s)

PlanSpec == PlanInit /\ [][PlanNext]_planVars
-----------------------------------------------------------------------------
PlanTypes ==
  /\ entries \in 0..MaxEntries /\ text \in Text
  /\ holds \in Owner \cup {NoOwner}
  /\ silent \subseteq Owner /\ points \subseteq Owner /\ robbed \subseteq Owner
  /\ command \in [Owner ->
       [at : {"idle", "release", "claim", "write", "point", "drop", "unpoint"},
        kind : {"engage", "takeover", "cycle", "close"}, read : Text]]
  /\ behindIt \subseteq Entry

\* Nothing written to the plan is undone, no edit, ledger line, owner or status,
\* unless it was written while another command had read the plan and not yet
\* written it (autopilot_cli.py:199-201).
EntriesKept == 1..entries \ behindIt \subseteq text.has

\* The owner of a running plan has its claim, unless a takeover released it or a
\* session took it while the owner was silent: whoever runs commands at once and
\* whatever is killed, no plan is owned past the board
\* (autopilot_cli.py:125-128).
OwnerHoldsClaim ==
  text.status = "running" => text.owner \in {holds} \cup robbed

\* Both: what the commands promise about the plan file and about its claim.
PlanKept == EntriesKept /\ OwnerHoldsClaim
=============================================================================
