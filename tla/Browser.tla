------------------------------- MODULE Browser -------------------------------
(***************************************************************************)
(* The guard of the browser (guards.py, check_browser): one extension      *)
(* serves the sessions of every workspace and acts in the browser selected *)
(* last, so a call passes only when its own session made the latest        *)
(* selection and its transcript shows that it succeeded.  The guard runs   *)
(* before each call and keeps what it knows in one file; the calls of      *)
(* several sessions, and the guard's own steps, interleave.                *)
(*                                                                         *)
(* Every session here started in a mapped workspace, and selects only the  *)
(* device of that workspace: the guard refuses any other and               *)
(* switch_browser at once.  Calls of sessions elsewhere are not checked.   *)
(***************************************************************************)
CONSTANTS
  User,      \* sessions in mapped workspaces, with one call at a time
  Device,    \* Device[s]: the browser of the workspace of s
  NoUser     \* no session

ASSUME BrowserAssumption == NoUser \notin User

VARIABLES
  selection,  \* browser.json: who selected, and whether that was confirmed
  extension,  \* whose selection the extension carried out last
  result,     \* result[s]: the last selection in the transcript of s
  doing,      \* doing[s]: how far the call of s came
  selector,   \* whose selection the guard let through last
  alone,      \* sessions since whose selection no other was under way
  confirming  \* sessions that were confirming when another selected

browserVars ==
  <<selection, extension, result, doing, selector, alone, confirming>>

Selected(s, sure) == [session |-> s, confirmed |-> sure]

BrowserInit ==
  /\ selection = Selected(NoUser, FALSE)
  /\ extension = NoUser
  /\ result = [s \in User |-> "none"]
  /\ doing = [s \in User |-> "idle"]
  /\ selector = NoUser /\ alone = {} /\ confirming = {}

Advances(s, step, next) ==
  doing[s] = step /\ doing' = [doing EXCEPT ![s] = next]
-----------------------------------------------------------------------------
\* Mutant: a new selection keeps what was confirmed of the last.
SelectedStill(s) == Selected(s, selection.confirmed)

\* What the guard writes when it lets a selection through.
NewSelection(s) == Selected(s, FALSE)

LetSelect(s) ==
  /\ Advances(s, "idle", "select")
  /\ selection' = NewSelection(s)
  /\ result' = [result EXCEPT ![s] = "pending"]
  /\ selector' = s
  /\ alone' = IF \E o \in User \ {s} : doing[o] = "select" THEN {} ELSE {s}
  /\ confirming' = {o \in User \ {s} : doing[o] = "confirm"}
  /\ UNCHANGED extension

SelectSucceeds(s) ==
  /\ Advances(s, "select", "idle")
  /\ extension' = s
  /\ result' = [result EXCEPT ![s] = "selected"]
  /\ UNCHANGED <<selection, selector, alone, confirming>>

SelectFails(s) ==
  /\ Advances(s, "select", "idle")
  /\ result' = [result EXCEPT ![s] = "failed"]
  /\ UNCHANGED <<selection, extension, selector, alone, confirming>>

\* Any other call: the file is read, and a confirmed selection passes at once.
LetCall(s) ==
  /\ selection = Selected(s, TRUE)
  /\ Advances(s, "idle", "act")
  /\ UNCHANGED <<selection, extension, result, selector, alone, confirming>>

\* One that is not is looked up in the transcript ...
LastSelection(s) ==
  /\ selection = Selected(s, FALSE) /\ result[s] = "selected"
  /\ Advances(s, "idle", "confirm")
  /\ UNCHANGED <<selection, extension, result, selector, alone, confirming>>

\* ... and what was read of the file is written back as confirmed.
Confirm(s) ==
  /\ Advances(s, "confirm", "act")
  /\ selection' = Selected(s, TRUE)
  /\ UNCHANGED <<extension, result, selector, alone, confirming>>

Act(s) ==
  /\ Advances(s, "act", "idle")
  /\ UNCHANGED <<selection, extension, result, selector, alone, confirming>>

\* The session or its hook is killed; a selection under way may still happen.
UserDies(s) ==
  /\ doing[s] # "idle" /\ Advances(s, doing[s], "idle")
  /\ \/ doing[s] = "select" /\ extension' = s
     \/ UNCHANGED extension
  /\ UNCHANGED <<selection, result, selector, alone, confirming>>

BrowserNext ==
  \E s \in User :
    \/ LetSelect(s) \/ SelectSucceeds(s) \/ SelectFails(s) \/ LetCall(s)
    \/ LastSelection(s) \/ Confirm(s) \/ Act(s) \/ UserDies(s)

BrowserSpec == BrowserInit /\ [][BrowserNext]_browserVars
-----------------------------------------------------------------------------
BrowserTypes ==
  /\ selection.session \in User \cup {NoUser} /\ selection.confirmed \in BOOLEAN
  /\ extension \in User \cup {NoUser} /\ selector \in User \cup {NoUser}
  /\ result \in [User -> {"none", "pending", "selected", "failed"}]
  /\ doing \in [User -> {"idle", "select", "confirm", "act"}]
  /\ alone \subseteq User /\ confirming \subseteq User

\* Whatever failed, was killed or is still on its way: a session whose
\* selection no other overlapped or followed acts in the browser of its own
\* workspace (guards.py:312-315).  And "a selection by any other session, to any
\* device, re-arms the check" (account-routing.md:108), unless the doing's guard
\* was just writing that its own selection had succeeded.
OwnBrowser ==
  [][\A s \in User :
       /\ Act(s) /\ s \in alone => extension \in User
                                   /\ Device[extension] = Device[s]
       /\ LetCall(s) => selector = s \/ s \in confirming]_browserVars
=============================================================================
