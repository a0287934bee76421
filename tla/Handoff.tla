------------------------------- MODULE Handoff -------------------------------
(***************************************************************************)
(* `synthesis handoff` (project.py, handoff and _handoff_repo): a session  *)
(* commits what changed in its claims and pushes it, and says READY when   *)
(* another machine can resume from it.  Several sessions share one         *)
(* checkout; every git command is a step, and between two of them the      *)
(* others edit, stage, commit, take claims over and switch branches, and   *)
(* other machines push.                                                    *)
(*                                                                         *)
(* Changes are counted in pieces, each to one record; a branch is the set  *)
(* of the pieces its commits hold, so that one branch can be fast-         *)
(* forwarded to another if it is a subset.                                 *)
(***************************************************************************)
EXTENDS Naturals, Sequences

CONSTANTS
  Agent,      \* sessions of the checkout that hand off
  Outsider,   \* any other session of it
  Doc,        \* the files under claims
  Line,       \* the branches
  Trunk,      \* the branch the checkout is on at first
  MaxPieces   \* bound on the changes

ASSUME HandoffAssumption ==
  Outsider \notin Agent /\ Trunk \in Line /\ MaxPieces \in Nat

VARIABLES
  docOf,    \* docOf[n]: the file the piece n changed, for each piece so far
  desk,     \* the checkout: its branch, its branches, what is uncommitted
  origin,   \* origin[l]: the branch l of the remote
  holder,   \* holder[d]: the session that claims d
  handoff   \* handoff[a]: the handoff of a and what it has read

handoffVars == <<docOf, desk, origin, holder, handoff>>

Piece == 1..MaxPieces
Pieces == DOMAIN docOf
Desk == [on : Line, line : [Line -> SUBSET Piece],
         changed : SUBSET Piece]
NoHandoff == [at |-> "idle", on |-> Trunk, mine |-> {}, docs |-> {},
              before |-> {}, due |-> {}, switched |-> FALSE]

Tip == desk.line[desk.on]
ChangedIn(docs) == {n \in desk.changed : docOf[n] \in docs}

HandoffInit ==
  /\ docOf = <<>>
  /\ desk = [on |-> Trunk, line |-> [l \in Line |-> {}], changed |-> {}]
  /\ origin = [l \in Line |-> {}]
  /\ holder = [d \in Doc |-> Outsider]
  /\ handoff = [a \in Agent |-> NoHandoff]
-----------------------------------------------------------------------------
(* The other sessions and machines                                         *)

NewPiece(d) ==
  /\ Len(docOf) < MaxPieces
  /\ docOf' = Append(docOf, d)

EditDoc(d) ==
  /\ NewPiece(d)
  /\ desk' = [desk EXCEPT !.changed = @ \cup {Len(docOf')}]
  /\ UNCHANGED <<origin, handoff>>

CommitDoc(d) ==
  /\ ChangedIn({d}) # {}
  /\ desk' = [desk EXCEPT !.line[desk.on] = @ \cup ChangedIn({d}),
                          !.changed = @ \ ChangedIn({d})]
  /\ UNCHANGED <<docOf, origin, handoff>>

SwitchTo(l) ==
  /\ l # desk.on
  /\ desk' = [desk EXCEPT !.on = l]
  /\ handoff' = [a \in Agent |-> IF handoff[a].at = "idle" THEN handoff[a]
                                 ELSE [handoff[a] EXCEPT !.switched = TRUE]]
  /\ UNCHANGED <<docOf, origin>>

PushFromOther(d, l) ==
  /\ NewPiece(d)
  /\ origin' = [origin EXCEPT ![l] = @ \cup {Len(docOf')}]
  /\ UNCHANGED <<desk, handoff>>

Pull ==
  /\ Tip \subseteq origin[desk.on]
  /\ desk' = [desk EXCEPT !.line[desk.on] = origin[desk.on]]
  /\ UNCHANGED <<docOf, origin, handoff>>

PushTip ==
  /\ origin[desk.on] \subseteq Tip
  /\ origin' = [origin EXCEPT ![desk.on] = Tip]
  /\ UNCHANGED <<docOf, desk, handoff>>

TakeOver(d, a) ==
  /\ holder' = [holder EXCEPT ![d] = a]
  /\ UNCHANGED <<docOf, desk, origin, handoff>>

Beside ==
  \/ /\ UNCHANGED holder
     /\ \/ \E d \in Doc : \/ EditDoc(d) \/ CommitDoc(d)
                          \/ \E l \in Line : PushFromOther(d, l)
        \/ \E l \in Line : SwitchTo(l)
        \/ Pull \/ PushTip
  \/ \E d \in Doc, a \in Agent \cup {Outsider} : TakeOver(d, a)
-----------------------------------------------------------------------------
(* The handoff of session a                                                *)

Turns(a, step, r) ==
  /\ handoff[a].at = step
  /\ handoff' = [handoff EXCEPT ![a] = r]
  /\ UNCHANGED <<docOf, holder>>

Sees(a, step, next) ==
  /\ Turns(a, step, IF next = "idle" THEN NoHandoff
                    ELSE [handoff[a] EXCEPT !.at = next])
  /\ UNCHANGED <<desk, origin>>

\* The claims are read, and the branch: all that follows goes by them.
Begin(a) ==
  LET mine == {d \in Doc : holder[d] = a}
  IN /\ mine # {}
     /\ Turns(a, "idle", [at |-> "look", on |-> desk.on, mine |-> mine,
                          docs |-> {}, before |-> Tip,
                          due |-> ChangedIn(mine) \cup Tip, switched |-> FALSE])
     /\ UNCHANGED <<desk, origin>>

\* Mutant: every change in the checkout is this session's.
LookEverywhere(a) ==
  LET docs == {docOf[n] : n \in ChangedIn(Doc)}
  IN /\ Turns(a, "look", [handoff[a] EXCEPT !.docs = docs, !.before = Tip,
                !.at = IF docs = {} THEN "fetch" ELSE "commit"])
     /\ UNCHANGED <<desk, origin>>

Look(a) ==
  LET docs == {docOf[n] : n \in ChangedIn(handoff[a].mine)}
  IN /\ Turns(a, "look", [handoff[a] EXCEPT !.docs = docs, !.before = Tip,
                !.at = IF docs = {} THEN "fetch" ELSE "commit"])
     /\ UNCHANGED <<desk, origin>>

\* git commit --only commits these files as they are now, staged or not.
CommitOnly(a) ==
  LET new == ChangedIn(handoff[a].docs)
  IN /\ Turns(a, "commit", [handoff[a] EXCEPT !.at = "verify"])
     /\ desk' = [desk EXCEPT !.line[desk.on] = @ \cup new,
                             !.changed = @ \ new]
     /\ UNCHANGED origin

\* A hook refused the commit, or another git command held the lock.
NoCommit(a) == Sees(a, "commit", "verify")

Landed(a) == Tip # handoff[a].before /\ ChangedIn(handoff[a].docs) = {}
Verify(a) == Landed(a) /\ Sees(a, "verify", "fetch")
NotCommitted(a) == ~Landed(a) /\ Sees(a, "verify", "idle")

\* HEAD against the remote branch, as just fetched: the branch that HEAD was
\* on at the start.
Ahead(a) == ~(Tip \subseteq origin[handoff[a].on])
Behind(a) == ~(origin[handoff[a].on] \subseteq Tip)
FastForward(a) == Ahead(a) /\ ~Behind(a) /\ Sees(a, "fetch", "push")
UpToDate(a) == ~Ahead(a) /\ Sees(a, "fetch", "receipt")
Diverged(a) == Ahead(a) /\ Behind(a) /\ Sees(a, "fetch", "idle")

\* A fast-forward or nothing; its answer may be lost though it landed.
Push(a) ==
  /\ ~Behind(a)
  /\ Turns(a, "push", [handoff[a] EXCEPT !.at = "pushed"])
  /\ origin' = [origin EXCEPT ![handoff[a].on] = Tip]
  /\ UNCHANGED desk
PushLost(a) == Sees(a, "push", "pushed")

\* Fetched again: is anything of HEAD not there?  A push that reported a
\* failure ends the handoff wherever it is.
Counted(a) == ~Ahead(a) /\ Sees(a, "pushed", "receipt")

\* Every file of the claims is read once more.
Ready(a) ==
  ChangedIn(handoff[a].mine) = {} /\ Sees(a, "receipt", "idle")

\* NOT READY: a command failed, files still differ, or sessions.sync failed.
NotReady(a) ==
  \E step \in {"look", "fetch", "pushed", "receipt"} : Sees(a, step, "idle")

HandoffStep(a) ==
  \/ Begin(a) \/ Look(a) \/ CommitOnly(a) \/ NoCommit(a) \/ Verify(a)
  \/ NotCommitted(a) \/ FastForward(a) \/ UpToDate(a) \/ Diverged(a)
  \/ Push(a) \/ PushLost(a) \/ Counted(a) \/ Ready(a) \/ NotReady(a)

HandoffNext == Beside \/ \E a \in Agent : HandoffStep(a)

HandoffSpec == HandoffInit /\ [][HandoffNext]_handoffVars
-----------------------------------------------------------------------------
HandoffTypes ==
  /\ Len(docOf) <= MaxPieces /\ \A n \in Pieces : docOf[n] \in Doc
  /\ desk \in Desk /\ origin \in [Line -> SUBSET Piece]
  /\ holder \in [Doc -> Agent \cup {Outsider}]
  /\ handoff \in [Agent ->
       [at : {"idle", "look", "commit", "verify", "fetch", "push", "pushed",
              "receipt"},
        on : Line, mine : SUBSET Doc, docs : SUBSET Doc, before : SUBSET Piece,
        due : SUBSET Piece, switched : BOOLEAN]]

\* READY is the truth: unless the shared checkout was switched to another
\* branch meanwhile, everything that was changed in the claims when the handoff
\* began, and every commit of its branch, is on the remote branch, however
\* claims, files and the remote moved and whichever answers were lost
\* (project.py:409, "every record this session changed ... is committed and on
\* its upstream").  And until then it has committed no file that was outside
\* its claims when it began, whoever changed or staged it (project.py:381, "a
\* file outside them is never committed, whoever changed it"), and taken no
\* commit of another machine off the remote (project.py:411).
ReadyIsTrue ==
  [][\A a \in Agent :
       /\ Ready(a) /\ ~handoff[a].switched =>
            handoff[a].due \subseteq origin[handoff[a].on]
       /\ CommitOnly(a) =>
            \A n \in desk'.line[desk.on] \ Tip : docOf[n] \in handoff[a].mine
       /\ Push(a) => origin[handoff[a].on] \subseteq origin'[handoff[a].on]
    ]_handoffVars
=============================================================================
