---------------------------- MODULE ProjectIndex ----------------------------
(***************************************************************************)
(* `synthesis index set` (checkout.py, index_set): one field of the shared *)
(* projects/index.yaml is set in HEAD, by a commit of its own made through *)
(* a temporary git index, and then in the working file, which is replaced  *)
(* if nobody changed it meanwhile.  Each git command and each access to    *)
(* the file is a step; other sessions edit, stage and commit the same file *)
(* and commit other files in between.                                      *)
(*                                                                         *)
(* Every edit writes a value of its own, so that a value tells whose it    *)
(* is.  The snapshot index_set starts with changes no file and is left     *)
(* out, and so are the refusals of _edit, which come before any change.    *)
(***************************************************************************)
EXTENDS Naturals

CONSTANTS
  Setter,    \* runs of `index set`
  Field,     \* the fields of the file, of every project in it
  Rest,      \* the other files of the repository, as one key
  MaxValue   \* bound on the values written

ASSUME IndexAssumption == Rest \notin Field /\ MaxValue \in Nat

VARIABLES
  head,        \* head[k]: what HEAD holds of the field k, or of the rest
  index,       \* index[f]: the working file
  staged,      \* staged[f]: the file in the real git index
  fresh,       \* the last value written
  was,         \* was[k]: the values HEAD has held of k
  setter       \* setter[p]: the run p

indexVars == <<head, index, staged, fresh, was, setter>>

Value == 0..MaxValue
File == [Field -> Value]
InHead == [f \in Field |-> head[f]]
Tree(file, rest) ==
  [k \in Field \cup {Rest} |-> IF k = Rest THEN rest ELSE file[k]]
Empty == [f \in Field |-> 0]

Fresh == fresh < MaxValue /\ fresh' = fresh + 1

\* A run that knows nothing.
Ended == [at |-> "end", field |-> Rest, want |-> 0, before |-> Empty,
          shown |-> Empty, old |-> Empty, along |-> FALSE, rest |-> 0,
          late |-> {}]

IndexInit ==
  /\ head = Tree(Empty, 0)
  /\ index = Empty /\ staged = Empty
  /\ fresh = 0
  /\ was = [k \in DOMAIN head |-> {0}]
  /\ setter = [p \in Setter |-> [Ended EXCEPT !.at = "start"]]
-----------------------------------------------------------------------------
(* The other sessions                                                      *)

\* Which fields of the file changed after the run r has compared it.
SeesLate(r) ==
  IF r.at # "replace" THEN r
  ELSE [r EXCEPT !.late = @ \cup {f \in Field : index'[f] # index[f]}]

EditIndex(f) ==
  /\ Fresh
  /\ index' = [index EXCEPT ![f] = fresh']
  /\ setter' = [p \in Setter |-> SeesLate(setter[p])]
  /\ UNCHANGED <<head, staged, was>>

StageIndex ==
  /\ staged # index
  /\ staged' = index
  /\ UNCHANGED <<head, index, fresh, was, setter>>

CommitTo(new) ==
  /\ new # head
  /\ head' = new
  /\ was' = [k \in DOMAIN was |-> was[k] \cup {new[k]}]

CommitStaged ==
  /\ CommitTo(Tree(staged, head[Rest]))
  /\ UNCHANGED <<index, staged, fresh, setter>>

CommitRest ==
  /\ Fresh
  /\ CommitTo([head EXCEPT ![Rest] = fresh'])
  /\ UNCHANGED <<index, staged, setter>>

-----------------------------------------------------------------------------
(* index_set, one step for each thing it asks of git or of the file        *)

At(p, step) == setter[p].at = step

\* A step that only reads: p notes what it saw and goes on to the next.
Note(p, next, noted) ==
  /\ setter' = [setter EXCEPT ![p] = [noted EXCEPT !.at = next]]
  /\ UNCHANGED <<head, index, staged, fresh, was>>

\* The command ends, and keeps nothing of what it read.
Stop(p) == Note(p, "end", Ended)

SetIndex(p, f) ==
  /\ At(p, "start")
  /\ Fresh
  /\ setter' = [setter EXCEPT ![p] =
       [@ EXCEPT !.at = "read", !.field = f, !.want = fresh']]
  /\ UNCHANGED <<head, index, staged, was>>

\* Another session holds a claim on the file.
AskThemFirst(p) == At(p, "start") /\ Stop(p)

ReadIndex(p) ==
  At(p, "read") /\ Note(p, "show", [setter[p] EXCEPT !.before = index])

ShowHead(p) ==
  At(p, "show") /\ Note(p, "blob", [setter[p] EXCEPT !.shown = InHead])

\* rev-parse HEAD:rel, then ls-files -s: does the real index hold HEAD's file?
HeadBlob(p) ==
  At(p, "blob") /\ Note(p, "staged", [setter[p] EXCEPT !.old = InHead])

StagedBlob(p) ==
  /\ At(p, "staged")
  /\ Note(p, "tree", [setter[p] EXCEPT !.along = (staged = setter[p].old)])

\* read-tree HEAD into the temporary index.
ReadTree(p) ==
  At(p, "tree") /\ Note(p, "commit", [setter[p] EXCEPT !.rest = head[Rest]])

Edited(p, file) == [file EXCEPT ![setter[p].field] = setter[p].want]

\* Mutant: the commit takes what the real index holds.
FromStaged(p) == Tree(Edited(p, staged), setter[p].rest)

\* The tree of the temporary index: HEAD's, with the file as shown and edited.
Committed(p) == Tree(Edited(p, setter[p].shown), setter[p].rest)

CommitField(p) ==
  /\ At(p, "commit")
  /\ CommitTo(Committed(p))
  /\ setter' = [setter EXCEPT ![p].at =
                 IF setter[p].along THEN "along" ELSE "compare"]
  /\ UNCHANGED <<index, staged, fresh>>

\* A hook refuses the commit.
CommitRefused(p) == At(p, "commit") /\ Stop(p)

MoveAlong(p) ==
  /\ At(p, "along")
  /\ staged' = Edited(p, setter[p].shown)
  /\ setter' = [setter EXCEPT ![p].at = "compare"]
  /\ UNCHANGED <<head, index, fresh, was>>

Unchanged(p) ==
  /\ At(p, "compare") /\ index = setter[p].before
  /\ Note(p, "replace", setter[p])

ChangedMeanwhile(p) ==
  /\ At(p, "compare") /\ index # setter[p].before
  /\ Stop(p)

Replace(p) ==
  /\ At(p, "replace")
  /\ index' = Edited(p, setter[p].before)
  /\ setter' = [o \in Setter |->
                  IF o = p THEN Ended ELSE SeesLate(setter[o])]
  /\ UNCHANGED <<head, staged, fresh, was>>

SetterStep(p) ==
  \/ \E f \in Field : SetIndex(p, f)
  \/ AskThemFirst(p) \/ ReadIndex(p) \/ ShowHead(p) \/ HeadBlob(p)
  \/ StagedBlob(p) \/ ReadTree(p) \/ CommitField(p) \/ CommitRefused(p)
  \/ MoveAlong(p) \/ Unchanged(p) \/ ChangedMeanwhile(p) \/ Replace(p)

IndexNext ==
  \/ \E f \in Field : EditIndex(f)
  \/ StageIndex \/ CommitStaged \/ CommitRest
  \/ \E p \in Setter : SetterStep(p)

IndexSpec == IndexInit /\ [][IndexNext]_indexVars
-----------------------------------------------------------------------------
IndexTypes ==
  /\ head \in [Field \cup {Rest} -> Value]
  /\ index \in File /\ staged \in File
  /\ fresh \in Value
  /\ was \in [Field \cup {Rest} -> SUBSET Value]
  /\ setter \in [Setter ->
       [at : {"start", "read", "show", "blob", "staged", "tree", "commit",
              "along", "compare", "replace", "end"},
        field : Field \cup {Rest}, want : Value, before : File, shown : File,
        old : File, along : BOOLEAN, rest : Value, late : SUBSET Field]]

\* Whatever others edit, stage and commit meanwhile, index set never commits
\* an edit of theirs: apart from its own field, its commit holds nothing that
\* HEAD did not hold before (checkout.py:171, "never committed under this
\* change").  And an edit of the working file is lost only if it was made
\* between the last comparison and the replacement (checkout.py:208-213).
OthersEditsKept ==
  [][\A p \in Setter :
       /\ CommitField(p) =>
            \A k \in DOMAIN head \ {setter[p].field} : head'[k] \in was[k]
       /\ Replace(p) =>
            \A f \in Field \ {setter[p].field} :
              index'[f] # index[f] => f \in setter[p].late]_indexVars
=============================================================================
