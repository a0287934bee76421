----------------------------- MODULE BoardMove -----------------------------
(***************************************************************************)
(* The move of the board out of state/ (install.py, move_board and _merge),*)
(* which every install and the first hook that finds something there run,  *)
(* without a lock, while releases before it still write to state/ and newer*)
(* ones to board/.  A free name is renamed; a session's file in both places*)
(* is merged; a log is appended to the other; then the old file goes to the*)
(* archive.  A process can be killed between any two of these steps.       *)
(*                                                                         *)
(* A file is a bag of items: the claims of a session, or lines of a log.   *)
(* Each item is written once, to one place or the other; that a session's  *)
(* file is itself read, changed and written back is modelled in Board.     *)
(***************************************************************************)
EXTENDS Naturals, FiniteSets

CONSTANTS
  Mover,     \* processes that move the board
  NoFile,    \* the absence of a file
  MaxItems   \* bound on the items written

ASSUME MoveAssumption ==
  MaxItems \in Nat /\ NoFile \notin [1..MaxItems -> 0..2]

VARIABLES
  written,   \* the items so far are 1..written
  old,       \* old[f]: state/f
  new,       \* new[f]: board/f
  move,      \* move[p]: the merge that p is at and what it has read
  late,      \* items put where a running merge had already looked
  twice      \* files a killed merge, or two at once, may have merged twice

moveVars == <<written, old, new, move, late, twice>>

Name == {"session", "log"}
Item == 1..MaxItems
\* How often a file has an item: two stands for any more.
Copies == [Item -> 0..2]
Sum(m, n) == IF m + n > 2 THEN 2 ELSE m + n
File == Copies \cup {NoFile}

Blank == [i \in Item |-> 0]
In(file) == IF file = NoFile THEN Blank ELSE file
Items(file) == {i \in Item : In(file)[i] > 0}
NoMove == [at |-> "idle", name |-> "log", old |-> Blank, new |-> Blank]

MoveInit ==
  /\ written = 0
  /\ old = [f \in Name |-> NoFile] /\ new = [f \in Name |-> NoFile]
  /\ move = [p \in Mover |-> NoMove]
  /\ late = {} /\ twice = {}
-----------------------------------------------------------------------------
Merging(f, steps) ==
  \E p \in Mover : move[p].name = f /\ move[p].at \in steps

WriteItem(f, place) ==
  /\ written < MaxItems /\ written' = written + 1
  /\ place' = [place EXCEPT ![f] = [In(@) EXCEPT ![written'] = 1]]
  /\ UNCHANGED <<move, twice>>

\* A process of an older release; the merge has read the file already.
WriteOld(f) ==
  /\ WriteItem(f, old) /\ UNCHANGED new
  /\ late' = IF Merging(f, {"write", "archive"}) THEN late \cup {written'}
             ELSE late

\* A process of this one; the merge found no file here, or has read it.
WriteNew(f) ==
  /\ WriteItem(f, new) /\ UNCHANGED old
  /\ LET missed == IF f = "session" THEN {"rename", "write"} ELSE {"rename"}
     IN late' = IF Merging(f, missed) THEN late \cup {written'} ELSE late
-----------------------------------------------------------------------------
Moves(p, step, r) ==
  /\ move[p].at = step /\ move' = [move EXCEPT ![p] = r]
  /\ UNCHANGED <<written>>

To(p, step) == [move[p] EXCEPT !.at = step]

BeginMove(p, f) ==
  /\ old[f] # NoFile
  /\ Moves(p, "idle", [NoMove EXCEPT !.at = "test", !.name = f])
  /\ twice' = IF Merging(f, {"test", "rename", "write", "archive"})
              THEN twice \cup {f} ELSE twice
  /\ UNCHANGED <<old, new, late>>

FreeName(p) ==
  /\ new[move[p].name] = NoFile
  /\ Moves(p, "test", To(p, "rename"))
  /\ UNCHANGED <<old, new, late, twice>>

\* The rename puts the old file there, whatever is there by now; it fails if
\* another merge has taken the old one.
Rename(p) ==
  LET f == move[p].name
  IN /\ Moves(p, "rename", NoMove)
     /\ IF old[f] = NoFile THEN UNCHANGED <<old, new, late>>
        ELSE /\ new' = [new EXCEPT ![f] = old[f]]
             /\ old' = [old EXCEPT ![f] = NoFile]
             /\ late' = late \cup Items(new[f])
     /\ UNCHANGED twice

ReadBoth(p) ==
  LET f == move[p].name
  IN /\ new[f] # NoFile
     /\ Moves(p, "test", [move[p] EXCEPT !.at = "write", !.old = In(old[f]),
               !.new = IF f = "session" THEN new[f] ELSE Blank])
     /\ UNCHANGED <<old, new, late, twice>>

\* Mutant: the newer copy's claims are taken, not those of both.
NewerOnly(p) == IF move[p].new = Blank THEN move[p].old ELSE move[p].new

\* The claims of both copies.
Union(p) ==
  [i \in Item |-> IF move[p].old[i] + move[p].new[i] > 0 THEN 1 ELSE 0]

WriteMerged(p) ==
  LET f == move[p].name
  IN /\ Moves(p, "write", [move[p] EXCEPT !.at = "archive", !.old = Blank,
                                          !.new = Blank])
     /\ new' = [new EXCEPT ![f] =
                  IF f = "session" THEN Union(p)
                  ELSE [i \in Item |-> Sum(In(@)[i], move[p].old[i])]]
     /\ UNCHANGED <<old, late, twice>>

ToArchive(p) ==
  /\ Moves(p, "archive", NoMove)
  /\ old' = [old EXCEPT ![move[p].name] = NoFile]
  /\ UNCHANGED <<new, late, twice>>

MoveDies(p) ==
  /\ move[p].at # "idle" /\ Moves(p, move[p].at, NoMove)
  /\ twice' = IF move[p].at = "archive" THEN twice \cup {move[p].name}
              ELSE twice
  /\ UNCHANGED <<old, new, late>>

MoveNext ==
  \/ \E f \in Name : WriteOld(f) \/ WriteNew(f)
  \/ \E p \in Mover :
       \/ \E f \in Name : BeginMove(p, f)
       \/ FreeName(p) \/ Rename(p) \/ ReadBoth(p) \/ WriteMerged(p)
       \/ ToArchive(p) \/ MoveDies(p)

MoveSpec == MoveInit /\ [][MoveNext]_moveVars
-----------------------------------------------------------------------------
MoveTypes ==
  /\ written \in 0..MaxItems
  /\ \A f \in Name : old[f] \in File /\ new[f] \in File
  /\ \A p \in Mover :
       /\ move[p].at \in {"idle", "test", "rename", "write", "archive"}
       /\ move[p].name \in Name
       /\ move[p].old \in Copies /\ move[p].new \in Copies
  /\ late \subseteq Item /\ twice \subseteq Name

\* No claim and no line goes off the board while releases of both kinds write
\* and several processes move it and are killed, unless it was written where a
\* running merge had just looked, or where one had found no file
\* (install.py:162, "a session in both places keeps both copies' claims; a log's
\* lines are appended").
ItemsKept ==
  \A i \in 1..written \ late :
    \E f \in Name : i \in Items(old[f]) \cup Items(new[f])

\* A log line is on the board once, unless two merges of the log met or one was
\* killed between the append and the archive.
LinesOnce ==
  "log" \notin twice =>
    \A i \in Items(new["log"]) : new["log"][i] = 1

\* Both: nothing on the board is lost in the move, and no line doubled.
BoardKept == ItemsKept /\ LinesOnce
=============================================================================
