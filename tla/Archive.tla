------------------------------ MODULE Archive ------------------------------
(***************************************************************************)
(* The export of one session's transcript (sessions.py): under a lock, what*)
(* the harness's own file gained since the last export is appended to      *)
(* transcript segments, each record under the next number, and then the    *)
(* state file says how far the file was read.  A harness appends to its    *)
(* file and sometimes rewrites it; an export can be killed anywhere, in    *)
(* the middle of a line too.                                               *)
(*                                                                         *)
(* A row of the native file is an event of its own and gives one record.   *)
(* Some rows are long, so that a segment can be full for one and not for   *)
(* the next.                                                               *)
(***************************************************************************)
EXTENDS Naturals, Sequences, FiniteSets, Functions

CONSTANTS
  Exporter,     \* processes that export
  Nobody,       \* no process
  Long,         \* the rows that take two units, not one
  Segment,      \* SEGMENT_BYTES, in these units
  MaxRows,      \* bound on the rows a harness writes
  MaxRewrites,  \* bound on how often it rewrites its file
  MaxSegments   \* bound on the segments, and so on exports killed midway

ASSUME ArchiveAssumption ==
  /\ Nobody \notin Exporter /\ Segment \in Nat \ {0, 1}
  /\ MaxRows \in Nat /\ MaxRewrites \in Nat /\ MaxSegments \in Nat \ {0}

VARIABLES
  native,     \* the harness's file
  rows,       \* how many rows it ever wrote
  rewrites,   \* how often it rewrote the file
  segments,   \* segments[k]: transcript-k.jsonl
  known,      \* the state file: offset, seq, segment
  lock,       \* who holds sessions.lock
  export,     \* export[e]: the export e, its kept lines and where it got to
  again,      \* numbers a killed export used before it was known
  torn,       \* rows whose line a killed export left unfinished, and spoiled
  unseen      \* rows of a rewritten file that had grown past the offset

archiveVars ==
  <<native, rows, rewrites, segments, known, lock, export, again, torn, unseen>>

Row == 1..MaxRows
\* A whole line, half of one, or two run together, which nobody can read.
Whole(n, row) == [kind |-> "record", seq |-> n, row |-> row]
Half(row) == [kind |-> "half", seq |-> 0, row |-> row]
Spoiled(row) == [kind |-> "spoiled", seq |-> 0, row |-> row]
Line == [kind : {"record", "half", "spoiled"}, seq : Nat, row : Row]
Known == [offset : 0..MaxRows, seq : Nat, segment : 1..MaxSegments, from : Nat]
Export == [at : {"idle", "append"}, lines : Seq(Row), seq : Nat,
           segment : 1..MaxSegments, offset : 0..MaxRows, from : Nat]

NoExport == [at |-> "idle", lines |-> <<>>, seq |-> 0, segment |-> 1,
             offset |-> 0, from |-> 0]

ArchiveInit ==
  /\ native = <<>> /\ rows = 0 /\ rewrites = 0
  /\ segments = [k \in 1..MaxSegments |-> <<>>]
  /\ known = [offset |-> 0, seq |-> 0, segment |-> 1, from |-> 0]
  /\ lock = Nobody
  /\ export = [e \in Exporter |-> NoExport]
  /\ again = {} /\ torn = {} /\ unseen = {}
-----------------------------------------------------------------------------
(* The harness                                                             *)

NativeRow(file) ==
  rows < MaxRows /\ rows' = rows + 1 /\ native' = Append(file, rows')

HarnessWrites ==
  /\ NativeRow(native)
  /\ UNCHANGED <<rewrites, segments, known, lock, export, again, torn, unseen>>

\* It keeps a few of the first rows, and goes on with a new one.
HarnessRewrites ==
  /\ rewrites < MaxRewrites /\ rewrites' = rewrites + 1
  /\ \E kept \in 0..(Len(native) - 1) : NativeRow(SubSeq(native, 1, kept))
  /\ UNCHANGED <<segments, known, lock, export, again, torn, unseen>>
-----------------------------------------------------------------------------
(* export_file and flush                                                   *)

Exports(e, step, r) == export[e].at = step /\ export' = [export EXCEPT ![e] = r]

\* Another export holds the lock: this one waits, or reads the archive as it is.
LockFree(e) == lock = Nobody

\* A file shorter than what was read of it is read again from the start.
Offset == IF Len(native) < known.offset THEN 0 ELSE known.offset

\* What is new is read under the lock; if nothing is, the lock is let go.
ReadNative(e) ==
  LET new == SubSeq(native, Offset + 1, Len(native))
  IN /\ LockFree(e) /\ new # <<>>
     /\ lock' = e
     /\ Exports(e, "idle", [at |-> "append", lines |-> new, seq |-> known.seq,
                 segment |-> known.segment, offset |-> Len(native),
                 from |-> rewrites])
     /\ unseen' = IF known.from = rewrites \/ Len(native) < known.offset
                  THEN unseen
                  ELSE unseen \cup {native[n] : n \in 1..known.offset}
     /\ UNCHANGED <<native, rows, rewrites, segments, known, again, torn>>

Size(row) == IF row \in Long THEN 2 ELSE 1
SizeOf(file) == FoldFunction(LAMBDA line, n : n + Size(line.row), 0, file)
Fits(row, file) == file = <<>> \/ SizeOf(file) + Size(row) <= Segment

\* A line after an unfinished one makes one line of the two.
Put(file, line) ==
  IF file # <<>> /\ file[Len(file)].kind = "half"
  THEN Append(file, [line EXCEPT !.kind = "spoiled", !.seq = 0])
  ELSE Append(file, line)

AppendLine(e) ==
  LET k == export[e].segment
      row == Head(export[e].lines)
      line == Whole(export[e].seq, row)
  IN /\ export[e].at = "append" /\ export[e].lines # <<>>
     /\ Fits(row, segments[k])
     /\ segments' = [segments EXCEPT ![k] = Put(@, line)]
     /\ torn' = IF segments'[k][Len(segments'[k])] = line THEN torn
                ELSE torn \cup {row}
     /\ Exports(e, "append",
                [export[e] EXCEPT !.lines = Tail(@), !.seq = @ + 1])
     /\ UNCHANGED <<native, rows, rewrites, known, lock, again, unseen>>

NextSegment(e) ==
  /\ export[e].at = "append" /\ export[e].lines # <<>>
  /\ ~Fits(Head(export[e].lines), segments[export[e].segment])
  /\ export[e].segment < MaxSegments
  /\ Exports(e, "append", [export[e] EXCEPT !.segment = @ + 1])
  /\ UNCHANGED <<native, rows, rewrites, segments, known, lock, again, torn,
                 unseen>>

\* Mutant: the offset is taken from the file when the state is saved.
ReadToTheEnd(e) ==
  [offset |-> Len(native), seq |-> export[e].seq,
   segment |-> export[e].segment, from |-> export[e].from]

ReadSoFar(e) ==
  [offset |-> export[e].offset, seq |-> export[e].seq,
   segment |-> export[e].segment, from |-> export[e].from]

SaveState(e) ==
  /\ export[e].lines = <<>>
  /\ known' = ReadSoFar(e)
  /\ lock' = Nobody
  /\ Exports(e, "append", NoExport)
  /\ UNCHANGED <<native, rows, rewrites, segments, again, torn, unseen>>

\* Killed: the lock goes with the process, and what it wrote stays, perhaps with
\* half a line at the end.
Die(e) ==
  /\ export[e].at # "idle"
  /\ Exports(e, export[e].at, NoExport)
  /\ lock' = Nobody
  /\ again' = again \cup
       [seq : known.seq..(export[e].seq - 1), from : {export[e].from}]
  /\ \/ UNCHANGED segments
     \/ /\ export[e].lines # <<>>
        /\ Fits(Head(export[e].lines), segments[export[e].segment])
        /\ segments' = [segments EXCEPT ![export[e].segment] =
                          Put(@, Half(Head(export[e].lines)))]
  /\ UNCHANGED <<native, rows, rewrites, known, torn, unseen>>

ArchiveNext ==
  \/ HarnessWrites \/ HarnessRewrites
  \/ \E e \in Exporter :
       \/ ReadNative(e) \/ AppendLine(e) \/ NextSegment(e)
       \/ SaveState(e) \/ Die(e)

ArchiveSpec == ArchiveInit /\ [][ArchiveNext]_archiveVars
-----------------------------------------------------------------------------
Lines == UNION {{<<k, n>> : n \in DOMAIN segments[k]} : k \in DOMAIN segments}
At(p) == segments[p[1]][p[2]]
Records == {p \in Lines : At(p).kind = "record"}

ArchiveTypes ==
  /\ native \in Seq(Row) /\ rows \in 0..MaxRows /\ rewrites \in 0..MaxRewrites
  /\ segments \in [1..MaxSegments -> Seq(Line)]
  /\ known \in Known /\ lock \in Exporter \cup {Nobody}
  /\ export \in [Exporter -> Export]
  /\ \A e \in Exporter : export[e].at # "idle" => lock = e
  /\ again \subseteq [seq : Nat, from : Nat]
  /\ torn \subseteq Row /\ unseen \subseteq Row

\* What the state says was read is in the archive, each row in a readable
\* record, whoever was killed where; the exceptions are a row whose line ran
\* into one a killed export left unfinished, and the rows of a file that was
\* rewritten and grew past the offset before anyone looked (sessions.py:3-9).
EveryRowKept ==
  known.from = rewrites =>
    \A n \in 1..known.offset :
      \/ \E p \in Records : At(p).row = native[n]
      \/ native[n] \in torn \cup unseen

\* A record is appended once, and a citation's number names one record, unless
\* an export was killed before the state knew of it; and then the number still
\* names one content, unless the file was rewritten before the next export, or
\* had been before and then grew past the offset (sessions.py:501, "append the
\* same records twice"; :588, "the record a citation names").
AppendedOnce ==
  \A p, q \in Records : p # q /\ At(p).seq = At(q).seq =>
    \E a \in again :
      /\ a.seq = At(p).seq
      /\ \/ At(p).row = At(q).row \/ a.from < rewrites
         \/ {At(p).row, At(q).row} \cap unseen # {}

\* Both: nothing the state counts as read is missing, nothing is there twice.
ArchiveKept == EveryRowKept /\ AppendedOnce
=============================================================================
