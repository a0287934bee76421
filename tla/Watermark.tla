------------------------------ MODULE Watermark ------------------------------
(***************************************************************************)
(* The watermarks of the daily rituals (sync_watermark.py): up to which    *)
(* moment a surface and each of its targets was read.  Every command loads *)
(* the whole store, changes it and writes it back, under no lock; sessions *)
(* of one workspace do so at once, and can be killed in between.           *)
(*                                                                         *)
(* One surface and its targets, with moments as numbers: the mark m says   *)
(* that everything up to m was read, and 0 that nothing was.  Sessions     *)
(* pass to `advance` what they read, except that for a local message store *)
(* they pass the end of the window, as long as its reader's coverage says  *)
(* how far it came.                                                        *)
(***************************************************************************)
EXTENDS Naturals, FiniteSets, FiniteSetsExt

CONSTANTS
  Ritual,   \* sessions of the workspace
  Target,   \* the declared targets of the surface
  Local,    \* those of them that are local message stores
  Surface,  \* the surface itself, as the key of its own mark
  MaxAge,   \* DEFERRAL_MAX_AGE
  MaxClock, \* bound on the clock
  MaxLoads  \* bound on the commands that load the store to change it

ASSUME WatermarkAssumption ==
  /\ Surface \notin Target /\ Local \subseteq Target
  /\ MaxAge \in Nat /\ MaxClock \in Nat \ {0} /\ MaxLoads \in Nat

VARIABLES
  clock,    \* the clock
  store,    \* the file: the run, the marks and the deferrals
  command,  \* command[p]: what p does, with the copy it loaded
  loads,    \* how often the store was loaded to change it
  reads,    \* reads[k]: the moments of k that someone read
  begun,    \* when a run was last begun
  deferred, \* deferred[k]: when k was last deferred
  highest,  \* highest[k]: the highest mark of k that was ever written
  lost,     \* marks that a copy loaded before they moved has put back
  undone    \* such a copy has put back the run

history == <<begun, deferred, highest, lost, undone>>
markVars == <<clock, store, command, loads, reads, history>>

Moment == 0..MaxClock
Mark == Target \cup {Surface}
Store == [run : Moment, through : [Mark -> Moment], deferral : [Mark -> Moment]]
None0 == [k \in Mark |-> 0]
NoMarks == [run |-> 0, through |-> None0, deferral |-> None0]
NoCommand == [does |-> "nothing", keys |-> {}, at |-> 0, reach |-> 0,
              copy |-> NoMarks]

MarkInit ==
  /\ clock = 1
  /\ store = NoMarks
  /\ command = [p \in Ritual |-> NoCommand] /\ loads = 0
  /\ reads = [k \in Mark |-> {}]
  /\ begun = 0 /\ deferred = None0 /\ highest = None0 /\ lost = {}
  /\ undone = FALSE

MarkTick ==
  /\ clock < MaxClock /\ clock' = clock + 1
  /\ UNCHANGED <<store, command, loads, reads, history>>
-----------------------------------------------------------------------------
\* window: a target that was never read alone starts at the surface's mark.
Oldest(k) ==
  IF store.through[k] = 0 THEN store.through[Surface] ELSE store.through[k]

\* A session reads the windows of some targets, or of the whole surface, up to
\* now or as far as it comes; coverage with a gap has no `through`, and what
\* it did not read after the gap does not count.
ReadUpTo(p, keys, reach) ==
  /\ command[p] = NoCommand
  /\ keys \cap Local # {} => Cardinality(keys) = 1
  /\ \A k \in keys : reach > Oldest(k)
  /\ command' = [command EXCEPT ![p] = [NoCommand EXCEPT
       !.does = "read", !.keys = keys, !.at = clock, !.reach = reach]]
  /\ reads' = [k \in Mark |-> IF k \notin keys THEN reads[k]
                             ELSE reads[k] \cup (Oldest(k) + 1)..reach]
  /\ UNCHANGED <<clock, store, loads, history>>
-----------------------------------------------------------------------------
(* begin, advance and defer: the time is taken, the store is loaded ...    *)

Load(p, r) ==
  /\ loads < MaxLoads /\ loads' = loads + 1
  /\ command' = [command EXCEPT ![p] = [r EXCEPT !.copy = store]]
  /\ UNCHANGED <<clock, store, reads, history>>

LoadBegin(p) ==
  /\ command[p] = NoCommand
  /\ Load(p, [NoCommand EXCEPT !.does = "begin", !.at = clock])

LoadDefer(p, k) ==
  /\ command[p] = NoCommand
  /\ Load(p, [NoCommand EXCEPT !.does = "defer", !.keys = {k}, !.at = clock])

\* Mutant: the end of the window is taken, whatever the reader reached.
WindowsEnd(r) == r.at

\* The mark a session asks for: a local store moves no further than its reader
\* read.
Reach(r) == IF r.keys \cap Local = {} THEN r.reach ELSE Min({r.at, r.reach})

LoadAdvance(p) ==
  LET r == command[p]
  IN /\ r.does = "read"
     /\ Load(p, [r EXCEPT !.does = "advance", !.reach = Reach(r)])

\* The marks that others moved since p loaded the store.
Stale(p) == {k \in Mark : command[p].copy.through[k] # store.through[k]}

\* ... and written back with the change, whatever it holds by then.
Save(p, does, changed) ==
  /\ command[p].does = does
  /\ store' = changed
  /\ command' = [command EXCEPT ![p] = NoCommand]
  /\ highest' = [k \in Mark |-> Max({highest[k], changed.through[k]})]
  /\ lost' = {k \in lost \cup Stale(p) : changed.through[k] < highest[k]}
  /\ undone' = /\ undone \/ command[p].copy.run # store.run
               /\ changed.run < begun
  /\ UNCHANGED <<clock, loads, reads>>

SaveBegin(p) ==
  /\ Save(p, "begin", [command[p].copy EXCEPT !.run = command[p].at])
  /\ begun' = Max({begun, command[p].at})
  /\ UNCHANGED deferred

PutMarks(marks, keys, m) == [k \in Mark |-> IF k \in keys THEN m ELSE marks[k]]

SaveDefer(p) ==
  LET c == command[p]
  IN /\ Save(p, "defer",
             [c.copy EXCEPT !.deferral = PutMarks(@, c.keys, c.at)])
     /\ deferred' = [k \in Mark |-> IF k \in c.keys THEN Max({deferred[k], c.at})
                                    ELSE deferred[k]]
     /\ UNCHANGED begun

\* Mutant: a session that read less than others puts the mark back.
AnyMark(c) ==
  [c.copy EXCEPT !.through = PutMarks(@, c.keys, c.reach),
                 !.deferral = PutMarks(@, c.keys, 0)]

\* A mark never goes back from what the copy holds, and one that moves spends
\* the deferral of its key.
Advanced(c) ==
  LET moves == {k \in c.keys : c.reach >= c.copy.through[k]}
  IN [c.copy EXCEPT !.through = PutMarks(@, moves, c.reach),
                     !.deferral = PutMarks(@, moves, 0)]

SaveAdvance(p) ==
  /\ Save(p, "advance", Advanced(command[p]))
  /\ UNCHANGED <<begun, deferred>>

\* Killed, or interrupted, with nothing written.
RitualDies(p) ==
  /\ command[p] # NoCommand
  /\ command' = [command EXCEPT ![p] = NoCommand]
  /\ UNCHANGED <<clock, store, loads, reads, history>>

MarkNext ==
  \/ MarkTick
  \/ \E p \in Ritual :
       \/ LoadBegin(p) \/ LoadAdvance(p)
       \/ \E k \in Mark : LoadDefer(p, k)
       \/ \E reach \in 1..clock, keys \in ((SUBSET Target) \ {{}}) \cup {{Surface}} :
            ReadUpTo(p, keys, reach)
       \/ SaveBegin(p) \/ SaveAdvance(p) \/ SaveDefer(p) \/ RitualDies(p)

MarkSpec == MarkInit /\ [][MarkNext]_markVars
-----------------------------------------------------------------------------
(* status --since run, with every target declared                          *)

Current(k) == store.through[k] > 0 /\ store.through[k] >= store.run
LiveDeferral(k) ==
  /\ store.deferral[k] > 0 /\ store.deferral[k] >= store.run
  /\ clock - store.deferral[k] <= MaxAge
NothingBlocks ==
  /\ store.run > 0
  /\ \/ LiveDeferral(Surface) /\ ~Current(Surface)
     \/ \A t \in Target : Current(t) \/ LiveDeferral(t)
-----------------------------------------------------------------------------
Command ==
  [does : {"nothing", "read", "begin", "defer", "advance"}, keys : SUBSET Mark,
   at : Moment, reach : Moment, copy : Store]

MarkTypes ==
  /\ clock \in Moment /\ store \in Store
  /\ command \in [Ritual -> Command]
  /\ loads \in Nat
  /\ reads \in [Mark -> SUBSET Moment]
  /\ begun \in Moment /\ deferred \in [Mark -> Moment]
  /\ highest \in [Mark -> Moment] /\ lost \subseteq Mark /\ undone \in BOOLEAN

\* Everything up to a mark was read, for a target by itself or with its
\* surface, whatever copies were written over which: no window leaves a hole
\* (sync_watermark.py:46-48, where messages were never read).
NoHole ==
  \A k \in Mark : 1..store.through[k] \subseteq reads[k] \cup reads[Surface]

\* A mark stands where it was last moved to, whoever of two read further and
\* whichever of them writes last: it is behind only while a command that had
\* loaded the store before another moved it has put it back
\* (sync_watermark.py:18, "a watermark advances only after a successful write,
\* never backwards", with what its load and save allow).
MarksStand == \A k \in Mark \ lost : store.through[k] = highest[k]

\* Put off, or read up to some moment since m, alone or with the surface.
ReadOrPutOff(t, m) ==
  \/ \E read \in reads[t] \cup reads[Surface] : read >= m
  \/ deferred[t] >= m \/ deferred[Surface] >= m

\* When status says that nothing blocks, every declared target was read up to
\* some moment, or put off, since the run that the store names, and that is the
\* run begun last unless a copy loaded before it has put it back
\* (sync_watermark.py:15-17, "blocks on every declared surface or target this
\* run did not re-read").
RunVouched ==
  NothingBlocks =>
    \A t \in Target : /\ ReadOrPutOff(t, store.run)
                      /\ undone \/ ReadOrPutOff(t, begun)

MarksKept == NoHole /\ MarksStand /\ RunVouched

\* No command puts a mark back (sync_watermark.py:18-19, and :207, "never
\* backwards").
NeverBackwards ==
  [][\A k \in Mark : store'.through[k] >= store.through[k]]_markVars
=============================================================================
