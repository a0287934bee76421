-------------------------------- MODULE Holds --------------------------------
(***************************************************************************)
(* The holds ledger of the chief of staff (holds_state.py): seats append   *)
(* events to one log, and what is held is derived from it.  An append is   *)
(* one write and so one step; a release is checked against the log first,  *)
(* and other seats append in between.                                      *)
(*                                                                         *)
(* A hold is its id; its window, purpose and calendar change nothing here, *)
(* nor does its expiry, which only the queries look at.                    *)
(***************************************************************************)
EXTENDS Naturals, Sequences

CONSTANTS
  Seat,      \* sessions that record events
  Hold,      \* ids
  Date,      \* the days of a recurring hold
  NoDate,    \* a release without --instance
  MaxEvents  \* bound on the log

ASSUME HoldsAssumption == NoDate \notin Date /\ MaxEvents \in Nat

VARIABLES
  log,      \* holds/events.jsonl
  checked   \* checked[s]: the release s has checked and not yet appended

holdsVars == <<log, checked>>

\* place says by a flag or by its kind that the hold is recurring, and amend
\* can change the kind.
PlaceEvent(h, flag, kind) ==
  [event |-> "place", id |-> h, flag |-> flag, kind |-> kind]
AmendEvent(h, kind) == [event |-> "amend", id |-> h, kind |-> kind]
\* The line does not tell whether --series was given, nor how long the log was
\* when the release was checked: those two are for the properties.
ReleaseEvent(h, date, series) ==
  [event |-> "release", id |-> h, date |-> date, series |-> series,
   seen |-> Len(log)]
Releases ==
  [event : {"release"}, id : Hold, date : Date \cup {NoDate},
   series : BOOLEAN, seen : 0..MaxEvents]
Event ==
  Releases \cup [event : {"amend"}, id : Hold, kind : BOOLEAN]
    \cup [event : {"place"}, id : Hold, flag : BOOLEAN, kind : BOOLEAN]

HoldsInit == log = <<>> /\ checked = [s \in Seat |-> {}]
-----------------------------------------------------------------------------
(* derive: the log is read from its start, and says of each hold that it is *)
(* unknown, held, released, or an orphan: released and never placed.        *)

Unknown == [state |-> "unknown", flag |-> FALSE, kind |-> FALSE, days |-> {}]

FreeAll(h) == IF h.state = "orphan" THEN h ELSE [h EXCEPT !.state = "released"]

\* Mutant: a released instance releases the series.
FreeSeries(h, date) ==
  IF h.state = "orphan" THEN [h EXCEPT !.state = "unreadable"] ELSE FreeAll(h)

\* An orphan has no list of released instances, and the attempt to add one to
\* it ends the command with a KeyError.
FreeDay(h, date) ==
  IF h.state = "orphan" THEN [h EXCEPT !.state = "unreadable"]
  ELSE [h EXCEPT !.days = @ \cup {date}]

Applied(h, e) ==
  IF h.state = "unreadable" THEN h
  ELSE CASE e.event = "place" ->
              [state |-> "held", flag |-> e.flag, kind |-> e.kind, days |-> {}]
         [] e.event = "amend" ->
              IF h.state = "unknown" THEN h ELSE [h EXCEPT !.kind = e.kind]
         [] e.event = "release" ->
              IF h.state = "unknown" THEN [h EXCEPT !.state = "orphan"]
              ELSE IF e.date = NoDate THEN FreeAll(h) ELSE FreeDay(h, e.date)

Derived(h, events) ==
  LET after[n \in 0..Len(events)] ==
        IF n = 0 THEN Unknown
        ELSE IF events[n].id = h THEN Applied(after[n - 1], events[n])
        ELSE after[n - 1]
  IN after[Len(events)]

HoldIn(n) == [h \in Hold |-> Derived(h, SubSeq(log, 1, n))]
Now == [h \in Hold |-> Derived(h, log)]
Readable == \A h \in Hold : Now[h].state # "unreadable"
Live(h) == h.state = "held"
Recurring(h) == h.flag \/ h.kind
-----------------------------------------------------------------------------
(* record                                                                  *)

Append1(e) == Len(log) < MaxEvents /\ log' = Append(log, e)

RecordPlace(h, flag, kind) ==
  Append1(PlaceEvent(h, flag, kind)) /\ UNCHANGED checked
RecordAmend(h, kind) == Append1(AmendEvent(h, kind)) /\ UNCHANGED checked

\* _release_problem has nothing against it.
MayRelease(h, date, series) ==
  /\ date = NoDate \/ ~series
  /\ Live(Now[h]) =>
       IF Recurring(Now[h]) THEN date # NoDate \/ series ELSE date = NoDate

CheckRelease(s, h, date, series) ==
  /\ checked[s] = {}
  /\ Readable /\ MayRelease(h, date, series)
  /\ checked' = [checked EXCEPT ![s] = {ReleaseEvent(h, date, series)}]
  /\ UNCHANGED log

RecordRelease(s) ==
  /\ \E e \in checked[s] : Append1(e)
  /\ checked' = [checked EXCEPT ![s] = {}]

HoldsNext ==
  \E h \in Hold :
    \/ \E kind \in BOOLEAN : \/ RecordAmend(h, kind)
                             \/ \E flag \in BOOLEAN : RecordPlace(h, flag, kind)
    \/ \E s \in Seat : \/ RecordRelease(s)
                       \/ \E date \in Date \cup {NoDate}, series \in BOOLEAN :
                            CheckRelease(s, h, date, series)

HoldsSpec == HoldsInit /\ [][HoldsNext]_holdsVars
-----------------------------------------------------------------------------
HoldsTypes ==
  /\ log \in Seq(Event) /\ Len(log) <= MaxEvents
  /\ \A s \in Seat : checked[s] = {} \/ \E e \in Releases : checked[s] = {e}

Says(n, h, event) == log[n].event = event /\ log[n].id = h
Lasts(n, h) == Says(n, h, "place") /\ \A m \in (n + 1)..Len(log) :
                 ~Says(m, h, "place")
Frees(m, h, date) == Says(m, h, "release") /\ log[m].date = date

\* What a readable log says of a hold is what its events mean, wherever a
\* release landed among those of other seats: it is held from its last place
\* to the first release of all of it after that, and a day of it is free once
\* an instance of that day was released after that place.
ReplayIsTrue ==
  Readable => \A h \in Hold :
    /\ Live(Now[h]) <=>
         \E n \in DOMAIN log :
           Lasts(n, h) /\ \A m \in n..Len(log) : ~Frees(m, h, NoDate)
    /\ \A n \in DOMAIN log, date \in Date : Lasts(n, h) =>
         (date \in Now[h].days <=> \E m \in n..Len(log) : Frees(m, h, date))

\* A live recurring hold is released in whole only by a seat that said so, or
\* whose check found it not live, or not recurring yet (holds_state.py:29-33,
\* "releasing one day's instance marked the whole series released").
SeriesOnPurpose ==
  \A n \in DOMAIN log :
    LET h == log[n].id
        before == HoldIn(n - 1)[h]
        found == HoldIn(log[n].seen)[h]
    IN /\ log[n].event = "release" /\ log[n].date = NoDate
       /\ Live(before) /\ Recurring(before)
       => log[n].series \/ ~Live(found) \/ ~Recurring(found)

\* The next command can read what the commands appended, unless a day was
\* released of what had been released before and never placed: one such release
\* is kept for the doctor (holds_state.py:171), a second is not.
ReadableLog ==
  Readable <=>
    ~\E h \in Hold, m \in DOMAIN log :
       /\ Says(m, h, "release") /\ log[m].date # NoDate
       /\ \E n \in 1..(m - 1) : Says(n, h, "release")
       /\ \A n \in 1..(m - 1) : ~Says(n, h, "place")

\* The three of them: what the ledger says is what its events mean.
HoldsKept == ReplayIsTrue /\ SeriesOnPurpose /\ ReadableLog
=============================================================================
