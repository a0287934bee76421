------------------------------- MODULE Sends -------------------------------
(***************************************************************************)
(* The send window (synthesis/sends.py) and the guards that use it.        *)
(*                                                                         *)
(* The principal opens a window for a number of planned sends; while it is *)
(* open, a signed send it covers goes out without an approval of its own,  *)
(* is written to the day's ledger, and closes the window if it was the     *)
(* last.  The window is one file, the ledger one file per day, and the     *)
(* hooks of every session read and write them without a lock.              *)
(*                                                                         *)
(* now counts hours; seq orders what happens within them, so that no two   *)
(* stamps of time.time() are equal.  A scope stands for a channel, a       *)
(* project and a signature, so a window for "all" channels or any project  *)
(* has many, and an unsigned message goes to a scope that no window has.   *)
(***************************************************************************)
EXTENDS Naturals, FiniteSets

CONSTANTS
  Session,   \* sessions, each making one guarded call at a time
  Scope,     \* where a call can post
  Reaches,   \* the sets of scopes one call posts to
  None,      \* no window
  MaxSends,  \* MAX_SENDS
  MaxHours,  \* MAX_HOURS
  Day,       \* hours in a day
  Alone,     \* TRUE: no two calls are under way at once
  MaxNow,    \* bound on the clock
  MaxCalls,  \* bound on the calls
  MaxOpens   \* bound on the windows opened

ASSUME SendsAssumption ==
  /\ IsFiniteSet(Session)
  /\ Reaches \subseteq (SUBSET Scope) \ {{}}
  /\ MaxSends \in Nat \ {0}
  /\ MaxHours \in Nat \ {0}
  /\ Day \in Nat \ {0}
  /\ MaxHours <= Day
  /\ Alone \in BOOLEAN
  /\ MaxNow \in Nat /\ MaxCalls \in Nat /\ MaxOpens \in Nat

VARIABLES
  now,      \* the hour
  seq,      \* the instants stamped so far
  file,     \* sends/window.json, or None
  opening,  \* the window a command is about to write, or None
  opens,    \* windows opened; names the next one
  granted,  \* those windows, as the principal remembers them
  ledger,   \* the lines of sends/<day>.jsonl, for every day
  calls,    \* calls begun; names the next one
  pc,       \* pc[s]: the next step of the call of s
  call,     \* call[s]: that call
  left,     \* left[s]: the scopes it has yet to check or to log
  seen,     \* seen[s]: the window it read last
  stamp,    \* stamp[s]: the time of the line it is about to append
  passed    \* the calls let through

windowVars == <<file, opening, opens, granted>>
callVars == <<pc, call, left, seen, stamp>>
vars == <<now, seq, windowVars, ledger, calls, callVars, passed>>

Window == [id : 1..MaxOpens, opened : Nat, day : Nat, until : Nat,
           scopes : SUBSET Scope, sends : 1..MaxSends]
Line == [at : Nat, day : Nat, by : {"window", "approval"},
         call : 1..MaxCalls, scope : Scope, win : 0..MaxOpens]
NoCall == [id |-> 0, reach |-> {}, began |-> 0,
           by |-> "nobody", win |-> 0, plan |-> 0]

DayOf(hour) == hour \div Day
Today == DayOf(now)

Init ==
  /\ now = 0 /\ seq = 0
  /\ file = None /\ opening = None /\ opens = 0 /\ granted = {}
  /\ ledger = {}
  /\ calls = 0
  /\ pc = [s \in Session |-> "idle"]
  /\ call = [s \in Session |-> NoCall]
  /\ left = [s \in Session |-> {}]
  /\ seen = [s \in Session |-> None]
  /\ stamp = [s \in Session |-> 0]
  /\ passed = {}
-----------------------------------------------------------------------------
(* window, spent and covered                                               *)

\* window: the file, unless its time has run out.
OpenWindow == IF file = None THEN None
              ELSE IF file.until > now THEN file ELSE None

\* Mutant: only today's lines are counted.
SpentToday(w) == Cardinality({l \in ledger : /\ l.by = "window"
                                             /\ l.day = Today
                                             /\ l.at >= w.opened})

\* spent: the lines of the day it opened and of today that count against w.
Spent(w) == Cardinality({l \in ledger : /\ l.by = "window"
                                        /\ l.day \in {w.day, Today}
                                        /\ l.at >= w.opened})
-----------------------------------------------------------------------------
(* The principal: `synthesis sends open` and `close`                       *)

NewWindow(scopes, sends, hours) ==
  [id |-> opens + 1, opened |-> seq + 1, day |-> Today,
   until |-> now + hours, scopes |-> scopes, sends |-> sends]

\* open_window stamps the window, ...
Open(scopes, sends, hours) ==
  /\ opens < MaxOpens
  /\ opening = None
  /\ scopes # {}
  /\ seq' = seq + 1
  /\ opens' = opens + 1
  /\ opening' = NewWindow(scopes, sends, hours)
  /\ granted' = granted \cup {opening'}
  /\ UNCHANGED <<now, file, ledger, calls, callVars, passed>>

\* ... then replaces the file.
WriteWindow ==
  /\ opening # None
  /\ file' = opening
  /\ opening' = None
  /\ UNCHANGED <<now, seq, opens, granted, ledger, calls, callVars, passed>>

Close ==
  /\ file # None
  /\ file' = None
  /\ UNCHANGED <<now, seq, opening, opens, granted, ledger, calls, callVars,
                 passed>>

\* An hour passes.  A hook lives for seconds: it sees one hour strike at most.
Tick ==
  /\ now < MaxNow
  /\ \A s \in Session : pc[s] # "idle" => call[s].began = now
  /\ now' = now + 1
  /\ UNCHANGED <<seq, windowVars, ledger, calls, callVars, passed>>
-----------------------------------------------------------------------------
(* A guarded call: check_send, check_desktop and check_outgoing            *)

Idle(s) ==
  /\ pc' = [pc EXCEPT ![s] = "idle"]
  /\ call' = [call EXCEPT ![s] = NoCall]
  /\ left' = [left EXCEPT ![s] = {}]
  /\ seen' = [seen EXCEPT ![s] = None]
  /\ stamp' = [stamp EXCEPT ![s] = 0]

GoTo(s, step) == pc' = [pc EXCEPT ![s] = step]

Begin(s, reach) ==
  /\ pc[s] = "idle"
  /\ calls < MaxCalls
  /\ Alone => \A r \in Session : pc[r] = "idle"
  /\ calls' = calls + 1
  /\ call' = [call EXCEPT ![s] = [NoCall EXCEPT !.id = calls + 1,
                                                 !.reach = reach,
                                                 !.began = now]]
  /\ left' = [left EXCEPT ![s] = reach]
  /\ GoTo(s, "window")
  /\ UNCHANGED <<now, seq, windowVars, ledger, seen, stamp, passed>>

\* covered, once for each scope: reads the window, ...
ReadWindow(s) ==
  /\ pc[s] = "window"
  /\ seen' = [seen EXCEPT ![s] = OpenWindow]
  /\ GoTo(s, IF OpenWindow = None THEN "ask" ELSE "count")
  /\ UNCHANGED <<now, seq, windowVars, ledger, calls, call, left, stamp, passed>>

\* Mutant: a window for one channel covers them all.
CoversAny(s, scope) == Spent(seen[s]) < seen[s].sends

Covers(s, scope) ==
  Spent(seen[s]) < seen[s].sends /\ scope \in seen[s].scopes

\* ... counts what it has let through, and covers this scope ...
Covered(s, scope) ==
  /\ pc[s] = "count"
  /\ scope \in left[s]
  /\ Covers(s, scope)
  /\ IF left[s] = {scope}
     THEN /\ call' = [call EXCEPT ![s] =
                        [@ EXCEPT !.by = "window", !.win = seen[s].id,
                                  !.plan = seen[s].sends]]
          /\ left' = [left EXCEPT ![s] = call[s].reach]
          /\ GoTo(s, "stamp")
     ELSE /\ left' = [left EXCEPT ![s] = @ \ {scope}]
          /\ GoTo(s, "window")
          /\ UNCHANGED call
  /\ UNCHANGED <<now, seq, windowVars, ledger, calls, seen, stamp, passed>>

\* ... or not.
NotCovered(s) ==
  /\ pc[s] = "count"
  /\ \E scope \in left[s] : ~Covers(s, scope)
  /\ GoTo(s, "ask")
  /\ UNCHANGED <<now, seq, windowVars, ledger, calls, call, left, seen, stamp,
                 passed>>

\* approvals.consume spends an approval of this exact call ...
Approved(s) ==
  /\ pc[s] = "ask"
  /\ call' = [call EXCEPT ![s] = [@ EXCEPT !.by = "approval"]]
  /\ left' = [left EXCEPT ![s] = call[s].reach]
  /\ GoTo(s, "stamp")
  /\ UNCHANGED <<now, seq, windowVars, ledger, calls, seen, stamp, passed>>

\* ... or the call is refused until there is one.
Refused(s) ==
  /\ pc[s] = "ask"
  /\ Idle(s)
  /\ UNCHANGED <<now, seq, windowVars, ledger, calls, passed>>

\* log: the time is taken, then the line appended to the file of the day.
Stamp(s) ==
  /\ pc[s] = "stamp"
  /\ seq' = seq + 1
  /\ stamp' = [stamp EXCEPT ![s] = seq + 1]
  /\ GoTo(s, "append")
  /\ UNCHANGED <<now, windowVars, ledger, calls, call, left, seen, passed>>

LetThrough(s) ==
  passed' = passed \cup {[id |-> call[s].id, reach |-> call[s].reach,
                          by |-> call[s].by, win |-> call[s].win,
                          plan |-> call[s].plan]}

\* Mutant: a send under the window is logged as an approved one.
MislabelledLine(s, scope) ==
  [at |-> stamp[s], day |-> Today, by |-> "approval",
   call |-> call[s].id, scope |-> scope, win |-> call[s].win]

NewLine(s, scope) ==
  [at |-> stamp[s], day |-> Today, by |-> call[s].by,
   call |-> call[s].id, scope |-> scope, win |-> call[s].win]

MoreToLog(s, scope) == left[s] # {scope}

AppendLine(s, scope) ==
  /\ pc[s] = "append"
  /\ scope \in left[s]
  /\ ledger' = ledger \cup {NewLine(s, scope)}
  /\ IF MoreToLog(s, scope)
     THEN /\ left' = [left EXCEPT ![s] = @ \ {scope}]
          /\ GoTo(s, "stamp")
          /\ UNCHANGED <<call, seen, stamp, passed>>
     ELSE IF call[s].by = "window"
     THEN /\ left' = [left EXCEPT ![s] = {}]
          /\ GoTo(s, "settle")
          /\ UNCHANGED <<call, seen, stamp, passed>>
     ELSE LetThrough(s) /\ Idle(s)
  /\ UNCHANGED <<now, seq, windowVars, calls>>

\* settle: reads the window again, ...
Settle(s) ==
  /\ pc[s] = "settle"
  /\ OpenWindow # None
  /\ seen' = [seen EXCEPT ![s] = OpenWindow]
  /\ GoTo(s, "tally")
  /\ UNCHANGED <<now, seq, windowVars, ledger, calls, call, left, stamp, passed>>

NothingOpen(s) ==
  /\ pc[s] = "settle"
  /\ OpenWindow = None
  /\ LetThrough(s) /\ Idle(s)
  /\ UNCHANGED <<now, seq, windowVars, ledger, calls>>

\* Mutant: a call that steps past the plan does not meet it exactly.
MeetsPlan(w) == Spent(w) = w.sends

SpentAll(w) == Spent(w) >= w.sends

\* ... counts again, ...
Tally(s) ==
  /\ pc[s] = "tally"
  /\ IF SpentAll(seen[s])
     THEN GoTo(s, "unlink") /\ UNCHANGED <<call, left, seen, stamp, passed>>
     ELSE LetThrough(s) /\ Idle(s)
  /\ UNCHANGED <<now, seq, windowVars, ledger, calls>>

\* ... and after the last planned send removes whatever file is there.
Unlink(s) ==
  /\ pc[s] = "unlink"
  /\ file' = None
  /\ LetThrough(s) /\ Idle(s)
  /\ UNCHANGED <<now, seq, opening, opens, granted, ledger, calls>>

\* The harness kills a hook after its timeout, and the call is not made.
Kill(s) ==
  /\ pc[s] # "idle"
  /\ Idle(s)
  /\ UNCHANGED <<now, seq, windowVars, ledger, calls, passed>>

Step(s) ==
  \/ ReadWindow(s) \/ NotCovered(s) \/ Approved(s) \/ Refused(s) \/ Stamp(s)
  \/ \E scope \in Scope : Covered(s, scope) \/ AppendLine(s, scope)
  \/ Settle(s) \/ NothingOpen(s) \/ Tally(s) \/ Unlink(s)

Calls ==
  \/ WriteWindow \/ Close
  \/ \E scopes \in SUBSET Scope, sends \in 1..MaxSends, hours \in 1..MaxHours :
       Open(scopes, sends, hours)
  \/ \E s \in Session, reach \in Reaches : Begin(s, reach)
  \/ \E s \in Session : Step(s)

Next == Calls \/ Tick \/ \E s \in Session : Kill(s)

Spec == Init /\ [][Next]_vars

\* Within one hour, a hook that is not killed runs to its end.
LiveSpec ==
  Init /\ [][Calls]_vars /\ \A s \in Session : WF_vars(Step(s))
-----------------------------------------------------------------------------
Steps == {"idle", "window", "count", "ask", "stamp", "append", "settle",
          "tally", "unlink"}

TypeOK ==
  /\ now \in 0..MaxNow /\ seq \in Nat
  /\ file \in Window \cup {None} /\ opening \in Window \cup {None}
  /\ opens \in 0..MaxOpens /\ calls \in 0..MaxCalls
  /\ granted \subseteq Window
  /\ ledger \subseteq Line
  /\ pc \in [Session -> Steps]
  /\ call \in [Session -> [id : 0..MaxCalls, reach : SUBSET Scope,
                           began : 0..MaxNow,
                           by : {"nobody", "window", "approval"},
                           win : 0..MaxOpens, plan : 0..MaxSends]]
  /\ left \in [Session -> SUBSET Scope]
  /\ seen \in [Session -> Window \cup {None}]
  /\ stamp \in [Session -> Nat]

\* How many calls the window that let p through let through.
Beside(p) == Cardinality({q \in passed : q.by = "window" /\ q.win = p.win})

\* A window lets through no more calls than it was opened for, and not even
\* midnight starts its count again (sends.py:19, 303-306).
PlannedSends == \A p \in passed : p.by = "window" => Beside(p) <= p.plan

\* When calls overlap, each of them may have counted before the others were
\* logged: every other session can slip one call past the plan, never two.
OvershootBounded ==
  \A p \in passed : p.by = "window" =>
    Beside(p) <= p.plan + Cardinality(Session) - 1

\* What went out is in the ledger, under every channel it went to and for the
\* reason it passed (sends.py:338, "One line per send the guard let through").
Accounted ==
  \A p \in passed : \A scope \in p.reach :
    \E l \in ledger : l.call = p.id /\ l.scope = scope /\ l.by = p.by

\* No call removes a window that still has planned sends left: only the last
\* one, `close` and time end it (sends.py:309-313, 330).
ClosedByItsLast ==
  [][\A s \in Session : pc[s] = "unlink" /\ pc'[s] = "idle" /\ file # file' =>
       Cardinality({l \in ledger : l.by = "window" /\ l.win = file.id})
         >= file.sends]_vars

\* A window whose planned sends have gone out does not stay open: the call
\* that logs the last one removes it.
SpentCloses ==
  \A i \in 1..MaxOpens :
    (OpenWindow # None /\ OpenWindow.id = i /\ Spent(OpenWindow) >= OpenWindow.sends)
      ~> (OpenWindow = None \/ OpenWindow.id # i)

\* Sessions that can be past the count when another is covered.
Slack == IF Alone THEN 0 ELSE Cardinality(Session) - 1

Promise == INSTANCE SendPromise WITH book <- ledger, out <- passed

\* Nothing goes out under a window but what the principal granted: each scope
\* of the call is one of a window that was open while the call was checked,
\* even if windows open, close and replace each other between the checks of
\* two scopes, and the one that is counted was not used up, but for calls that
\* overlap (sends.py:316-323, guards.py:1606-1616).
PromiseKept == Promise!Spec
=============================================================================
