----------------------------- MODULE SendsProofs -----------------------------
(***************************************************************************)
(* Theorems about Sends: what went out is in the ledger, and a window lets *)
(* through what it was opened for, or one call more for each other session *)
(* where calls overlap, for any number of sessions, scopes and windows.    *)
(***************************************************************************)
EXTENDS Sends, FiniteSetTheorems, TLAPS

Call == [id : 0..MaxCalls, reach : SUBSET Scope, began : 0..MaxNow,
         by : {"nobody", "window", "approval"}, win : 0..MaxOpens,
         plan : 0..MaxSends]

\* A line for the call c under a scope, for the reason it passes.
Logged(c, scope) ==
  \E l \in ledger : l.call = c.id /\ l.scope = scope /\ l.by = c.by

Reading == {"window", "count", "ask"}
Logging == {"stamp", "append"}
Closing == {"settle", "tally", "unlink"}

\* A call is decided before it is logged, is logged scope by scope, and is let
\* through only then.
CallInv ==
  \A s \in Session :
    /\ pc[s] = "idle" => call[s] = NoCall /\ seen[s] = None
    /\ pc[s] # "idle" => /\ call[s].id \in 1..calls
                         /\ call[s].reach # {}
                         /\ left[s] \subseteq call[s].reach
    /\ pc[s] \in Reading => call[s].by = "nobody"
    /\ pc[s] \in Logging => call[s].by \in {"window", "approval"}
    /\ pc[s] \in Closing => call[s].by = "window"
    /\ pc[s] \in Logging =>
         \A scope \in call[s].reach \ left[s] : Logged(call[s], scope)
    /\ pc[s] \in Closing => \A scope \in call[s].reach : Logged(call[s], scope)

\* A call counts against a window it read, and logs under the one it counted.
SeenInv ==
  \A s \in Session :
    /\ pc[s] \in {"count", "tally"} => seen[s] # None
    /\ pc[s] \in Logging /\ call[s].by = "window" =>
         seen[s] # None /\ seen[s].id = call[s].win

\* No two calls are one, and each that passed is logged.
IdInv ==
  /\ IsFiniteSet(passed) /\ IsFiniteSet(ledger)
  /\ passed # {} => Session # {}
  /\ \A p \in passed :
       /\ p.id \in 1..calls /\ p.reach # {} /\ p.plan \in Nat
       /\ p.by \in {"window", "approval"}
       /\ \A scope \in p.reach : Logged(p, scope)
       /\ \A q \in passed : p.id = q.id => p = q
       /\ \A s \in Session : p.id # call[s].id
  /\ \A s, r \in Session :
       s # r /\ pc[s] # "idle" => call[s].id # call[r].id

\* The windows that can still be read or counted against.
Windows == ({file, opening} \cup {seen[s] : s \in Session}) \ {None}

\* The calls let through or about to be, and those of one window.
ByWindow(s) == call[s].by = "window"
Out == {p \in passed : p.by = "window"}
         \cup {call[s] : s \in {r \in Session : ByWindow(r)}}
PassedBy(i) == {p \in passed : p.by = "window" /\ p.win = i}
Passing(i) == {s \in Session : ByWindow(s) /\ call[s].win = i}

\* An id names one window, with one plan.
AgreeInv ==
  /\ \A v, w \in Windows : v.id = w.id => v = w
  /\ \A w \in Windows : w.id <= opens
  /\ \A x \in Out :
       /\ x.win \in 1..opens
       /\ \A y \in Out : x.win = y.win => x.plan = y.plan
       /\ \A w \in Windows : x.win = w.id => x.plan = w.sends

\* A window is open for a day at most, and a call lives for less than an hour
\* after it was open.
TimeInv ==
  /\ \A w \in Windows :
       /\ w.opened <= seq
       /\ \E hour \in 0..now : w.day = DayOf(hour) /\ w.until <= hour + Day
  /\ \A s \in Session :
       /\ pc[s] # "idle" => call[s].began <= now /\ now <= call[s].began + 1
       /\ seen[s] # None => call[s].began < seen[s].until
       /\ pc[s] = "append" /\ ByWindow(s) => seen[s].opened <= stamp[s]

\* So the lines of a window are among those that count against it.
LineInv ==
  \A l \in ledger :
    l.by = "window" =>
      /\ l.win <= opens /\ l.day <= Today
      /\ \A w \in Windows :
           l.win = w.id => w.opened <= l.at /\ l.day \in {w.day, w.day + 1}

AloneInv ==
  Alone => \A s, r \in Session : s = r \/ pc[s] = "idle" \/ pc[r] = "idle"

CountInv ==
  \A x \in Out :
    Cardinality(PassedBy(x.win)) + Cardinality(Passing(x.win))
      <= x.plan + Slack

\* Lines of a call that passed under a window carry that window's id.
NamedInv ==
  /\ \A l \in ledger : l.call <= calls
  /\ \A l \in ledger, p \in passed :
       l.call = p.id => l.by = p.by /\ l.win = p.win
  /\ \A l \in ledger, s \in Session :
       l.call = call[s].id => l.by = call[s].by /\ l.win = call[s].win
-----------------------------------------------------------------------------
(* Who acts                                                                *)

SessionActs(s) ==
  (\E reach \in Reaches : Begin(s, reach)) \/ Step(s) \/ Kill(s)

Waits(s) ==
  /\ pc'[s] = pc[s] /\ call'[s] = call[s] /\ left'[s] = left[s]
  /\ seen'[s] = seen[s] /\ stamp'[s] = stamp[s]

PrincipalActs ==
  \/ WriteWindow \/ Close
  \/ \E scopes \in SUBSET Scope, sends \in 1..MaxSends, hours \in 1..MaxHours :
       Open(scopes, sends, hours)

LEMMA WhoActs ==
  ASSUME [Next]_vars
  PROVE  \/ UNCHANGED vars \/ Tick \/ PrincipalActs
         \/ \E s \in Session : SessionActs(s)
BY DEF Next, Calls, SessionActs, PrincipalActs

\* The sessions that do not act keep what they have; a line, once written, and
\* a call, once made, stay.
LEMMA OthersWait ==
  ASSUME TypeOK, NEW s \in Session, SessionActs(s)
  PROVE  /\ \A r \in Session \ {s} : Waits(r)
         /\ UNCHANGED <<now, opening, opens>> /\ file' \in {file, None}
         /\ calls <= calls' /\ seq <= seq'
         /\ ledger \subseteq ledger' /\ passed \subseteq passed'
<1> USE DEF TypeOK, Waits, windowVars, callVars, GoTo, Idle, LetThrough
<1>1. ASSUME NEW reach \in Reaches, Begin(s, reach)
      PROVE  /\ \A r \in Session \ {s} : Waits(r)
             /\ UNCHANGED <<now, opening, opens>> /\ file' \in {file, None}
             /\ calls <= calls' /\ seq <= seq'
             /\ ledger \subseteq ledger' /\ passed \subseteq passed'
  BY <1>1, SendsAssumption DEF Begin
<1>2. CASE ReadWindow(s) \/ NotCovered(s) \/ Approved(s) \/ Refused(s)
  BY <1>2, SendsAssumption DEF ReadWindow, NotCovered, Approved, Refused
<1>3. CASE Stamp(s) \/ Kill(s)
  BY <1>3, SendsAssumption DEF Stamp, Kill
<1>4. ASSUME NEW scope \in Scope, Covered(s, scope)
      PROVE  /\ \A r \in Session \ {s} : Waits(r)
             /\ UNCHANGED <<now, opening, opens>> /\ file' \in {file, None}
             /\ calls <= calls' /\ seq <= seq'
             /\ ledger \subseteq ledger' /\ passed \subseteq passed'
  BY <1>4, SendsAssumption DEF Covered
<1>5. ASSUME NEW scope \in Scope, AppendLine(s, scope)
      PROVE  /\ \A r \in Session \ {s} : Waits(r)
             /\ UNCHANGED <<now, opening, opens>> /\ file' \in {file, None}
             /\ calls <= calls' /\ seq <= seq'
             /\ ledger \subseteq ledger' /\ passed \subseteq passed'
  BY <1>5, SendsAssumption DEF AppendLine
<1>6. CASE Settle(s) \/ NothingOpen(s)
  BY <1>6, SendsAssumption DEF Settle, NothingOpen
<1>7. CASE Tally(s)
  BY <1>7, SendsAssumption DEF Tally
<1>8. CASE Unlink(s)
  BY <1>8, SendsAssumption DEF Unlink
<1> QED BY <1>1, <1>2, <1>3, <1>4, <1>5, <1>6, <1>7, <1>8
         DEF SessionActs, Step
\* Only the principal grants.
LEMMA GrantsStay ==
  ASSUME NEW s \in Session, SessionActs(s)
  PROVE  granted' = granted
<1>1. ASSUME NEW reach \in Reaches, Begin(s, reach)
      PROVE  granted' = granted
  BY <1>1 DEF Begin, windowVars
<1>2. ASSUME NEW scope \in Scope, Covered(s, scope) \/ AppendLine(s, scope)
      PROVE  granted' = granted
  BY <1>2 DEF Covered, AppendLine, windowVars
<1>3. CASE \/ ReadWindow(s) \/ NotCovered(s) \/ Approved(s) \/ Refused(s)
           \/ Stamp(s) \/ Kill(s)
  BY <1>3 DEF ReadWindow, NotCovered, Approved, Refused, Stamp, Kill, windowVars
<1>4. CASE Settle(s) \/ NothingOpen(s) \/ Tally(s) \/ Unlink(s)
  BY <1>4 DEF Settle, NothingOpen, Tally, Unlink, windowVars
<1> QED BY <1>1, <1>2, <1>3, <1>4 DEF SessionActs, Step

-----------------------------------------------------------------------------
(* Types                                                                   *)

LEMMA WindowFields ==
  ASSUME TypeOK, NEW s \in Session
  PROVE  /\ seen[s] # None => seen[s] \in Window
         /\ call[s] \in Call /\ pc[s] \in Steps /\ left[s] \subseteq Scope
         /\ stamp[s] \in Nat
         /\ OpenWindow \in Window \cup {None}
BY DEF TypeOK, OpenWindow, Call

LEMMA NoCallIsCall == NoCall \in Call
BY SendsAssumption DEF NoCall, Call

\* What a new call is.
LEMMA NewCall ==
  ASSUME TypeOK, NEW reach \in Reaches, calls < MaxCalls
  PROVE  LET c == [NoCall EXCEPT !.id = calls + 1, !.reach = reach,
                                 !.began = now]
         IN /\ c \in Call /\ c.id = calls + 1 /\ c.reach = reach
            /\ c.began = now /\ c.by = "nobody"
<1>1. calls + 1 \in 0..MaxCalls /\ now \in 0..MaxNow
  BY SendsAssumption DEF TypeOK
<1>2. reach \in SUBSET Scope
  BY SendsAssumption
<1>3. NoCall \in Call /\ NoCall.by = "nobody"
  BY NoCallIsCall DEF NoCall
<1> QED BY <1>1, <1>2, <1>3 DEF Call

\* What a call that a window covers becomes.
LEMMA CoveredCall ==
  ASSUME TypeOK, SeenInv, NEW s \in Session, pc[s] = "count"
  PROVE  LET c == [call[s] EXCEPT !.by = "window", !.win = seen[s].id,
                                  !.plan = seen[s].sends]
         IN /\ c \in Call /\ c.id = call[s].id /\ c.reach = call[s].reach
            /\ c.began = call[s].began /\ c.by = "window"
            /\ c.win = seen[s].id /\ c.plan = seen[s].sends
<1>1. seen[s] \in Window /\ call[s] \in Call
  BY WindowFields DEF SeenInv
<1>2. seen[s].id \in 0..MaxOpens /\ seen[s].sends \in 0..MaxSends
  BY <1>1, SendsAssumption DEF Window
<1> QED BY <1>1, <1>2 DEF Call

\* What a call that an approval covers becomes.
LEMMA ApprovedCall ==
  ASSUME TypeOK, NEW s \in Session
  PROVE  LET c == [call[s] EXCEPT !.by = "approval"]
         IN /\ c \in Call /\ c.id = call[s].id /\ c.reach = call[s].reach
            /\ c.began = call[s].began /\ c.by = "approval"
            /\ c.win = call[s].win /\ c.plan = call[s].plan
<1>1. call[s] \in Call
  BY WindowFields
<1> QED BY <1>1 DEF Call

CallTypes ==
  /\ pc \in [Session -> Steps] /\ call \in [Session -> Call]
  /\ left \in [Session -> SUBSET Scope]
  /\ seen \in [Session -> Window \cup {None}] /\ stamp \in [Session -> Nat]

\* Each step of a call keeps the types of what the calls have.
LEMMA CallTypesStep ==
  ASSUME TypeOK, SeenInv, NEW s \in Session, SessionActs(s)
  PROVE  CallTypes'
<1>1. CallTypes
  BY DEF TypeOK, CallTypes, Call
<1>2. seq \in Nat /\ OpenWindow \in Window \cup {None}
  BY WindowFields DEF TypeOK
<1>3. /\ {"idle", "window", "count", "ask"} \subseteq Steps
      /\ {"stamp", "append", "settle", "tally", "unlink"} \subseteq Steps
  BY DEF Steps
<1>4. ASSUME Idle(s)
      PROVE  CallTypes'
  BY <1>1, <1>3, <1>4, NoCallIsCall DEF Idle, CallTypes
<1>5. ASSUME NEW reach \in Reaches, Begin(s, reach)
      PROVE  CallTypes'
  <2>1. call' \in [Session -> Call]
    BY <1>1, <1>5, NewCall DEF Begin, CallTypes
  <2>2. reach \in SUBSET Scope
    BY SendsAssumption
  <2> QED BY <1>1, <1>3, <1>5, <2>1, <2>2 DEF Begin, GoTo, CallTypes
<1>6. CASE Refused(s) \/ Kill(s) \/ NothingOpen(s) \/ Unlink(s)
  BY <1>4, <1>6 DEF Refused, Kill, NothingOpen, Unlink
<1>7. CASE ReadWindow(s)
  BY <1>1, <1>2, <1>3, <1>7 DEF ReadWindow, GoTo, CallTypes
<1>8. CASE NotCovered(s)
  BY <1>1, <1>3, <1>8 DEF NotCovered, GoTo, CallTypes
<1>9. CASE Approved(s)
  <2>1. call' \in [Session -> Call]
    BY <1>1, <1>9, ApprovedCall DEF Approved, CallTypes
  <2>2. call[s].reach \in SUBSET Scope
    BY <1>1 DEF CallTypes, Call
  <2> QED BY <1>1, <1>3, <1>9, <2>1, <2>2 DEF Approved, GoTo, CallTypes
<1>10. CASE Stamp(s)
  BY <1>1, <1>2, <1>3, <1>10 DEF Stamp, GoTo, CallTypes
<1>11. ASSUME NEW scope \in Scope, Covered(s, scope)
       PROVE  CallTypes'
  <2>1. CASE left[s] = {scope}
    <3>1. call' = [call EXCEPT ![s] = [call[s] EXCEPT !.by = "window",
                     !.win = seen[s].id, !.plan = seen[s].sends]]
      BY <1>1, <1>11, <2>1 DEF Covered, CallTypes
    <3>2. call' \in [Session -> Call]
      BY <1>1, <1>11, <3>1, CoveredCall DEF Covered, CallTypes
    <3>3. call[s].reach \in SUBSET Scope
      BY <1>1 DEF CallTypes, Call
    <3> QED BY <1>1, <1>3, <1>11, <2>1, <3>2, <3>3 DEF Covered, GoTo, CallTypes
  <2>2. CASE left[s] # {scope}
    BY <1>1, <1>3, <1>11, <2>2 DEF Covered, GoTo, CallTypes
  <2> QED BY <2>1, <2>2
<1>12. ASSUME NEW scope \in Scope, AppendLine(s, scope)
       PROVE  CallTypes'
  <2>1. CASE Idle(s)
    BY <1>4, <2>1
  <2>2. CASE ~Idle(s)
    BY <1>1, <1>3, <1>12, <2>2 DEF AppendLine, GoTo, CallTypes
  <2> QED BY <2>1, <2>2
<1>13. CASE Settle(s)
  BY <1>1, <1>2, <1>3, <1>13 DEF Settle, GoTo, CallTypes
<1>14. CASE Tally(s)
  <2>1. CASE Idle(s)
    BY <1>4, <2>1
  <2>2. CASE ~Idle(s)
    BY <1>1, <1>3, <1>14, <2>2 DEF Tally, GoTo, CallTypes
  <2> QED BY <2>1, <2>2
<1> QED BY <1>5, <1>6, <1>7, <1>8, <1>9, <1>10, <1>11, <1>12, <1>13, <1>14
        DEF SessionActs, Step

\* A line is one of the call that logs it.
LEMMA LineTyped ==
  ASSUME TypeOK, CallInv, NEW s \in Session, NEW scope \in Scope,
         AppendLine(s, scope)
  PROVE  /\ NewLine(s, scope) \in Line
         /\ ledger' = ledger \cup {NewLine(s, scope)}
         /\ UNCHANGED <<now, calls, seq, opens, opening, file>>
<1>1. call[s] \in Call /\ stamp[s] \in Nat /\ pc[s] = "append"
  BY WindowFields DEF AppendLine
<1>2. /\ call[s].id \in 1..calls /\ call[s].by \in {"window", "approval"}
      /\ call[s].win \in 0..MaxOpens
  BY <1>1 DEF CallInv, Logging, Call
<1>3. call[s].id \in 1..MaxCalls
  BY <1>2, SendsAssumption DEF TypeOK
<1>4. now \in Nat /\ Day \in Nat \ {0}
  BY SendsAssumption DEF TypeOK
<1>5. Today \in Nat
  BY <1>4 DEF Today, DayOf
<1>6. NewLine(s, scope) \in Line
  BY <1>1, <1>2, <1>3, <1>5 DEF NewLine, Line
<1> QED BY <1>6 DEF AppendLine, windowVars

\* What the principal opens is a window.
LEMMA NewWindowFields ==
  ASSUME TypeOK, NEW scopes \in SUBSET Scope, NEW sends \in 1..MaxSends,
         NEW hours \in 1..MaxHours, opens < MaxOpens
  PROVE  LET w == NewWindow(scopes, sends, hours)
         IN /\ w \in Window /\ w.id = opens + 1 /\ w.opened = seq + 1
            /\ w.day = DayOf(now) /\ w.until = now + hours
            /\ w.sends = sends
<1>1. now \in Nat /\ Day \in Nat \ {0} /\ seq \in Nat /\ hours \in Nat
  BY SendsAssumption DEF TypeOK
<1>2. Today \in Nat
  BY <1>1 DEF Today, DayOf
<1>3. opens + 1 \in 1..MaxOpens
  BY SendsAssumption DEF TypeOK
<1> QED BY <1>1, <1>2, <1>3 DEF NewWindow, Window, Today

LEMMA TypesStep == TypeOK /\ SeenInv /\ CallInv /\ [Next]_vars => TypeOK'
<1> SUFFICES ASSUME TypeOK, SeenInv, CallInv, [Next]_vars PROVE TypeOK'
  OBVIOUS
<1>1. CallTypes
  BY DEF TypeOK, CallTypes, Call
<1>2. ASSUME CallTypes', now' \in 0..MaxNow, seq' \in Nat,
             file' \in Window \cup {None}, opening' \in Window \cup {None},
             opens' \in 0..MaxOpens, calls' \in 0..MaxCalls,
             ledger' \subseteq Line, granted' \subseteq Window
      PROVE  TypeOK'
  BY <1>2 DEF TypeOK, CallTypes, Call
<1>3. CASE UNCHANGED vars \/ Tick
  <2>1. CallTypes' /\ now' \in 0..MaxNow
    BY <1>1, <1>3, SendsAssumption
       DEF vars, callVars, Tick, CallTypes, TypeOK
  <2> QED BY <1>2, <1>3, <2>1 DEF vars, callVars, windowVars, Tick, TypeOK
<1>4. CASE WriteWindow \/ Close
  <2>1. CallTypes'
    BY <1>1, <1>4 DEF WriteWindow, Close, callVars, CallTypes
  <2> QED BY <1>2, <1>4, <2>1 DEF WriteWindow, Close, TypeOK
<1>5. ASSUME NEW scopes \in SUBSET Scope, NEW sends \in 1..MaxSends,
             NEW hours \in 1..MaxHours, Open(scopes, sends, hours)
      PROVE  TypeOK'
  <2>1. CallTypes' /\ opens < MaxOpens
    BY <1>1, <1>5 DEF Open, callVars, CallTypes
  <2>2. opening' \in Window
    BY <1>5, <2>1, NewWindowFields DEF Open
  <2>3. seq' \in Nat /\ opens' \in 0..MaxOpens
    BY <1>5, <2>1, SendsAssumption DEF Open, TypeOK
  <2>4. granted' \subseteq Window
    BY <1>5, <2>2 DEF Open, TypeOK
  <2> QED BY <1>2, <1>5, <2>1, <2>2, <2>3, <2>4 DEF Open, TypeOK
<1>6. ASSUME NEW s \in Session, SessionActs(s)
      PROVE  TypeOK'
  <2>1. /\ CallTypes' /\ UNCHANGED <<now, opening, opens, granted>>
        /\ file' \in {file, None}
    BY <1>6, CallTypesStep, OthersWait, GrantsStay
  <2>2. seq' \in Nat /\ calls' \in 0..MaxCalls /\ ledger' \subseteq Line
    <3>1. ASSUME NEW reach \in Reaches, Begin(s, reach)
          PROVE  /\ seq' \in Nat /\ calls' \in 0..MaxCalls
                 /\ ledger' \subseteq Line
      BY <3>1, SendsAssumption DEF Begin, TypeOK
    <3>2. ASSUME NEW scope \in Scope, AppendLine(s, scope)
          PROVE  /\ seq' \in Nat /\ calls' \in 0..MaxCalls
                 /\ ledger' \subseteq Line
      BY <3>2, LineTyped DEF TypeOK
    <3>3. ASSUME NEW scope \in Scope, Covered(s, scope)
          PROVE  /\ seq' \in Nat /\ calls' \in 0..MaxCalls
                 /\ ledger' \subseteq Line
      BY <3>3 DEF Covered, TypeOK
    <3>4. CASE \/ ReadWindow(s) \/ NotCovered(s) \/ Approved(s) \/ Refused(s)
               \/ Stamp(s) \/ Settle(s) \/ NothingOpen(s) \/ Kill(s)
      BY <3>4 DEF ReadWindow, NotCovered, Approved, Refused, Stamp, Settle,
         NothingOpen, Kill, TypeOK
    <3>5. CASE Tally(s) \/ Unlink(s)
      BY <3>5 DEF Tally, Unlink, TypeOK
    <3> QED BY <1>6, <3>1, <3>2, <3>3, <3>4, <3>5 DEF SessionActs, Step
  <2> QED BY <1>2, <2>1, <2>2 DEF TypeOK
<1> QED BY <1>3, <1>4, <1>5, <1>6, WhoActs DEF PrincipalActs
-----------------------------------------------------------------------------
(* A call is logged, scope by scope, before it is let through              *)

\* What CallInv and SeenInv say of one session.
CallIsGood(s) ==
  /\ pc[s] = "idle" => call[s] = NoCall /\ seen[s] = None
  /\ pc[s] # "idle" => /\ call[s].id \in 1..calls
                       /\ call[s].reach # {}
                       /\ left[s] \subseteq call[s].reach
  /\ pc[s] \in Reading => call[s].by = "nobody"
  /\ pc[s] \in Logging => call[s].by \in {"window", "approval"}
  /\ pc[s] \in Closing => call[s].by = "window"
  /\ pc[s] \in Logging =>
       \A scope \in call[s].reach \ left[s] : Logged(call[s], scope)
  /\ pc[s] \in Closing => \A scope \in call[s].reach : Logged(call[s], scope)
  /\ pc[s] \in {"count", "tally"} => seen[s] # None
  /\ pc[s] \in Logging /\ call[s].by = "window" =>
       seen[s] # None /\ seen[s].id = call[s].win

LEMMA EachIsGood == CallInv /\ SeenInv <=> \A s \in Session : CallIsGood(s)
BY DEF CallInv, SeenInv, CallIsGood

\* It stays true of a session that does not act.
LEMMA WaitsGood ==
  ASSUME TypeOK, NEW s \in Session, CallIsGood(s), Waits(s),
         ledger \subseteq ledger', calls' \in Nat, calls <= calls'
  PROVE  CallIsGood(s)'
<1>1. calls \in Nat /\ \A i \in 1..calls : i \in 1..calls'
  BY SendsAssumption DEF TypeOK
<1>2. \A scope : Logged(call[s], scope) => Logged(call[s], scope)'
  BY DEF Logged, Waits
<1> QED BY <1>1, <1>2 DEF CallIsGood, Waits

\* A call that ends leaves nothing behind.
LEMMA IdleGood ==
  ASSUME TypeOK, NEW s \in Session, Idle(s)
  PROVE  /\ pc'[s] = "idle" /\ call'[s] = NoCall /\ seen'[s] = None
         /\ CallIsGood(s)'
<1>1. pc'[s] = "idle" /\ call'[s] = NoCall /\ seen'[s] = None
  BY DEF Idle, TypeOK
<1> QED BY <1>1 DEF CallIsGood, Reading, Logging, Closing

\* What the step that logs one scope logs.
LEMMA AppendLogs ==
  ASSUME TypeOK, NEW s \in Session, CallIsGood(s), NEW scope \in Scope,
         AppendLine(s, scope)
  PROVE  LET l == NewLine(s, scope)
         IN /\ ledger' = ledger \cup {l} /\ l.call = call[s].id
            /\ l.scope = scope /\ l.by = call[s].by /\ l.win = call[s].win
            /\ l.at = stamp[s] /\ l.day = Today
            /\ \A x \in (call[s].reach \ left[s]) \cup {scope} :
                 \E m \in ledger' : /\ m.call = call[s].id /\ m.scope = x
                                    /\ m.by = call[s].by
<1> DEFINE l == NewLine(s, scope)
<1>1. /\ ledger' = ledger \cup {l} /\ l.call = call[s].id
      /\ l.scope = scope /\ l.by = call[s].by /\ l.win = call[s].win
      /\ l.at = stamp[s] /\ l.day = Today /\ pc[s] = "append"
  BY DEF AppendLine, NewLine
<1>2. \A x \in call[s].reach \ left[s] :
        \E m \in ledger : /\ m.call = call[s].id /\ m.scope = x
                          /\ m.by = call[s].by
  BY <1>1 DEF CallIsGood, Logging, Logged
<1> HIDE DEF l
<1>3. \A x \in (call[s].reach \ left[s]) \cup {scope} :
        \E m \in ledger' : /\ m.call = call[s].id /\ m.scope = x
                           /\ m.by = call[s].by
  BY <1>1, <1>2
<1> QED BY <1>1, <1>3 DEF l

LEMMA ActsGood ==
  ASSUME TypeOK, SeenInv, NEW s \in Session, CallIsGood(s), SessionActs(s)
  PROVE  CallIsGood(s)'
<1>1. /\ pc \in [Session -> Steps] /\ call \in [Session -> Call]
      /\ left \in [Session -> SUBSET Scope] /\ DOMAIN seen = Session
      /\ DOMAIN stamp = Session /\ calls \in Nat
  BY SendsAssumption DEF TypeOK, Call
<1> USE DEF Reading, Logging, Closing
<1>2. CASE Idle(s)
  BY <1>2, IdleGood
<1>3. ASSUME NEW reach \in Reaches, Begin(s, reach)
      PROVE  CallIsGood(s)'
  <2>1. reach # {}
    BY SendsAssumption
  <2>2. /\ call'[s].id = calls + 1 /\ call'[s].reach = reach
        /\ call'[s].by = "nobody" /\ left'[s] = reach /\ pc'[s] = "window"
        /\ calls' = calls + 1
    BY <1>1, <1>3, NewCall DEF Begin, GoTo
  <2> QED BY <1>1, <2>1, <2>2 DEF CallIsGood
<1>4. CASE ReadWindow(s)
  <2>1. /\ pc'[s] \in {"ask", "count"} /\ seen'[s] = OpenWindow
        /\ pc'[s] = "count" => OpenWindow # None
        /\ UNCHANGED <<call, left, calls>> /\ pc[s] = "window"
    BY <1>1, <1>4 DEF ReadWindow, GoTo
  <2> QED BY <1>1, <2>1 DEF CallIsGood
<1>5. CASE NotCovered(s)
  <2>1. /\ pc'[s] = "ask" /\ pc[s] = "count"
        /\ UNCHANGED <<call, left, calls, seen>>
    BY <1>1, <1>5 DEF NotCovered, GoTo
  <2> QED BY <1>1, <2>1 DEF CallIsGood
<1>6. CASE Approved(s)
  <2>1. /\ pc[s] = "ask" /\ pc'[s] = "stamp" /\ left'[s] = call[s].reach
        /\ call'[s].id = call[s].id /\ call'[s].reach = call[s].reach
        /\ call'[s].by = "approval" /\ UNCHANGED calls
    BY <1>1, <1>6, ApprovedCall DEF Approved, GoTo
  <2> QED BY <1>1, <2>1 DEF CallIsGood
<1>7. CASE Stamp(s)
  <2>1. /\ pc[s] = "stamp" /\ pc'[s] = "append"
        /\ UNCHANGED <<call, left, calls, seen, ledger>>
    BY <1>1, <1>7 DEF Stamp, GoTo
  <2>2. \A x : Logged(call[s], x) => Logged(call[s], x)'
    BY <2>1 DEF Logged
  <2> QED BY <1>1, <2>1, <2>2 DEF CallIsGood
<1>8. ASSUME NEW scope \in Scope, Covered(s, scope)
      PROVE  CallIsGood(s)'
  <2>1. CASE left[s] = {scope}
    <3>1. call'[s] = [call[s] EXCEPT !.by = "window", !.win = seen[s].id,
                                     !.plan = seen[s].sends]
      BY <1>1, <1>8, <2>1 DEF Covered
    <3>2. /\ pc[s] = "count" /\ pc'[s] = "stamp" /\ left'[s] = call[s].reach
          /\ call'[s].id = call[s].id /\ call'[s].reach = call[s].reach
          /\ call'[s].by = "window" /\ call'[s].win = seen[s].id
          /\ UNCHANGED <<calls, seen>>
      BY ZenonT(30), <1>1, <1>8, <2>1, <3>1, CoveredCall DEF Covered, GoTo
    <3> QED BY <1>1, <3>2 DEF CallIsGood
  <2>2. CASE left[s] # {scope}
    <3>1. /\ pc[s] = "count" /\ pc'[s] = "window" /\ left'[s] \subseteq left[s]
          /\ UNCHANGED <<calls, seen, call>>
      BY <1>1, <1>8, <2>2 DEF Covered, GoTo
    <3> QED BY <1>1, <3>1 DEF CallIsGood
  <2> QED BY <2>1, <2>2
<1>9. ASSUME NEW scope \in Scope, AppendLine(s, scope), ~Idle(s)
      PROVE  CallIsGood(s)'
  <2>1. \A x \in (call[s].reach \ left[s]) \cup {scope} :
          \E m \in ledger' : /\ m.call = call[s].id /\ m.scope = x
                             /\ m.by = call[s].by
    BY <1>9, AppendLogs
  <2>2. /\ UNCHANGED <<calls, seen, call>> /\ pc[s] = "append"
        /\ \/ pc'[s] = "stamp" /\ left'[s] = left[s] \ {scope}
           \/ pc'[s] = "settle" /\ left'[s] = {} /\ left[s] = {scope}
              /\ call[s].by = "window"
    BY <1>1, <1>9 DEF AppendLine, MoreToLog, GoTo
  <2>3. \A x \in (call[s].reach \ left[s]) \cup {scope} : Logged(call[s], x)'
    BY <2>1, <2>2 DEF Logged
  <2> QED BY <1>1, <2>2, <2>3 DEF CallIsGood
<1>10. CASE Settle(s)
  <2>1. /\ pc[s] = "settle" /\ pc'[s] = "tally" /\ seen'[s] # None
        /\ UNCHANGED <<calls, call, left, ledger>>
    BY <1>1, <1>10 DEF Settle, GoTo
  <2>2. \A x : Logged(call[s], x) => Logged(call[s], x)'
    BY <2>1 DEF Logged
  <2> QED BY <1>1, <2>1, <2>2 DEF CallIsGood
<1>11. CASE Tally(s) /\ ~Idle(s)
  <2>1. /\ pc[s] = "tally" /\ pc'[s] = "unlink"
        /\ UNCHANGED <<calls, call, left, ledger, seen>>
    BY <1>1, <1>11 DEF Tally, GoTo
  <2>2. \A x : Logged(call[s], x) => Logged(call[s], x)'
    BY <2>1 DEF Logged
  <2> QED BY <1>1, <2>1, <2>2 DEF CallIsGood
<1>12. CASE Refused(s) \/ Kill(s) \/ NothingOpen(s) \/ Unlink(s)
  BY <1>2, <1>12 DEF Refused, Kill, NothingOpen, Unlink
<1> QED BY <1>2, <1>3, <1>4, <1>5, <1>6, <1>7, <1>8, <1>9, <1>10, <1>11, <1>12
        DEF SessionActs, Step

\* The hour and the principal touch no call and no line.
LEMMA OthersUntouched ==
  ASSUME UNCHANGED vars \/ Tick \/ PrincipalActs
  PROVE  UNCHANGED <<ledger, calls, callVars, passed>>
BY DEF vars, Tick, PrincipalActs, WriteWindow, Close, Open

LEMMA CallStep ==
  TypeOK /\ SeenInv /\ CallInv /\ [Next]_vars => SeenInv' /\ CallInv'
<1> SUFFICES ASSUME TypeOK, SeenInv, CallInv, [Next]_vars
             PROVE  SeenInv' /\ CallInv'
  OBVIOUS
<1>1. \A s \in Session : CallIsGood(s)
  BY EachIsGood
<1>2. TypeOK'
  BY TypesStep
<1>3. calls \in Nat /\ calls' \in Nat
  BY <1>2, SendsAssumption DEF TypeOK
<1>4. \A s \in Session : CallIsGood(s)'
  <2>1. CASE UNCHANGED vars \/ Tick \/ PrincipalActs
    <3>1. UNCHANGED <<ledger, calls, callVars>>
      BY <2>1, OthersUntouched
    <3>2. \A s \in Session : Waits(s)
      BY <3>1 DEF callVars, Waits
    <3> QED BY <1>1, <1>3, <3>1, <3>2, WaitsGood
  <2>2. ASSUME NEW s \in Session, SessionActs(s)
        PROVE  \A r \in Session : CallIsGood(r)'
    <3>1. /\ \A r \in Session \ {s} : Waits(r)
          /\ ledger \subseteq ledger' /\ calls <= calls'
      BY <2>2, OthersWait
    <3>2. CallIsGood(s)'
      BY <1>1, <2>2, ActsGood
    <3>3. \A r \in Session \ {s} : CallIsGood(r)'
      BY <1>1, <1>3, <3>1, WaitsGood
    <3> QED BY <3>2, <3>3
  <2> QED BY <2>1, <2>2, WhoActs
<1>5. SeenInv'
  BY <1>4 DEF SeenInv, CallIsGood
<1>6. CallInv'
  BY <1>4 DEF CallInv, CallIsGood
<1> QED BY <1>5, <1>6
-----------------------------------------------------------------------------
(* Every call has an id of its own, and its lines carry it                 *)

\* What a step makes of the calls that were let through.
LEMMA Passes ==
  ASSUME TypeOK, NEW s \in Session, CallIsGood(s), SessionActs(s)
  PROVE  \/ passed' = passed
         \/ /\ Idle(s) /\ pc[s] \in Closing \cup {"append"}
            /\ \E p : /\ passed' = passed \cup {p}
                      /\ p.id = call[s].id /\ p.reach = call[s].reach
                      /\ p.by = call[s].by /\ p.win = call[s].win
                      /\ p.plan = call[s].plan
                      /\ \A x \in p.reach : Logged(p, x)'
<1> DEFINE p == [id |-> call[s].id, reach |-> call[s].reach, by |-> call[s].by,
                 win |-> call[s].win, plan |-> call[s].plan]
           LoggedNext(x) == \E m \in ledger' : /\ m.call = p.id /\ m.scope = x
                                              /\ m.by = p.by
           Let == /\ Idle(s) /\ pc[s] \in Closing \cup {"append"}
                  /\ passed' = passed \cup {p}
                  /\ \A x \in call[s].reach : LoggedNext(x)
<1>1. p.id = call[s].id /\ p.reach = call[s].reach /\ p.by = call[s].by
      /\ p.win = call[s].win /\ p.plan = call[s].plan
  OBVIOUS
<1>2. LetThrough(s) => passed' = passed \cup {p}
  BY DEF LetThrough
<1> HIDE DEF p
<1>3. Let \/ passed' = passed
  <2>1. ASSUME NEW scope \in Scope, AppendLine(s, scope)
        PROVE  Let \/ passed' = passed
    <3>1. \A x \in (call[s].reach \ left[s]) \cup {scope} :
            \E m \in ledger' : /\ m.call = call[s].id /\ m.scope = x
                               /\ m.by = call[s].by
      BY <2>1, AppendLogs
    <3>2. \/ passed' = passed
          \/ LetThrough(s) /\ Idle(s) /\ left[s] = {scope} /\ pc[s] = "append"
      BY <2>1 DEF AppendLine, MoreToLog
    <3>3. \A x \in (call[s].reach \ left[s]) \cup {scope} : LoggedNext(x)
      BY <1>1, <3>1
    <3> QED BY <1>2, <3>2, <3>3
  <2>2. CASE /\ LetThrough(s) /\ Idle(s) /\ pc[s] \in Closing
             /\ UNCHANGED ledger
    <3>1. \A x \in call[s].reach : Logged(call[s], x)
      BY <2>2 DEF CallIsGood
    <3>2. \A x \in call[s].reach : LoggedNext(x)
      BY <1>1, <2>2, <3>1 DEF Logged
    <3> QED BY <1>2, <2>2, <3>2
  <2>3. CASE NothingOpen(s) \/ Tally(s) \/ Unlink(s)
    BY <2>2, <2>3 DEF NothingOpen, Tally, Unlink, Closing
  <2>4. CASE \/ ReadWindow(s) \/ NotCovered(s) \/ Approved(s) \/ Refused(s)
             \/ Stamp(s) \/ Settle(s) \/ Kill(s)
    BY <2>4 DEF ReadWindow, NotCovered, Approved, Refused, Stamp, Settle, Kill
  <2>5. ASSUME NEW scope \in Scope, Covered(s, scope)
        PROVE  passed' = passed
    BY <2>5 DEF Covered
  <2>6. ASSUME NEW reach \in Reaches, Begin(s, reach)
        PROVE  passed' = passed
    BY <2>6 DEF Begin
  <2> QED BY <2>1, <2>3, <2>4, <2>5, <2>6 DEF SessionActs, Step
<1> QED BY <1>1, <1>3 DEF Logged

\* What it makes of its session's call, and of the ledger.
LEMMA CallGoesOn ==
  ASSUME TypeOK, SeenInv, NEW s \in Session, SessionActs(s)
  PROVE  \/ call'[s] = NoCall
         \/ /\ pc[s] # "idle" /\ call'[s].id = call[s].id
            /\ calls' = calls /\ passed' = passed
            /\ call'[s] = call[s] \/ (pc[s] \in Reading /\ ledger' = ledger)
         \/ /\ pc[s] = "idle" /\ call'[s].id = calls + 1 /\ calls' = calls + 1
            /\ passed' = passed /\ ledger' = ledger
<1> DEFINE
      Stays == /\ pc[s] # "idle" /\ call'[s].id = call[s].id
               /\ calls' = calls /\ passed' = passed
               /\ call'[s] = call[s] \/ (pc[s] \in Reading /\ ledger' = ledger)
      Starts == /\ pc[s] = "idle" /\ call'[s].id = calls + 1
                /\ calls' = calls + 1 /\ passed' = passed /\ ledger' = ledger
      Goal == call'[s] = NoCall \/ Stays \/ Starts
<1> SUFFICES Goal
  OBVIOUS
<1>1. /\ pc \in [Session -> Steps] /\ call \in [Session -> Call]
  BY DEF TypeOK, Call
<1>2. CASE Idle(s)
  BY <1>1, <1>2 DEF Idle
<1>3. ASSUME NEW reach \in Reaches, Begin(s, reach)
      PROVE  Goal
  BY <1>1, <1>3, NewCall DEF Begin
<1>4. CASE \/ ReadWindow(s) \/ NotCovered(s) \/ Stamp(s) \/ Settle(s)
  BY <1>4 DEF ReadWindow, NotCovered, Stamp, Settle
<1>5. CASE Approved(s)
  <2>1. call'[s] = [call[s] EXCEPT !.by = "approval"]
    BY <1>1, <1>5 DEF Approved
  <2> QED BY <1>5, <2>1, ApprovedCall DEF Approved, Reading
<1>6. ASSUME NEW scope \in Scope, Covered(s, scope)
      PROVE  Goal
  <2>1. CASE left[s] = {scope}
    <3>1. call'[s] = [call[s] EXCEPT !.by = "window", !.win = seen[s].id,
                                     !.plan = seen[s].sends]
      BY <1>1, <1>6, <2>1 DEF Covered
    <3> QED BY <1>6, <3>1, CoveredCall DEF Covered, Reading
  <2>2. CASE left[s] # {scope}
    BY <1>6, <2>2 DEF Covered, Reading
  <2> QED BY <2>1, <2>2
<1>7. ASSUME NEW scope \in Scope, AppendLine(s, scope), ~Idle(s)
      PROVE  Goal
  <2>1. pc[s] = "append" /\ UNCHANGED <<call, passed, calls>>
    BY <1>7 DEF AppendLine
  <2> QED BY <2>1
<1>8. CASE Tally(s) /\ ~Idle(s)
  BY <1>8 DEF Tally
<1>9. CASE Refused(s) \/ Kill(s) \/ NothingOpen(s) \/ Unlink(s)
  BY <1>2, <1>9 DEF Refused, Kill, NothingOpen, Unlink
<1> HIDE DEF Goal
<1> QED BY <1>2, <1>3, <1>4, <1>5, <1>6, <1>7, <1>8, <1>9
        DEF SessionActs, Step

\* The ledger grows by a line of the acting session's call at most.
LEMMA LedgerGrows ==
  ASSUME TypeOK, NEW s \in Session, CallIsGood(s), SessionActs(s)
  PROVE  \/ ledger' = ledger
         \/ /\ pc[s] = "append"
            /\ \E scope \in Scope :
                 LET l == NewLine(s, scope)
                 IN /\ ledger' = ledger \cup {l} /\ l.call = call[s].id
                    /\ l.by = call[s].by /\ l.win = call[s].win
                    /\ l.at = stamp[s] /\ l.day = Today
<1>1. ASSUME NEW scope \in Scope, AppendLine(s, scope)
      PROVE  LET l == NewLine(s, scope)
             IN /\ ledger' = ledger \cup {l} /\ l.call = call[s].id
                /\ l.by = call[s].by /\ l.win = call[s].win
                /\ l.at = stamp[s] /\ l.day = Today /\ pc[s] = "append"
  BY <1>1, AppendLogs DEF AppendLine
<1>2. CASE \/ ReadWindow(s) \/ NotCovered(s) \/ Approved(s) \/ Refused(s)
           \/ Stamp(s) \/ Settle(s) \/ Kill(s)
  BY <1>2 DEF ReadWindow, NotCovered, Approved, Refused, Stamp, Settle, Kill
<1>3. CASE NothingOpen(s) \/ Tally(s) \/ Unlink(s)
  BY <1>3 DEF NothingOpen, Tally, Unlink
<1>4. ASSUME NEW scope \in Scope, Covered(s, scope)
      PROVE  ledger' = ledger
  BY <1>4 DEF Covered
<1>5. ASSUME NEW reach \in Reaches, Begin(s, reach)
      PROVE  ledger' = ledger
  BY <1>5 DEF Begin
<1> QED BY <1>1, <1>2, <1>3, <1>4, <1>5 DEF SessionActs, Step

LEMMA IdStep ==
  ASSUME TypeOK, SeenInv, CallInv, IdInv, [Next]_vars
  PROVE  IdInv'
<1>1. \A s \in Session : CallIsGood(s)
  BY EachIsGood
<1>2. calls \in Nat /\ calls' \in Nat /\ NoCall.id = 0
  BY TypesStep, SendsAssumption DEF TypeOK, NoCall
<1>3. CASE UNCHANGED vars \/ Tick \/ PrincipalActs
  <2>1. UNCHANGED <<ledger, calls, callVars, passed>>
    BY <1>3, OthersUntouched
  <2> QED BY <2>1 DEF IdInv, callVars, Logged
<1>4. ASSUME NEW s \in Session, SessionActs(s)
      PROVE  IdInv'
  <2>1. /\ \A r \in Session \ {s} : Waits(r)
        /\ ledger \subseteq ledger' /\ calls <= calls'
    BY <1>4, OthersWait
  <2>2. CallInv' /\ \A r \in Session : CallIsGood(r)'
    <3>1. CallInv' /\ SeenInv'
      BY CallStep
    <3> QED BY <3>1 DEF CallInv, SeenInv, CallIsGood
  <2>3. \A r \in Session :
          /\ pc[r] = "idle" => call[r].id = 0
          /\ pc[r] # "idle" => call[r].id \in 1..calls
    BY <1>1, <1>2 DEF CallIsGood
  <2>4. \/ /\ call'[s].id = call[s].id \/ call'[s] = NoCall
        \/ call'[s].id = calls + 1 /\ passed' = passed
    BY <1>4, CallGoesOn
  <2>5. \A r \in Session : s # r /\ pc'[s] # "idle" => call'[s].id # call'[r].id
    <3>1. ASSUME NEW r \in Session, s # r, pc'[s] # "idle"
          PROVE  call'[s].id # call'[r].id
      <4>1. call'[r] = call[r]
        BY <2>1, <3>1 DEF Waits
      <4>2. call'[s].id \in 1..calls'
        BY <2>2, <3>1 DEF CallIsGood
      <4>3. CASE pc[s] = "idle"
        BY <1>2, <2>3, <2>4, <3>1, <4>1, <4>2, <4>3
      <4>4. CASE pc[s] # "idle"
        BY <1>2, <2>3, <2>4, <3>1, <4>1, <4>2, <4>4 DEF IdInv
      <4> QED BY <4>3, <4>4
    <3> QED BY <3>1
  <2>6. \A q, r \in Session :
          q # r /\ pc'[q] # "idle" => call'[q].id # call'[r].id
    <3>1. ASSUME NEW q \in Session, NEW r \in Session, q # r, pc'[q] # "idle"
          PROVE  call'[q].id # call'[r].id
      <4>1. CASE q = s
        BY <2>5, <3>1, <4>1
      <4>2. CASE q # s /\ r # s
        BY <2>1, <3>1, <4>2 DEF IdInv, Waits
      <4>3. CASE q # s /\ r = s
        <5>1. call'[q].id \in 1..calls /\ call'[q] = call[q] /\ pc[q] # "idle"
          BY <2>1, <2>3, <3>1, <4>3 DEF Waits
        <5> QED BY <1>2, <2>4, <3>1, <4>3, <5>1 DEF IdInv
      <4> QED BY <4>1, <4>2, <4>3
    <3> QED BY <3>1
  <2>7. IsFiniteSet(ledger')
    <3>1. CASE ledger' = ledger
      BY <3>1 DEF IdInv
    <3>2. ASSUME NEW l, ledger' = ledger \cup {l}
          PROVE  IsFiniteSet(ledger')
      BY <3>2, FS_AddElement DEF IdInv
    <3>3. ledger' = ledger \/ \E l : ledger' = ledger \cup {l}
      BY <1>1, <1>4, LedgerGrows
    <3> QED BY <3>1, <3>2, <3>3
  <2>8. CASE passed' = passed
    <3>1. \A p \in passed : \A r \in Session : p.id # call'[r].id
      BY <1>2, <2>1, <2>4, <2>8 DEF IdInv, Waits
    <3>2. \A p \in passed : \A x \in p.reach : Logged(p, x)'
      BY <2>1 DEF IdInv, Logged
    <3>3. \A p \in passed : p.id \in 1..calls'
      BY <1>2, <2>1 DEF IdInv
    <3> QED BY <2>6, <2>7, <2>8, <3>1, <3>2, <3>3 DEF IdInv
  <2>9. ASSUME NEW p, passed' = passed \cup {p}, Idle(s), pc[s] # "idle",
               p.id = call[s].id, p.reach = call[s].reach, p.by = call[s].by,
               p.plan = call[s].plan,
               call[s].by \in {"window", "approval"},
               \A x \in p.reach : Logged(p, x)'
        PROVE  IdInv'
    <3>1. IsFiniteSet(passed')
      BY <2>9, FS_AddElement DEF IdInv
    <3>2. call'[s].id = 0 /\ p.id \in 1..calls /\ p.reach # {}
      BY <1>1, <1>2, <2>9, IdleGood DEF CallIsGood
    <3>3. call[s].plan \in Nat
      BY WindowFields, SendsAssumption DEF Call
    <3>4. \A q \in passed' : /\ q.id \in 1..calls' /\ q.reach # {}
                             /\ q.plan \in Nat
                             /\ q.by \in {"window", "approval"}
      BY <1>2, <2>1, <2>9, <3>2, <3>3 DEF IdInv
    <3>5. \A q \in passed' : \A x \in q.reach : Logged(q, x)'
      BY <2>1, <2>9 DEF IdInv, Logged
    <3>6. \A q \in passed : q.id # p.id
      BY <2>9 DEF IdInv
    <3>7. \A q, r \in passed' : q.id = r.id => q = r
      BY <2>9, <3>6 DEF IdInv
    <3>8. \A q \in passed' : q.id # call'[s].id
      BY <1>2, <3>2, <3>4
    <3>9. \A q \in passed' : \A r \in Session \ {s} : q.id # call'[r].id
      BY <2>1, <2>9 DEF IdInv, Waits
    <3> QED BY <2>6, <2>7, <3>1, <3>4, <3>5, <3>7, <3>8, <3>9 DEF IdInv
  <2>10. pc[s] \in Closing \cup {"append"} =>
           pc[s] # "idle" /\ call[s].by \in {"window", "approval"}
    BY <1>1 DEF CallIsGood, Closing, Logging
  <2> QED BY <1>1, <1>4, <2>8, <2>9, <2>10, Passes
<1> QED BY <1>3, <1>4, WhoActs

\* Lines carry the id, the reason and the window of their call.
LEMMA NamedStep ==
  ASSUME TypeOK, SeenInv, CallInv, IdInv, NamedInv, [Next]_vars
  PROVE  NamedInv'
<1>1. \A s \in Session : CallIsGood(s)
  BY EachIsGood
<1>2. calls \in Nat /\ calls' \in Nat /\ NoCall.id = 0
      /\ ledger \subseteq Line /\ ledger' \subseteq Line
  BY TypesStep, SendsAssumption DEF TypeOK, NoCall
<1>3. CASE UNCHANGED vars \/ Tick \/ PrincipalActs
  <2>1. UNCHANGED <<ledger, calls, callVars, passed>>
    BY <1>3, OthersUntouched
  <2> QED BY <2>1 DEF NamedInv, callVars
<1>4. ASSUME NEW s \in Session, SessionActs(s)
      PROVE  NamedInv'
  <2>1. \A r \in Session \ {s} : call'[r] = call[r]
    BY <1>4, OthersWait DEF Waits
  <2>2. calls <= calls'
    BY <1>4, OthersWait
  <2>3. /\ \A l \in ledger : l.call \in 1..calls
    BY <1>2, SendsAssumption DEF NamedInv, Line
  <2>4. ASSUME NEW l \in ledger', l.call = call'[s].id
        PROVE  l.by = call'[s].by /\ l.win = call'[s].win
    <3>1. call'[s] # NoCall
      BY <1>2, <2>4 DEF Line
    <3>2. CASE /\ pc[s] # "idle" /\ call'[s].id = call[s].id
               /\ pc[s] \in Reading /\ ledger' = ledger
      <4>1. l.by = "nobody"
        BY <1>1, <2>4, <3>2 DEF NamedInv, CallIsGood
      <4> QED BY <1>2, <2>4, <4>1 DEF Line
    <3>3. CASE call'[s] = call[s] /\ pc[s] # "idle"
      <4>1. CASE l \in ledger
        BY <2>4, <3>3, <4>1 DEF NamedInv
      <4>2. CASE l \notin ledger
        BY <1>1, <1>4, <2>4, <3>3, <4>2, LedgerGrows
      <4> QED BY <4>1, <4>2
    <3>4. CASE /\ pc[s] = "idle" /\ call'[s].id = calls + 1 /\ ledger' = ledger
      BY <1>2, <2>3, <2>4, <3>4
    <3> QED BY <1>4, <3>1, <3>2, <3>3, <3>4, CallGoesOn
  <2>5. ASSUME NEW l \in ledger', NEW r \in Session \ {s}, l.call = call'[r].id
        PROVE  l.by = call'[r].by /\ l.win = call'[r].win
    <3>1. CASE l \in ledger
      BY <2>1, <2>5, <3>1 DEF NamedInv
    <3>2. CASE l \notin ledger
      <4>1. l.call = call[s].id /\ pc[s] # "idle"
        BY <1>1, <1>4, <2>5, <3>2, LedgerGrows
      <4>2. call'[r] = call[r] /\ call[s].id # call[r].id
        BY <2>1, <4>1 DEF IdInv
      <4> QED BY <2>5, <4>1, <4>2
    <3> QED BY <3>1, <3>2
  <2>6. ASSUME NEW l \in ledger', NEW p \in passed', l.call = p.id
        PROVE  l.by = p.by /\ l.win = p.win
    <3>1. CASE l \in ledger /\ p \in passed
      BY <2>6, <3>1 DEF NamedInv
    <3>2. CASE l \notin ledger /\ p \in passed
      BY <1>1, <1>4, <2>6, <3>2, LedgerGrows DEF IdInv
    <3>3. CASE p \notin passed
      <4>1. /\ p.id = call[s].id /\ p.by = call[s].by /\ p.win = call[s].win
            /\ Idle(s)
        BY <1>1, <1>4, <2>6, <3>3, Passes
      <4>2. CASE l \in ledger
        BY <2>6, <4>1, <4>2 DEF NamedInv
      <4>3. CASE l \notin ledger
        BY <1>1, <1>4, <2>6, <4>1, <4>3, LedgerGrows
      <4> QED BY <4>2, <4>3
    <3> QED BY <3>1, <3>2, <3>3
  <2>7. \A l \in ledger' : l.call <= calls'
    <3>1. ASSUME NEW l \in ledger'
          PROVE  l.call <= calls'
      <4>1. CASE l \in ledger
        BY <1>2, <2>2, <2>3, <4>1
      <4>2. CASE l \notin ledger
        <5>1. l.call \in 1..calls
          BY <1>1, <1>4, <3>1, <4>2, LedgerGrows DEF CallIsGood
        <5> QED BY <1>2, <2>2, <5>1
      <4> QED BY <4>1, <4>2
    <3> QED BY <3>1
  <2> QED BY <2>4, <2>5, <2>6, <2>7 DEF NamedInv
<1> QED BY <1>3, <1>4, WhoActs
-----------------------------------------------------------------------------
LoggedInv == TypeOK /\ SeenInv /\ CallInv /\ IdInv /\ NamedInv

LEMMA LoggedBegins == Init => LoggedInv
<1> SUFFICES ASSUME Init PROVE LoggedInv
  OBVIOUS
<1>1. TypeOK
  BY NoCallIsCall, SendsAssumption DEF Init, TypeOK, Steps, Call
<1>2. SeenInv /\ CallInv
  BY DEF Init, SeenInv, CallInv, Reading, Logging, Closing
<1>3. IsFiniteSet(passed) /\ IsFiniteSet(ledger)
  BY FS_EmptySet DEF Init
<1>4. IdInv /\ NamedInv
  BY <1>3 DEF Init, IdInv, NamedInv
<1> QED BY <1>1, <1>2, <1>4 DEF LoggedInv

LEMMA LoggedStep == LoggedInv /\ [Next]_vars => LoggedInv'
BY TypesStep, CallStep, IdStep, NamedStep DEF LoggedInv

\* The window, the ledger and what the calls keep have their types.
THEOREM SendsTyped == Spec => []TypeOK
<1>1. Spec => []LoggedInv
  BY LoggedBegins, LoggedStep, PTL DEF Spec
<1>2. LoggedInv => TypeOK
  BY DEF LoggedInv
<1> QED BY <1>1, <1>2, PTL

\* Every call that was let through is in the ledger under each scope it went
\* to and for the reason it passed.
THEOREM SendsAccounted == Spec => []Accounted
<1>1. Spec => []LoggedInv
  BY LoggedBegins, LoggedStep, PTL DEF Spec
<1>2. LoggedInv => Accounted
  BY DEF LoggedInv, IdInv, Accounted, Logged
<1> QED BY <1>1, <1>2, PTL
-----------------------------------------------------------------------------
(* A window lets through what it was opened for                            *)

PlanInv == AgreeInv /\ TimeInv /\ LineInv /\ AloneInv /\ CountInv

\* Less than a day later is today or tomorrow.
LEMMA NextDay ==
  ASSUME NEW a \in Nat, NEW b \in Nat, a <= b, b <= a + Day
  PROVE  DayOf(a) \in Nat /\ DayOf(b) \in {DayOf(a), DayOf(a) + 1}
<1>1. Day \in Nat \ {0}
  BY SendsAssumption
<1>2. a \div Day \in Nat /\ b \div Day \in Nat
      /\ a \div Day <= b \div Day /\ b \div Day <= (a \div Day) + 1
  BY <1>1
<1> QED BY <1>2 DEF DayOf

LEMMA LaterDay ==
  ASSUME NEW a \in Nat, NEW b \in Nat, a <= b
  PROVE  DayOf(a) \in Nat /\ DayOf(b) \in Nat /\ DayOf(a) <= DayOf(b)
BY SendsAssumption DEF DayOf

LEMMA WindowsTyped ==
  ASSUME TypeOK
  PROVE  Windows \subseteq Window
BY DEF TypeOK, Windows

\* What a step makes of the window its session has read.
LEMMA SeenGoes ==
  ASSUME TypeOK, NEW s \in Session, SessionActs(s)
  PROVE  seen'[s] \in {seen[s], None} \cup {OpenWindow}
<1>1. DOMAIN seen = Session
  BY DEF TypeOK
<1>2. CASE Idle(s)
  BY <1>1, <1>2 DEF Idle
<1>3. ASSUME NEW reach \in Reaches, Begin(s, reach)
      PROVE  seen'[s] = seen[s]
  BY <1>3 DEF Begin
<1>4. CASE ReadWindow(s) \/ Settle(s)
  BY <1>1, <1>4 DEF ReadWindow, Settle
<1>5. CASE NotCovered(s) \/ Approved(s) \/ Stamp(s)
  BY <1>5 DEF NotCovered, Approved, Stamp
<1>6. ASSUME NEW scope \in Scope, Covered(s, scope)
      PROVE  seen'[s] = seen[s]
  BY <1>6 DEF Covered
<1>7. ASSUME NEW scope \in Scope, AppendLine(s, scope), ~Idle(s)
      PROVE  seen'[s] = seen[s]
  BY <1>7 DEF AppendLine
<1>8. CASE Tally(s) /\ ~Idle(s)
  BY <1>8 DEF Tally
<1>9. CASE Refused(s) \/ Kill(s) \/ NothingOpen(s) \/ Unlink(s)
  BY <1>2, <1>9 DEF Refused, Kill, NothingOpen, Unlink
<1> QED BY <1>2, <1>3, <1>4, <1>5, <1>6, <1>7, <1>8, <1>9
        DEF SessionActs, Step

\* A session makes no window.
LEMMA WindowsStay ==
  ASSUME TypeOK, NEW s \in Session, SessionActs(s)
  PROVE  Windows' \subseteq Windows
<1>1. /\ \A r \in Session \ {s} : seen'[r] = seen[r]
      /\ opening' = opening /\ file' \in {file, None}
  BY OthersWait DEF Waits
<1>2. seen'[s] \in {seen[s], None, file}
  BY SeenGoes DEF OpenWindow
<1> QED BY <1>1, <1>2 DEF Windows

\* What becomes of a call that a window covers.
CoveredNow(s) ==
  /\ pc[s] = "count" /\ pc'[s] = "stamp" /\ Spent(seen[s]) < seen[s].sends
  /\ call'[s].by = "window" /\ call'[s].win = seen[s].id
  /\ call'[s].plan = seen[s].sends
  /\ passed' = passed /\ ledger' = ledger /\ seen'[s] = seen[s]

PassesNow(s) ==
  /\ pc[s] # "idle" /\ Idle(s)
  /\ \E p : /\ passed' = passed \cup {p} /\ p.by = call[s].by
            /\ p.id = call[s].id /\ p.win = call[s].win
            /\ p.plan = call[s].plan

LEMMA CallChanges ==
  ASSUME TypeOK, SeenInv, NEW s \in Session, CallIsGood(s), SessionActs(s)
  PROVE  \/ CoveredNow(s) \/ PassesNow(s)
         \/ passed' = passed /\ (ByWindow(s)' => call'[s] = call[s])
<1>1. /\ pc \in [Session -> Steps] /\ call \in [Session -> Call]
  BY DEF TypeOK, Call
<1> DEFINE Keeps == passed' = passed /\ (ByWindow(s)' => call'[s] = call[s])
           Goal == CoveredNow(s) \/ PassesNow(s) \/ Keeps
<1> SUFFICES Goal
  OBVIOUS
<1>2. CASE Idle(s)
  <2>1. call'[s].by = "nobody"
    BY <1>2, IdleGood DEF NoCall
  <2>2. pc[s] \in Closing \cup {"append"} => pc[s] # "idle"
    BY DEF Closing
  <2>3. passed' = passed \/ PassesNow(s)
    BY <1>2, <2>2, Passes DEF PassesNow
  <2> QED BY <2>1, <2>3 DEF ByWindow
<1>3. ASSUME NEW reach \in Reaches, Begin(s, reach)
      PROVE  Goal
  <2>1. passed' = passed /\ call'[s].by = "nobody"
    BY <1>1, <1>3, NewCall DEF Begin
  <2> QED BY <2>1 DEF ByWindow
<1>4. CASE ReadWindow(s) \/ NotCovered(s) \/ Stamp(s) \/ Settle(s)
  BY <1>4 DEF ReadWindow, NotCovered, Stamp, Settle
<1>5. CASE Approved(s)
  <2>1. call'[s] = [call[s] EXCEPT !.by = "approval"] /\ passed' = passed
    BY <1>1, <1>5 DEF Approved
  <2>2. call'[s].by = "approval"
    BY <2>1, ApprovedCall
  <2> QED BY <2>1, <2>2 DEF ByWindow
<1>6. ASSUME NEW scope \in Scope, Covered(s, scope)
      PROVE  Goal
  <2>1. CASE left[s] = {scope}
    <3>1. call'[s] = [call[s] EXCEPT !.by = "window", !.win = seen[s].id,
                                     !.plan = seen[s].sends]
      BY <1>1, <1>6, <2>1 DEF Covered
    <3>2. /\ pc[s] = "count" /\ pc'[s] = "stamp"
          /\ UNCHANGED <<passed, ledger, seen>>
          /\ Spent(seen[s]) < seen[s].sends
      BY <1>1, <1>6, <2>1 DEF Covered, Covers, GoTo
    <3>3. /\ call'[s].by = "window" /\ call'[s].win = seen[s].id
          /\ call'[s].plan = seen[s].sends
      BY <3>1, <3>2, CoveredCall
    <3> QED BY <3>2, <3>3 DEF CoveredNow
  <2>2. CASE left[s] # {scope}
    BY <1>6, <2>2 DEF Covered
  <2> QED BY <2>1, <2>2
<1>7. ASSUME NEW scope \in Scope, AppendLine(s, scope), ~Idle(s)
      PROVE  Goal
  <2>1. UNCHANGED <<call, passed>>
    BY <1>7 DEF AppendLine
  <2> QED BY <2>1
<1>8. CASE Tally(s) /\ ~Idle(s)
  BY <1>8 DEF Tally
<1>9. CASE Refused(s) \/ Kill(s) \/ NothingOpen(s) \/ Unlink(s)
  BY <1>2, <1>9 DEF Refused, Kill, NothingOpen, Unlink
<1> HIDE DEF Goal
<1> QED BY <1>2, <1>3, <1>4, <1>5, <1>6, <1>7, <1>8, <1>9
        DEF SessionActs, Step
-----------------------------------------------------------------------------
(* An id names one window and one plan                                     *)

\* What was let through, or is about to be, was before, or is covered now.
LEMMA OutGoes ==
  ASSUME TypeOK, SeenInv, NEW s \in Session, CallIsGood(s), SessionActs(s)
  PROVE  \A x \in Out' :
           \/ \E y \in Out : x.win = y.win /\ x.plan = y.plan
           \/ CoveredNow(s) /\ x.win = seen[s].id /\ x.plan = seen[s].sends
<1>1. \A r \in Session \ {s} : call'[r] = call[r]
  BY OthersWait DEF Waits
<1>2. \A r \in Session \ {s} : ByWindow(r)' = ByWindow(r)
  BY <1>1 DEF ByWindow
<1>3. CASE passed' = passed /\ (ByWindow(s)' => call'[s] = call[s])
  <2>1. Out' \subseteq Out
    BY <1>1, <1>2, <1>3 DEF Out, ByWindow
  <2> QED BY <2>1
<1>4. CASE CoveredNow(s)
  <2>1. Out' \subseteq Out \cup {call'[s]}
    BY <1>1, <1>2, <1>4 DEF Out, CoveredNow
  <2> QED BY <1>4, <2>1 DEF CoveredNow
<1>5. CASE PassesNow(s)
  <2>1. PICK p : /\ passed' = passed \cup {p} /\ p.by = call[s].by
                 /\ p.win = call[s].win /\ p.plan = call[s].plan
    BY <1>5 DEF PassesNow
  <2>2. ~ByWindow(s)'
    BY <1>5, IdleGood DEF PassesNow, ByWindow, NoCall
  <2>3. \A x \in Out' : x \in Out \/ (x = p /\ ByWindow(s))
    BY <1>1, <1>2, <2>1, <2>2 DEF Out, ByWindow
  <2>4. ByWindow(s) => call[s] \in Out
    BY DEF Out
  <2> QED BY <2>1, <2>3, <2>4
<1> QED BY <1>3, <1>4, <1>5, CallChanges

LEMMA AgreeStep ==
  ASSUME TypeOK, SeenInv, CallInv, AgreeInv, [Next]_vars
  PROVE  AgreeInv'
<1>1. \A s \in Session : CallIsGood(s)
  BY EachIsGood
<1>2. opens \in Nat /\ Windows \subseteq Window /\ MaxOpens \in Nat
  BY WindowsTyped, SendsAssumption DEF TypeOK
<1>3. CASE UNCHANGED vars \/ Tick \/ WriteWindow \/ Close
  <2>1. /\ UNCHANGED <<callVars, passed, opens>>
        /\ file' \in {file, None, opening} /\ opening' \in {opening, None}
    BY <1>3 DEF vars, windowVars, Tick, WriteWindow, Close
  <2>2. Windows' \subseteq Windows
    BY <2>1 DEF Windows, callVars
  <2>3. Out' = Out /\ opens' = opens
    BY <2>1 DEF Out, ByWindow, callVars
  <2> QED BY <2>2, <2>3 DEF AgreeInv
<1>4. ASSUME NEW scopes \in SUBSET Scope, NEW sends \in 1..MaxSends,
             NEW hours \in 1..MaxHours, Open(scopes, sends, hours)
      PROVE  AgreeInv'
  <2> DEFINE w == NewWindow(scopes, sends, hours)
  <2>1. /\ UNCHANGED <<callVars, passed>> /\ opens' = opens + 1
        /\ opening' = w /\ file' = file /\ w.id = opens + 1
    BY <1>4, NewWindowFields DEF Open
  <2> HIDE DEF w
  <2>2. PICK v : v = opening' /\ v.id = opens + 1
    BY <2>1
  <2>3. Windows' \subseteq Windows \cup {v}
    BY <2>1, <2>2 DEF Windows, callVars
  <2>4. Out' = Out
    BY <2>1 DEF Out, ByWindow, callVars
  <2>5. \A u \in Windows : u.id \in Nat /\ u.id <= opens
    BY <1>2 DEF AgreeInv, Window
  <2>6. \A u \in Windows : u.id # v.id /\ u.id <= opens'
    BY <1>2, <2>1, <2>2, <2>5
  <2>7. \A x \in Out : x.win # v.id /\ x.win \in 1..opens'
    BY <1>2, <2>1, <2>2 DEF AgreeInv
  <2>8. v.id <= opens'
    BY <1>2, <2>1, <2>2
  <2> QED BY <2>3, <2>4, <2>6, <2>7, <2>8 DEF AgreeInv
<1>5. ASSUME NEW s \in Session, SessionActs(s)
      PROVE  AgreeInv'
  <2>1. Windows' \subseteq Windows /\ opens' = opens
    BY <1>5, WindowsStay, OthersWait
  <2>2. \A x \in Out' :
          \/ \E y \in Out : x.win = y.win /\ x.plan = y.plan
          \/ CoveredNow(s) /\ x.win = seen[s].id /\ x.plan = seen[s].sends
    BY <1>1, <1>5, OutGoes
  <2>3. CoveredNow(s) => seen[s] \in Windows
    BY DEF CoveredNow, SeenInv, Windows
  <2>4. \A x \in Out' :
          \/ \E y \in Out : x.win = y.win /\ x.plan = y.plan
          \/ \E w \in Windows : x.win = w.id /\ x.plan = w.sends
    BY <2>2, <2>3
  <2>5. \A w \in Windows : w.id \in 1..opens
    BY <1>2 DEF AgreeInv, Window
  <2>6. \A x \in Out' : x.win \in 1..opens
    BY <2>4, <2>5 DEF AgreeInv
  <2>7. \A x \in Out', w \in Windows : x.win = w.id => x.plan = w.sends
    BY <2>4 DEF AgreeInv
  <2>8. \A x, y \in Out' : x.win = y.win => x.plan = y.plan
    BY <2>4, <2>7 DEF AgreeInv
  <2> QED BY <2>1, <2>6, <2>7, <2>8 DEF AgreeInv
<1> QED BY <1>3, <1>4, <1>5, WhoActs DEF PrincipalActs
-----------------------------------------------------------------------------
(* Hours and lines                                                         *)

\* What TimeInv says of a window and of a session.
WindowInTime(w) ==
  /\ w.opened <= seq
  /\ \E hour \in 0..now : w.day = DayOf(hour) /\ w.until <= hour + Day

CallInTime(s) ==
  /\ pc[s] # "idle" => call[s].began <= now /\ now <= call[s].began + 1
  /\ seen[s] # None => call[s].began < seen[s].until
  /\ pc[s] = "append" /\ ByWindow(s) => seen[s].opened <= stamp[s]

LEMMA EachInTime ==
  TimeInv <=> /\ \A w \in Windows : WindowInTime(w)
              /\ \A s \in Session : CallInTime(s)
BY DEF TimeInv, WindowInTime, CallInTime

\* What the acting session reads is open now.
LEMMA ReadsOpen ==
  ASSUME TypeOK, OpenWindow # None
  PROVE  OpenWindow \in Windows /\ OpenWindow = file /\ now < OpenWindow.until
<1>1. file # None /\ OpenWindow = file /\ file.until > now
  BY DEF OpenWindow
<1>2. file \in Window /\ now \in Nat
  BY <1>1, SendsAssumption DEF TypeOK
<1> QED BY <1>1, <1>2 DEF Windows, Window

LEMMA ActsInTime ==
  ASSUME TypeOK, SeenInv, TimeInv, NEW s \in Session, CallIsGood(s),
         SessionActs(s)
  PROVE  CallInTime(s)'
<1>1. /\ pc \in [Session -> Steps] /\ call \in [Session -> Call]
      /\ DOMAIN seen = Session /\ stamp \in [Session -> Nat]
      /\ now \in Nat /\ seq \in Nat
  BY SendsAssumption DEF TypeOK, Call
<1>2. /\ call[s].began \in Nat
      /\ seen[s] # None => seen[s].until \in Nat /\ seen[s].opened \in Nat
                           /\ seen[s] \in Windows
  BY <1>1, WindowFields, SendsAssumption DEF Call, Window, Windows
<1>3. CallInTime(s)
  BY EachInTime
<1>4. now' = now
  BY OthersWait
<1>5. CASE Idle(s)
  BY <1>5, IdleGood DEF CallInTime
<1>6. ASSUME NEW reach \in Reaches, Begin(s, reach)
      PROVE  CallInTime(s)'
  <2>1. /\ pc[s] = "idle" /\ pc'[s] = "window" /\ call'[s].began = now
        /\ seen'[s] = seen[s]
    BY <1>1, <1>6, NewCall DEF Begin, GoTo
  <2>2. seen[s] = None
    BY <2>1 DEF CallIsGood
  <2> QED BY <1>1, <1>4, <2>1, <2>2 DEF CallInTime
<1>7. CASE ReadWindow(s) \/ Settle(s)
  <2>1. /\ pc[s] # "idle" /\ pc'[s] # "append" /\ call' = call
        /\ seen'[s] = OpenWindow
    BY <1>1, <1>7 DEF ReadWindow, Settle, GoTo
  <2>2. OpenWindow # None => now < OpenWindow.until /\ OpenWindow.until \in Nat
    <3>1. OpenWindow # None => OpenWindow \in Window
      BY WindowFields
    <3> QED BY <3>1, ReadsOpen DEF Window
  <2>3. call[s].began <= now
    BY <1>3, <2>1 DEF CallInTime
  <2> QED BY <1>1, <1>2, <1>3, <1>4, <2>1, <2>2, <2>3 DEF CallInTime
<1>8. CASE NotCovered(s)
  <2>1. pc[s] # "idle" /\ pc'[s] = "ask" /\ UNCHANGED <<call, seen>>
    BY <1>1, <1>8 DEF NotCovered, GoTo
  <2> QED BY <1>3, <1>4, <2>1 DEF CallInTime
<1>9. CASE Approved(s)
  <2>1. /\ pc[s] # "idle" /\ pc'[s] = "stamp" /\ UNCHANGED seen
        /\ call'[s].began = call[s].began
    BY <1>1, <1>9, ApprovedCall DEF Approved, GoTo
  <2> QED BY <1>3, <1>4, <2>1 DEF CallInTime
<1>10. CASE Stamp(s)
  <2>1. /\ pc[s] = "stamp" /\ UNCHANGED <<call, seen>> /\ stamp'[s] = seq + 1
    BY <1>1, <1>10 DEF Stamp
  <2>2. ByWindow(s) => seen[s] # None
    BY <2>1 DEF SeenInv, Logging, ByWindow
  <2>3. ByWindow(s) => seen[s].opened <= seq
    BY <1>2, <2>2, EachInTime DEF WindowInTime
  <2>4. ByWindow(s)' = ByWindow(s)
    BY <2>1 DEF ByWindow
  <2> QED BY <1>1, <1>2, <1>3, <1>4, <2>1, <2>2, <2>3, <2>4 DEF CallInTime
<1>11. ASSUME NEW scope \in Scope, Covered(s, scope)
       PROVE  CallInTime(s)'
  <2>1. /\ pc[s] # "idle" /\ pc'[s] # "append" /\ seen' = seen
        /\ call'[s].began = call[s].began
    <3>1. CASE left[s] = {scope}
      <4>1. call'[s] = [call[s] EXCEPT !.by = "window", !.win = seen[s].id,
                                       !.plan = seen[s].sends]
        BY <1>1, <1>11, <3>1 DEF Covered
      <4> QED BY <1>1, <1>11, <3>1, <4>1, CoveredCall DEF Covered, GoTo
    <3>2. CASE left[s] # {scope}
      BY <1>1, <1>11, <3>2 DEF Covered, GoTo
    <3> QED BY <3>1, <3>2
  <2> QED BY <1>3, <1>4, <2>1 DEF CallInTime
<1>12. ASSUME NEW scope \in Scope, AppendLine(s, scope), ~Idle(s)
       PROVE  CallInTime(s)'
  <2>1. pc[s] # "idle" /\ pc'[s] # "append" /\ UNCHANGED <<call, seen>>
    BY <1>1, <1>12 DEF AppendLine, GoTo
  <2> QED BY <1>3, <1>4, <2>1 DEF CallInTime
<1>13. CASE Tally(s) /\ ~Idle(s)
  <2>1. pc[s] # "idle" /\ pc'[s] # "append" /\ UNCHANGED <<call, seen>>
    BY <1>1, <1>13 DEF Tally, GoTo
  <2> QED BY <1>3, <1>4, <2>1 DEF CallInTime
<1>14. CASE Refused(s) \/ Kill(s) \/ NothingOpen(s) \/ Unlink(s)
  BY <1>5, <1>14 DEF Refused, Kill, NothingOpen, Unlink
<1> QED BY <1>5, <1>6, <1>7, <1>8, <1>9, <1>10, <1>11, <1>12, <1>13, <1>14
        DEF SessionActs, Step

LEMMA TimeStep ==
  ASSUME TypeOK, SeenInv, CallInv, TimeInv, [Next]_vars
  PROVE  TimeInv'
<1>1. \A s \in Session : CallIsGood(s) /\ CallInTime(s)
  BY EachIsGood, EachInTime
<1>2. /\ now \in Nat /\ seq \in Nat /\ Day \in Nat /\ MaxHours \in Nat
      /\ Windows \subseteq Window /\ call \in [Session -> Call]
  BY WindowsTyped, SendsAssumption DEF TypeOK, Call
<1>3. \A w \in Windows : WindowInTime(w)
  BY EachInTime
<1>4. ASSUME NEW w \in Windows, now' \in Nat, seq' \in Nat, now <= now',
             seq <= seq'
      PROVE  WindowInTime(w)'
  <2>1. w.opened \in Nat
    BY <1>2 DEF Window
  <2> QED BY <1>2, <1>3, <1>4, <2>1 DEF WindowInTime
<1>5. now' \in Nat /\ seq' \in Nat
  BY TypesStep, SendsAssumption DEF TypeOK
<1>6. CASE UNCHANGED vars \/ WriteWindow \/ Close
  <2>1. /\ UNCHANGED <<callVars, now, seq>>
        /\ file' \in {file, None, opening} /\ opening' \in {opening, None}
    BY <1>6 DEF vars, windowVars, WriteWindow, Close
  <2>2. Windows' \subseteq Windows
    BY <2>1 DEF Windows, callVars
  <2>3. \A w \in Windows' : WindowInTime(w)'
    BY <1>2, <1>4, <2>1, <2>2
  <2>4. \A s \in Session : CallInTime(s)'
    BY <1>1, <2>1 DEF CallInTime, ByWindow, callVars
  <2> QED BY <2>3, <2>4 DEF TimeInv, WindowInTime, CallInTime
<1>7. CASE Tick
  <2>1. /\ UNCHANGED <<callVars, windowVars, seq>> /\ now' = now + 1
        /\ \A s \in Session : pc[s] # "idle" => call[s].began = now
    BY <1>7 DEF Tick
  <2>2. Windows' = Windows
    BY <2>1 DEF Windows, callVars, windowVars
  <2>3. \A w \in Windows' : WindowInTime(w)'
    BY <1>2, <1>4, <1>5, <2>1, <2>2
  <2>4. \A s \in Session : CallInTime(s)'
    BY <1>1, <1>2, <2>1 DEF CallInTime, ByWindow, callVars
  <2> QED BY <2>3, <2>4 DEF TimeInv, WindowInTime, CallInTime
<1>8. ASSUME NEW scopes \in SUBSET Scope, NEW sends \in 1..MaxSends,
             NEW hours \in 1..MaxHours, Open(scopes, sends, hours)
      PROVE  TimeInv'
  <2> DEFINE w == NewWindow(scopes, sends, hours)
  <2>1. /\ UNCHANGED <<callVars, now>> /\ opening' = w /\ file' = file
        /\ seq' = seq + 1 /\ w.opened = seq + 1 /\ w.day = DayOf(now)
        /\ w.until = now + hours
    BY <1>8, NewWindowFields DEF Open
  <2> HIDE DEF w
  <2>2. PICK v : /\ v = opening' /\ v.opened = seq + 1 /\ v.day = DayOf(now)
                 /\ v.until = now + hours
    BY <2>1
  <2>3. Windows' \subseteq Windows \cup {v}
    BY <2>1, <2>2 DEF Windows, callVars
  <2>4. hours \in Nat /\ hours <= Day
    BY SendsAssumption
  <2>5. v.opened <= seq' /\ now \in 0..now' /\ v.until <= now + Day
    BY <1>2, <2>1, <2>2, <2>4
  <2>6. WindowInTime(v)'
    BY <2>2, <2>5 DEF WindowInTime
  <2>7. \A u \in Windows' : WindowInTime(u)'
    BY <1>2, <1>4, <1>5, <2>1, <2>3, <2>6
  <2>8. \A s \in Session : CallInTime(s)'
    BY <1>1, <2>1 DEF CallInTime, ByWindow, callVars
  <2> QED BY <2>7, <2>8 DEF TimeInv, WindowInTime, CallInTime
<1>9. ASSUME NEW s \in Session, SessionActs(s)
      PROVE  TimeInv'
  <2>1. /\ Windows' \subseteq Windows /\ now' = now /\ seq <= seq'
        /\ \A r \in Session \ {s} : Waits(r)
    BY <1>9, WindowsStay, OthersWait
  <2>2. \A w \in Windows' : WindowInTime(w)'
    BY <1>2, <1>4, <1>5, <2>1
  <2>3. CallInTime(s)'
    BY <1>1, <1>9, ActsInTime
  <2>4. \A r \in Session \ {s} : CallInTime(r)'
    BY <1>1, <2>1 DEF CallInTime, ByWindow, Waits
  <2> QED BY <2>2, <2>3, <2>4 DEF TimeInv, WindowInTime, CallInTime
<1> QED BY <1>6, <1>7, <1>8, <1>9, WhoActs DEF PrincipalActs

LEMMA LineStep ==
  ASSUME TypeOK, SeenInv, CallInv, AgreeInv, TimeInv, LineInv, [Next]_vars
  PROVE  LineInv'
<1>1. \A s \in Session : CallIsGood(s) /\ CallInTime(s)
  BY EachIsGood, EachInTime
<1>2. /\ now \in Nat /\ now' \in Nat /\ opens \in Nat /\ ledger \subseteq Line
      /\ Windows \subseteq Window /\ opens' \in Nat
  BY WindowsTyped, TypesStep, SendsAssumption DEF TypeOK
<1>3. ASSUME now <= now'
      PROVE  Today \in Nat /\ Today' \in Nat /\ Today <= Today'
  BY <1>2, <1>3, LaterDay DEF Today
<1>4. ASSUME UNCHANGED ledger, now <= now', opens <= opens',
             \A w \in Windows' : w \in Windows \/ w.id = opens + 1
      PROVE  LineInv'
  <2>1. ASSUME NEW l \in ledger', l.by = "window"
        PROVE  /\ l.win <= opens' /\ l.day <= Today'
               /\ \A w \in Windows' : l.win = w.id =>
                    w.opened <= l.at /\ l.day \in {w.day, w.day + 1}
    <3>1. l \in ledger /\ l.win \in Nat /\ l.day \in Nat
          /\ l.win <= opens /\ l.day <= Today
      BY <1>2, <1>4, <2>1, SendsAssumption DEF Line, LineInv
    <3>2. l.win <= opens' /\ l.day <= Today' /\ l.win # opens + 1
      BY <1>2, <1>3, <1>4, <3>1
    <3> QED BY <1>4, <2>1, <3>1, <3>2 DEF LineInv
  <2> QED BY <2>1 DEF LineInv
<1>5. CASE UNCHANGED vars \/ Tick \/ WriteWindow \/ Close
  <2>1. /\ UNCHANGED <<callVars, ledger, opens>> /\ now' \in {now, now + 1}
        /\ file' \in {file, None, opening} /\ opening' \in {opening, None}
    BY <1>5 DEF vars, windowVars, Tick, WriteWindow, Close
  <2>2. Windows' \subseteq Windows
    BY <2>1 DEF Windows, callVars
  <2> QED BY <1>2, <1>4, <2>1, <2>2
<1>6. ASSUME NEW scopes \in SUBSET Scope, NEW sends \in 1..MaxSends,
             NEW hours \in 1..MaxHours, Open(scopes, sends, hours)
      PROVE  LineInv'
  <2>1. /\ UNCHANGED <<callVars, now, ledger, file>> /\ opens' = opens + 1
        /\ opening'.id = opens + 1
    BY <1>6, NewWindowFields DEF Open
  <2>2. \A w \in Windows' : w \in Windows \/ w.id = opens + 1
    BY <2>1 DEF Windows, callVars
  <2> QED BY <1>2, <1>4, <2>1, <2>2
<1>7. ASSUME NEW s \in Session, SessionActs(s)
      PROVE  LineInv'
  <2>1. Windows' \subseteq Windows /\ UNCHANGED <<opens, now>>
    BY <1>7, WindowsStay, OthersWait
  <2>2. CASE ledger' = ledger
    BY <1>2, <1>4, <2>1, <2>2
  <2>3. ASSUME NEW l, ledger' = ledger \cup {l}, pc[s] = "append",
               l.by = call[s].by, l.win = call[s].win, l.at = stamp[s],
               l.day = Today
        PROVE  LineInv'
    <3>1. CASE ~ByWindow(s)
      <4>1. l.by # "window" /\ Today' = Today
        BY <2>1, <2>3, <3>1 DEF ByWindow, Today
      <4> QED BY <2>1, <2>3, <4>1 DEF LineInv
    <3>2. CASE ByWindow(s)
      <4> DEFINE w == seen[s]
      <4>1. w \in Windows /\ w.id = l.win /\ w # None
        BY <2>3, <3>2 DEF SeenInv, Logging, ByWindow, Windows
      <4>2. call[s] \in Out
        BY <3>2 DEF Out
      <4>3. l.win <= opens
        BY <1>2, <2>3, <4>2 DEF AgreeInv
      <4>4. w.opened <= l.at
        BY <1>1, <2>3, <3>2 DEF CallInTime
      <4>5. PICK hour \in 0..now : w.day = DayOf(hour) /\ w.until <= hour + Day
        BY <4>1 DEF TimeInv
      <4>6. now <= hour + Day
        <5>1. /\ call[s].began < w.until /\ now <= call[s].began + 1
          BY <1>1, <2>3, <4>1 DEF CallInTime
        <5>2. call[s].began \in Nat /\ w.until \in Nat /\ Day \in Nat
          BY <1>2, <4>1, WindowFields, SendsAssumption DEF Call, Window
        <5> QED BY <1>2, <4>5, <5>1, <5>2
      <4>7. Today \in {w.day, w.day + 1} /\ Today' = Today
            /\ Today \in Nat
        BY <1>2, <2>1, <4>5, <4>6, NextDay, LaterDay DEF Today
      <4>8. \A v \in Windows : l.win = v.id => v = w
        BY <4>1 DEF AgreeInv
      <4> HIDE DEF w
      <4>9. \A m \in ledger' : m = l \/ m \in ledger
        BY <2>3
      <4>10. l.day <= Today'
        BY <2>3, <4>7
      <4>11. \A v \in Windows' : l.win = v.id =>
               v.opened <= l.at /\ l.day \in {v.day, v.day + 1}
        BY <2>1, <2>3, <4>4, <4>7, <4>8
      <4> QED BY <2>1, <4>3, <4>7, <4>9, <4>10, <4>11 DEF LineInv
    <3> QED BY <3>1, <3>2
  <2> QED BY <1>1, <1>7, <2>2, <2>3, LedgerGrows
<1> QED BY <1>5, <1>6, <1>7, WhoActs DEF PrincipalActs
-----------------------------------------------------------------------------
(* Counting                                                                *)

LEMMA AloneStep ==
  ASSUME TypeOK, SeenInv, CallInv, AloneInv, [Next]_vars
  PROVE  AloneInv'
<1>1. ASSUME NEW s \in Session, SessionActs(s)
      PROVE  AloneInv'
  <2>1. \A r \in Session \ {s} : pc'[r] = pc[r]
    BY <1>1, OthersWait DEF Waits
  <2>2. CASE pc[s] # "idle"
    BY <2>1, <2>2 DEF AloneInv
  <2>3. CASE pc[s] = "idle"
    <3>1. PICK reach \in Reaches : Begin(s, reach)
      BY <1>1, <2>3 DEF SessionActs, Step, ReadWindow, NotCovered, Approved,
         Refused, Stamp, Covered, AppendLine, Settle, NothingOpen, Tally,
         Unlink, Kill
    <3>2. Alone => \A r \in Session : pc[r] = "idle"
      BY <3>1 DEF Begin
    <3> QED BY <2>1, <3>2 DEF AloneInv
  <2> QED BY <2>2, <2>3
<1>2. CASE UNCHANGED vars \/ Tick \/ PrincipalActs
  BY <1>2, OthersUntouched DEF AloneInv, callVars
<1> QED BY <1>1, <1>2, WhoActs

LEMMA FiniteParts ==
  ASSUME IdInv, NEW i
  PROVE  /\ IsFiniteSet(PassedBy(i)) /\ Cardinality(PassedBy(i)) \in Nat
         /\ IsFiniteSet(Passing(i)) /\ Cardinality(Passing(i)) \in Nat
         /\ Cardinality(Passing(i)) <= Cardinality(Session)
         /\ Cardinality(Session) \in Nat
<1>1. PassedBy(i) \in SUBSET passed /\ IsFiniteSet(passed)
  BY DEF PassedBy, IdInv
<1>2. Passing(i) \in SUBSET Session /\ IsFiniteSet(Session)
  BY SendsAssumption DEF Passing
<1>3. IsFiniteSet(PassedBy(i)) /\ IsFiniteSet(Passing(i))
      /\ Cardinality(Passing(i)) <= Cardinality(Session)
  BY <1>1, <1>2, FS_Subset
<1> QED BY <1>2, <1>3, FS_CardinalityType

\* What was let through under a window is among the lines that count against
\* it, each call under a line of its own.
LEMMA SpentCounts ==
  ASSUME TypeOK, SeenInv, IdInv, NamedInv, TimeInv, LineInv,
         NEW s \in Session, pc[s] = "count"
  PROVE  /\ Cardinality(PassedBy(seen[s].id)) <= Spent(seen[s])
         /\ Spent(seen[s]) \in Nat
<1> DEFINE w == seen[s]
           Spends == {l \in ledger : /\ l.by = "window"
                                     /\ l.day \in {w.day, Today}
                                     /\ l.at >= w.opened}
           Given == PassedBy(w.id)
<1>1. w # None /\ w \in Windows /\ w \in Window
  BY WindowFields DEF SeenInv, Windows
<1>2. now \in Nat /\ Day \in Nat /\ ledger \subseteq Line
  BY SendsAssumption DEF TypeOK
<1>3. Today \in {w.day, w.day + 1}
  <2>1. PICK hour \in 0..now : w.day = DayOf(hour) /\ w.until <= hour + Day
    BY <1>1 DEF TimeInv
  <2>2. call[s].began < w.until /\ now <= call[s].began + 1
    BY <1>1 DEF TimeInv
  <2>3. call[s].began \in Nat /\ w.until \in Nat
    BY <1>1, WindowFields, SendsAssumption DEF Call, Window
  <2>4. now <= hour + Day
    BY <1>2, <2>1, <2>2, <2>3
  <2> QED BY <1>2, <2>1, <2>4, NextDay DEF Today
<1>4. ASSUME NEW l \in ledger, l.by = "window", l.win = w.id
      PROVE  l \in Spends
  <2>1. /\ w.opened <= l.at /\ l.day \in {w.day, w.day + 1} /\ l.day <= Today
    BY <1>1, <1>4 DEF LineInv
  <2>2. /\ w.opened \in Nat /\ l.at \in Nat /\ l.day \in Nat /\ w.day \in Nat
    BY <1>1, <1>2 DEF Window, Line
  <2>3. l.day \in {w.day, Today}
    BY <1>3, <2>1, <2>2
  <2> QED BY <1>4, <2>1, <2>2, <2>3
<1>5. ASSUME NEW p \in Given
      PROVE  \E l \in Spends : l.call = p.id
  <2>1. p \in passed /\ p.by = "window" /\ p.win = w.id
    BY <1>5 DEF PassedBy
  <2>2. PICK x \in p.reach : Logged(p, x)
    BY <2>1 DEF IdInv
  <2>3. PICK l \in ledger : l.call = p.id /\ l.by = p.by
    BY <2>2 DEF Logged
  <2>4. l.win = p.win
    BY <2>1, <2>3 DEF NamedInv
  <2> QED BY <1>4, <2>1, <2>3, <2>4
<1>6. IsFiniteSet(Spends)
  <2>1. Spends \in SUBSET ledger /\ IsFiniteSet(ledger)
    BY DEF IdInv
  <2> QED BY <2>1, FS_Subset
<1>7. \A p, q \in Given : p.id = q.id => p = q
  BY DEF PassedBy, IdInv
<1> HIDE DEF Spends, Given
<1> DEFINE f == [p \in Given |-> CHOOSE l \in Spends : l.call = p.id]
<1>8. \A p \in Given : f[p] \in Spends /\ f[p].call = p.id
  BY <1>5
<1>9. f \in [Given -> Spends]
  BY <1>8
<1> HIDE DEF f
<1>10. \A p, q \in Given : f[p] = f[q] => p = q
  BY <1>7, <1>8
<1>11. f \in Injection(Given, Spends)
  BY <1>9, <1>10 DEF Injection, IsInjective
<1>12. Cardinality(Given) <= Cardinality(Spends) /\ Cardinality(Spends) \in Nat
  BY <1>6, <1>11, FS_Injection, FS_CardinalityType
<1> QED BY <1>12 DEF Given, Spends, Spent

LEMMA PlansTyped ==
  ASSUME TypeOK, IdInv
  PROVE  /\ \A x \in Out : x.plan \in Nat
         /\ Slack \in Int /\ Slack' = Slack
<1>1. \A s \in Session : call[s].plan \in Nat
  BY SendsAssumption DEF TypeOK
<1>2. Cardinality(Session) \in Nat
  BY SendsAssumption, FS_CardinalityType
<1> QED BY <1>1, <1>2 DEF Out, IdInv, Slack

\* A step that lets nothing through under a window, and covers nothing.
LEMMA CountStays ==
  ASSUME TypeOK, IdInv, CountInv, Out' \subseteq Out,
         \A i : PassedBy(i)' = PassedBy(i) /\ Passing(i)' \subseteq Passing(i)
  PROVE  CountInv'
<1>1. Slack \in Int /\ Slack' = Slack /\ \A x \in Out : x.plan \in Nat
  BY PlansTyped
<1>2. ASSUME NEW x \in Out'
      PROVE  Cardinality(PassedBy(x.win)') + Cardinality(Passing(x.win)')
               <= x.plan + Slack
  <2> DEFINE i == x.win
  <2>1. x \in Out
    BY <1>2
  <2>2. Cardinality(PassedBy(i)) + Cardinality(Passing(i)) <= x.plan + Slack
    BY <2>1 DEF CountInv
  <2>3. /\ IsFiniteSet(Passing(i)) /\ Cardinality(Passing(i)) \in Nat
        /\ Cardinality(PassedBy(i)) \in Nat
    BY FiniteParts
  <2>4. Passing(i)' \in SUBSET Passing(i) /\ PassedBy(i)' = PassedBy(i)
    OBVIOUS
  <2>5. /\ Cardinality(Passing(i)') <= Cardinality(Passing(i))
        /\ Cardinality(Passing(i)') \in Nat
    BY <2>3, <2>4, FS_Subset, FS_CardinalityType
  <2>6. x.plan + Slack \in Int
    BY <1>1, <2>1
  <2> HIDE DEF i
  <2>7. Cardinality(PassedBy(i)') + Cardinality(Passing(i)') <= x.plan + Slack
    BY <2>2, <2>3, <2>4, <2>5, <2>6
  <2> QED BY <2>7 DEF i
<1> QED BY <1>1, <1>2 DEF CountInv

LEMMA CountStep ==
  ASSUME TypeOK, SeenInv, CallInv, IdInv, NamedInv, AgreeInv, AgreeInv',
         TimeInv, LineInv, AloneInv, CountInv, [Next]_vars
  PROVE  CountInv'
<1>1. \A s \in Session : CallIsGood(s)
  BY EachIsGood
<1>2. Slack \in Int /\ Slack' = Slack /\ \A x \in Out : x.plan \in Nat
  BY PlansTyped
<1>3. CASE UNCHANGED vars \/ Tick \/ PrincipalActs
  <2>1. UNCHANGED <<callVars, passed>>
    BY <1>3, OthersUntouched
  <2>2. Out' = Out
    BY <2>1 DEF Out, ByWindow, callVars
  <2>3. \A i : PassedBy(i)' = PassedBy(i) /\ Passing(i)' = Passing(i)
    BY <2>1 DEF PassedBy, Passing, ByWindow, callVars
  <2> QED BY <2>2, <2>3, CountStays
<1>4. ASSUME NEW s \in Session, SessionActs(s)
      PROVE  CountInv'
  <2>1. \A r \in Session \ {s} :
          call'[r] = call[r] /\ pc'[r] = pc[r] /\ ByWindow(r)' = ByWindow(r)
    BY <1>4, OthersWait DEF Waits, ByWindow
  <2>2. CASE passed' = passed /\ (ByWindow(s)' => call'[s] = call[s])
    <3>1. ByWindow(s)' => ByWindow(s)
      BY <2>2 DEF ByWindow
    <3>2. Out' \subseteq Out
      BY <2>1, <2>2, <3>1 DEF Out
    <3>3. \A i : PassedBy(i)' = PassedBy(i) /\ Passing(i)' \subseteq Passing(i)
      BY <2>1, <2>2, <3>1 DEF PassedBy, Passing
    <3> QED BY <3>2, <3>3, CountStays
  <2>3. CASE PassesNow(s)
    <3>1. PICK p : /\ passed' = passed \cup {p} /\ p.by = call[s].by
                   /\ p.win = call[s].win /\ p.plan = call[s].plan
      BY <2>3 DEF PassesNow
    <3>2. ~ByWindow(s)'
      BY <2>3, IdleGood DEF PassesNow, ByWindow, NoCall
    <3>3. CASE ~ByWindow(s)
      <4>1. p.by # "window"
        BY <3>1, <3>3 DEF ByWindow
      <4>2. Out' \subseteq Out
        BY <2>1, <3>1, <3>2, <4>1 DEF Out
      <4>3. \A i : /\ PassedBy(i)' = PassedBy(i)
                   /\ Passing(i)' \subseteq Passing(i)
        BY <2>1, <3>1, <3>2, <4>1 DEF PassedBy, Passing
      <4> QED BY <4>2, <4>3, CountStays
    <3>4. CASE ByWindow(s)
      <4>1. p.by = "window"
        BY <3>1, <3>4 DEF ByWindow
      <4>2. \A x \in Out' : x \in Out \/ x = p
        BY <2>1, <3>1, <3>2 DEF Out
      <4>3. call[s] \in Out /\ call[s].win = p.win /\ call[s].plan = p.plan
        BY <3>1, <3>4 DEF Out
      <4>4. ASSUME NEW x \in Out'
            PROVE  /\ x.plan \in Nat
                   /\ Cardinality(PassedBy(x.win)) + Cardinality(Passing(x.win))
                        <= x.plan + Slack
        BY <1>2, <4>2, <4>3 DEF CountInv
      <4>5. ASSUME NEW i, i # p.win
            PROVE  PassedBy(i)' = PassedBy(i) /\ Passing(i)' = Passing(i)
        BY <2>1, <3>1, <3>2, <4>5 DEF PassedBy, Passing
      <4>6. /\ PassedBy(p.win)' = PassedBy(p.win) \cup {p}
            /\ Passing(p.win)' = Passing(p.win) \ {s} /\ s \in Passing(p.win)
        BY <2>1, <3>1, <3>2, <3>4, <4>1 DEF PassedBy, Passing
      <4>7. ASSUME NEW i
            PROVE  /\ Cardinality(PassedBy(i)') \in Nat
                   /\ Cardinality(Passing(i)') \in Nat
                   /\ Cardinality(PassedBy(i)') + Cardinality(Passing(i)')
                        <= Cardinality(PassedBy(i)) + Cardinality(Passing(i))
        <5>1. /\ IsFiniteSet(PassedBy(i)) /\ Cardinality(PassedBy(i)) \in Nat
              /\ IsFiniteSet(Passing(i)) /\ Cardinality(Passing(i)) \in Nat
          BY FiniteParts
        <5>2. CASE i # p.win
          BY <4>5, <5>1, <5>2
        <5>3. CASE i = p.win
          <6>1. /\ PassedBy(i)' = PassedBy(i) \cup {p}
                /\ Passing(i)' = Passing(i) \ {s} /\ s \in Passing(i)
            BY <4>6, <5>3
          <6>2. IsFiniteSet(PassedBy(i)') /\ IsFiniteSet(Passing(i)')
            BY <5>1, <6>1, FS_AddElement, FS_RemoveElement
          <6>3. LET n == Cardinality(PassedBy(i))
                IN  Cardinality(PassedBy(i)') \in {n, n + 1}
            BY <5>1, <6>1, FS_AddElement
          <6>5. Cardinality(Passing(i)') = Cardinality(Passing(i)) - 1
            BY <5>1, <6>1, FS_RemoveElement
          <6>4. Cardinality(Passing(i)') \in Nat
            BY <6>2, FS_CardinalityType
          <6> QED BY <5>1, <6>3, <6>4, <6>5
        <5> QED BY <5>2, <5>3
      <4>8. ASSUME NEW x \in Out'
            PROVE  Cardinality(PassedBy(x.win)') + Cardinality(Passing(x.win)')
                     <= x.plan + Slack
        <5>1. /\ Cardinality(PassedBy(x.win)) \in Nat
              /\ Cardinality(Passing(x.win)) \in Nat
          BY FiniteParts
        <5> QED BY <1>2, <4>4, <4>7, <5>1
      <4> QED BY <1>2, <4>8 DEF CountInv
    <3> QED BY <3>3, <3>4
  <2>4. CASE CoveredNow(s)
    <3> PICK w : w = seen[s]
      OBVIOUS
    <3>1. /\ passed' = passed /\ call'[s].by = "window" /\ call'[s].win = w.id
          /\ call'[s].plan = w.sends /\ Spent(w) < w.sends /\ w \in Windows
          /\ ByWindow(s)' /\ ~ByWindow(s)
      BY <1>1, <2>4
         DEF CoveredNow, SeenInv, Windows, ByWindow, CallIsGood, Reading
    <3>2. /\ w.sends \in Nat /\ w.id \in Nat
          /\ Cardinality(PassedBy(w.id)) <= Spent(w) /\ Spent(w) \in Nat
      BY <2>4, <3>1, WindowsTyped, SpentCounts, SendsAssumption
         DEF CoveredNow, Window
    <3>3. Passing(w.id)' \subseteq Session /\ IsFiniteSet(Session)
      BY SendsAssumption DEF Passing
    <3>4. /\ Cardinality(Passing(w.id)') \in Nat
          /\ Cardinality(Passing(w.id)') <= Slack + 1
      <4>1. /\ Cardinality(Passing(w.id)') \in Nat
            /\ Cardinality(Passing(w.id)') <= Cardinality(Session)
            /\ Cardinality(Session) \in Nat
        BY <3>3, FS_Subset, FS_CardinalityType
      <4>2. CASE ~Alone
        BY <4>1, <4>2 DEF Slack
      <4>3. CASE Alone
        <5>1. \A r \in Session \ {s} : pc[r] = "idle"
          BY <2>4, <4>3 DEF AloneInv, CoveredNow
        <5>2. \A r \in Session \ {s} : ~ByWindow(r)'
          BY <1>1, <2>1, <5>1 DEF CallIsGood, ByWindow, NoCall
        <5>3. Passing(w.id)' \subseteq {s}
          BY <5>2 DEF Passing
        <5>4. IsFiniteSet({s}) /\ Cardinality({s}) = 1
          BY FS_Singleton
        <5>5. Passing(w.id)' \in SUBSET {s}
          BY <5>3
        <5>6. Cardinality(Passing(w.id)') <= 1
          BY <5>4, <5>5, FS_Subset
        <5> QED BY <4>1, <4>3, <5>6 DEF Slack
      <4> QED BY <4>2, <4>3
    <3>5. Out' \subseteq Out \cup {call'[s]}
      BY <2>1, <3>1 DEF Out
    <3>6. call'[s] \in Out'
      BY <3>1 DEF Out
    <3>7. \A i : PassedBy(i)' = PassedBy(i)
      BY <3>1 DEF PassedBy
    <3>8. \A i : i # w.id => Passing(i)' = Passing(i)
      BY <2>1, <3>1 DEF Passing
    <3>9. ASSUME NEW x \in Out'
          PROVE  Cardinality(PassedBy(x.win)') + Cardinality(Passing(x.win)')
                   <= x.plan + Slack
      <4>1. CASE x.win = w.id
        <5>1. x.plan = w.sends
          BY <3>1, <3>6, <4>1 DEF AgreeInv
        <5>2. Cardinality(PassedBy(w.id)) \in Nat
          BY FiniteParts
        <5>3. Cardinality(PassedBy(w.id)') + Cardinality(Passing(w.id)')
                <= w.sends + Slack
          BY <1>2, <3>1, <3>2, <3>4, <3>7, <5>2
        <5> QED BY <4>1, <5>1, <5>3
      <4>2. CASE x.win # w.id
        <5>1. x \in Out
          BY <3>1, <3>5, <4>2
        <5> QED BY <3>7, <3>8, <4>2, <5>1 DEF CountInv
      <4> QED BY <4>1, <4>2
    <3> QED BY <1>2, <3>9 DEF CountInv
  <2> QED BY <1>1, <1>4, <2>2, <2>3, <2>4, CallChanges
<1> QED BY <1>3, <1>4, WhoActs
-----------------------------------------------------------------------------
SendsInv == LoggedInv /\ PlanInv

LEMMA SendsBegin == Init => SendsInv
<1> SUFFICES ASSUME Init PROVE SendsInv
  OBVIOUS
<1>1. LoggedInv
  BY LoggedBegins
<1>2. Windows = {}
  BY DEF Init, Windows
<1>3. Out = {}
  BY DEF Init, Out, ByWindow, NoCall
<1>4. TimeInv
  BY <1>2 DEF Init, TimeInv
<1>5. AgreeInv /\ CountInv
  BY <1>2, <1>3 DEF AgreeInv, CountInv
<1>6. LineInv /\ AloneInv
  BY DEF Init, LineInv, AloneInv
<1> QED BY <1>1, <1>4, <1>5, <1>6 DEF SendsInv, PlanInv

LEMMA SendsStep == SendsInv /\ [Next]_vars => SendsInv'
<1> SUFFICES ASSUME SendsInv, [Next]_vars PROVE SendsInv'
  OBVIOUS
<1>1. LoggedInv /\ LoggedInv'
  BY LoggedStep DEF SendsInv
<1>2. AgreeInv' /\ TimeInv' /\ LineInv' /\ AloneInv'
  BY <1>1, AgreeStep, TimeStep, LineStep, AloneStep
     DEF SendsInv, PlanInv, LoggedInv
<1>3. CountInv'
  BY <1>1, <1>2, CountStep DEF SendsInv, PlanInv, LoggedInv
<1> QED BY <1>1, <1>2, <1>3 DEF SendsInv, PlanInv

\* What the count says of the calls that were let through.
LEMMA PlanIsMet ==
  ASSUME SendsInv, NEW p \in passed, p.by = "window"
  PROVE  Beside(p) <= p.plan + Slack
<1>1. p \in Out
  BY DEF Out
<1>2. Cardinality(PassedBy(p.win)) + Cardinality(Passing(p.win))
        <= p.plan + Slack
  BY <1>1 DEF SendsInv, PlanInv, CountInv
<1>3. /\ Cardinality(PassedBy(p.win)) \in Nat
      /\ Cardinality(Passing(p.win)) \in Nat
      /\ Slack \in Int /\ p.plan \in Nat
  BY <1>1, FiniteParts, PlansTyped DEF SendsInv, LoggedInv
<1>4. Beside(p) = Cardinality(PassedBy(p.win))
  BY DEF Beside, PassedBy
<1> QED BY <1>2, <1>3, <1>4

\* Where no two calls are under way at once, a window lets through no more
\* calls than it was opened for, before and after midnight.
THEOREM SendsAsPlanned == Alone /\ Spec => []PlannedSends
<1>1. Spec => []SendsInv
  BY SendsBegin, SendsStep, PTL DEF Spec
<1>2. Alone /\ SendsInv => PlannedSends
  <2> SUFFICES ASSUME Alone, SendsInv, NEW p \in passed, p.by = "window"
               PROVE  Beside(p) <= p.plan
    BY DEF PlannedSends
  <2>1. p.plan \in Nat
    BY DEF SendsInv, LoggedInv, IdInv
  <2> QED BY <2>1, PlanIsMet DEF Slack
<1>3. CASE Alone
  BY <1>1, <1>2, <1>3, PTL
<1>4. CASE ~Alone
  BY <1>4
<1> QED BY <1>3, <1>4

\* However the calls overlap, each other session slips at most one call past
\* the plan.
THEOREM SendsOvershoot == Spec => []OvershootBounded
<1>1. Spec => []SendsInv
  BY SendsBegin, SendsStep, PTL DEF Spec
<1>2. SendsInv => OvershootBounded
  <2> SUFFICES ASSUME SendsInv, NEW p \in passed, p.by = "window"
               PROVE  Beside(p) <= p.plan + Cardinality(Session) - 1
    BY DEF OvershootBounded
  <2>1. p.plan \in Nat /\ Beside(p) <= p.plan + Slack
    BY PlanIsMet DEF SendsInv, LoggedInv, IdInv
  <2>2. Cardinality(Session) \in Nat
    BY FiniteParts DEF SendsInv, LoggedInv
  <2>3. Cardinality(PassedBy(p.win)) \in Nat
    BY FiniteParts DEF SendsInv, LoggedInv
  <2>4. Beside(p) \in Nat
    BY <2>3 DEF Beside, PassedBy
  <2>5. Cardinality(Session) # 0
    <3>1. Session # {} /\ IsFiniteSet(Session)
      BY SendsAssumption DEF SendsInv, LoggedInv, IdInv
    <3> QED BY <3>1, FS_EmptySet
  <2> QED BY <2>1, <2>2, <2>4, <2>5 DEF Slack
<1> QED BY <1>1, <1>2, PTL
-----------------------------------------------------------------------------
(***************************************************************************)
(* The send window implements SendPromise.  What is added to SendsInv is   *)
(* where the windows come from, and that every scope of a call was covered *)
(* by one of them while the call was checked.                              *)
(***************************************************************************)

GrantInv ==
  /\ \A w \in granted : w.id <= opens
  /\ Windows \subseteq granted

\* A window open when the call began, or opened since, covers the scope.
UnderOne(s, scope) ==
  \E w \in granted : scope \in w.scopes /\ call[s].began < w.until

\* A call that a window covers was covered scope by scope, and counts against
\* one of the windows.
UnderGrant(s) ==
  /\ pc[s] \in Reading =>
       \A scope \in call[s].reach \ left[s] : UnderOne(s, scope)
  /\ ByWindow(s) =>
       /\ \A scope \in call[s].reach : UnderOne(s, scope)
       /\ \E w \in granted : /\ w.id = call[s].win /\ w.sends = call[s].plan
                             /\ call[s].began < w.until

UnderInv == \A s \in Session : UnderGrant(s)

KeptInv == SendsInv /\ GrantInv /\ UnderInv

LEMMA GrantStep ==
  ASSUME TypeOK, GrantInv, [Next]_vars
  PROVE  GrantInv'
<1>1. opens \in Nat /\ granted \subseteq Window
  BY SendsAssumption DEF TypeOK
<1>2. CASE UNCHANGED vars \/ Tick \/ WriteWindow \/ Close
  <2>1. /\ UNCHANGED <<callVars, opens, granted>>
        /\ file' \in {file, None, opening} /\ opening' \in {opening, None}
    BY <1>2 DEF vars, windowVars, Tick, WriteWindow, Close
  <2>2. Windows' \subseteq Windows
    BY <2>1 DEF Windows, callVars
  <2> QED BY <2>1, <2>2 DEF GrantInv
<1>3. ASSUME NEW scopes \in SUBSET Scope, NEW sends \in 1..MaxSends,
             NEW hours \in 1..MaxHours, Open(scopes, sends, hours)
      PROVE  GrantInv'
  <2>1. /\ UNCHANGED callVars /\ opens' = opens + 1 /\ file' = file
        /\ granted' = granted \cup {opening'} /\ opening'.id = opens + 1
    BY <1>3, NewWindowFields DEF Open
  <2>2. Windows' \subseteq Windows \cup {opening'}
    BY <2>1 DEF Windows, callVars
  <2>3. \A w \in granted : w.id \in Nat
    BY <1>1 DEF Window
  <2> QED BY <1>1, <2>1, <2>2, <2>3 DEF GrantInv
<1>4. ASSUME NEW s \in Session, SessionActs(s)
      PROVE  GrantInv'
  <2>1. Windows' \subseteq Windows /\ UNCHANGED <<opens, granted>>
    BY <1>4, WindowsStay, OthersWait, GrantsStay
  <2> QED BY <2>1 DEF GrantInv
<1> QED BY <1>2, <1>3, <1>4, WhoActs DEF PrincipalActs

\* What covers a call goes on covering it.
LEMMA UnderStays ==
  ASSUME NEW s \in Session, UnderGrant(s), granted \subseteq granted',
         call'[s] = call[s],
         pc'[s] \in Reading => pc[s] \in Reading /\ left'[s] = left[s]
  PROVE  UnderGrant(s)'
<1>1. \A scope : UnderOne(s, scope) => UnderOne(s, scope)'
  BY DEF UnderOne
<1>2. ByWindow(s)' = ByWindow(s)
  BY DEF ByWindow
<1> QED BY <1>1, <1>2 DEF UnderGrant

LEMMA ActsUnder ==
  ASSUME TypeOK, SeenInv, TimeInv, GrantInv, NEW s \in Session, CallIsGood(s),
         UnderGrant(s), SessionActs(s)
  PROVE  UnderGrant(s)'
<1>1. /\ pc \in [Session -> Steps] /\ call \in [Session -> Call]
      /\ left \in [Session -> SUBSET Scope]
  BY DEF TypeOK, Call
<1>2. granted' = granted
  BY GrantsStay
<1>3. CASE Idle(s)
  <2>1. pc'[s] = "idle" /\ call'[s].by = "nobody"
    BY <1>3, IdleGood DEF NoCall
  <2> QED BY <2>1 DEF UnderGrant, Reading, ByWindow
<1>4. ASSUME NEW reach \in Reaches, Begin(s, reach)
      PROVE  UnderGrant(s)'
  <2>1. /\ call'[s].reach = reach /\ call'[s].by = "nobody"
        /\ left'[s] = reach
    BY <1>1, <1>4, NewCall DEF Begin
  <2> QED BY <2>1 DEF UnderGrant, ByWindow
<1>5. CASE ReadWindow(s) \/ NotCovered(s)
  <2>1. UNCHANGED <<call, left>> /\ pc[s] \in Reading
    BY <1>5 DEF ReadWindow, NotCovered, Reading
  <2> QED BY <1>2, <2>1, UnderStays
<1>6. CASE Approved(s)
  <2>1. call'[s] = [call[s] EXCEPT !.by = "approval"] /\ pc'[s] = "stamp"
    BY <1>1, <1>6 DEF Approved, GoTo
  <2>2. call'[s].by = "approval"
    BY <2>1, ApprovedCall
  <2> QED BY <2>1, <2>2 DEF UnderGrant, ByWindow, Reading
<1>7. ASSUME NEW scope \in Scope, Covered(s, scope)
      PROVE  UnderGrant(s)'
  <2>1. /\ pc[s] = "count" /\ scope \in left[s] /\ scope \in seen[s].scopes
        /\ seen[s] \in granted /\ call[s].began < seen[s].until
    <3>1. pc[s] = "count" /\ scope \in left[s] /\ scope \in seen[s].scopes
      BY <1>7 DEF Covered, Covers
    <3>2. seen[s] # None /\ call[s].began < seen[s].until
      BY <3>1 DEF SeenInv, TimeInv
    <3> QED BY <3>1, <3>2 DEF GrantInv, Windows
  <2>2. \A x \in (call[s].reach \ left[s]) \cup {scope} : UnderOne(s, x)
    BY <2>1 DEF UnderGrant, UnderOne, Reading
  <2>3. CASE left[s] = {scope}
    <3>1. /\ call'[s] = [call[s] EXCEPT !.by = "window", !.win = seen[s].id,
                                        !.plan = seen[s].sends]
          /\ pc'[s] = "stamp"
      BY <1>1, <1>7, <2>3 DEF Covered, GoTo
    <3>2. /\ call'[s].reach = call[s].reach /\ call'[s].began = call[s].began
          /\ call'[s].win = seen[s].id /\ call'[s].plan = seen[s].sends
      BY <2>1, <3>1, CoveredCall
    <3>3. \A x \in call'[s].reach : UnderOne(s, x)'
      BY <1>2, <2>2, <2>3, <3>2 DEF UnderOne
    <3>4. \E w \in granted' : /\ w.id = call'[s].win /\ w.sends = call'[s].plan
                              /\ call'[s].began < w.until
      BY <1>2, <2>1, <3>2
    <3> QED BY <3>1, <3>3, <3>4 DEF UnderGrant, Reading
  <2>4. CASE left[s] # {scope}
    <3>1. call' = call /\ left'[s] = left[s] \ {scope}
      BY <1>1, <1>7, <2>4 DEF Covered
    <3>2. \A x \in call'[s].reach \ left'[s] : UnderOne(s, x)'
      BY <1>2, <2>2, <3>1 DEF UnderOne
    <3>3. ~ByWindow(s)'
      BY <2>1, <3>1 DEF CallIsGood, Reading, ByWindow
    <3> QED BY <3>2, <3>3 DEF UnderGrant
  <2> QED BY <2>3, <2>4
<1>8. CASE \/ Stamp(s) \/ Settle(s) \/ (Tally(s) /\ ~Idle(s))
           \/ \E scope \in Scope : AppendLine(s, scope) /\ ~Idle(s)
  <2>1. UNCHANGED call /\ pc'[s] \notin Reading
    BY <1>1, <1>8
       DEF Stamp, Settle, Tally, AppendLine, MoreToLog, GoTo, Reading
  <2> QED BY <1>2, <2>1, UnderStays
<1>9. CASE Refused(s) \/ Kill(s) \/ NothingOpen(s) \/ Unlink(s)
  BY <1>3, <1>9 DEF Refused, Kill, NothingOpen, Unlink
<1> QED BY <1>3, <1>4, <1>5, <1>6, <1>7, <1>8, <1>9 DEF SessionActs, Step

LEMMA UnderStep ==
  ASSUME LoggedInv, TimeInv, GrantInv, UnderInv, [Next]_vars
  PROVE  UnderInv'
<1>1. TypeOK /\ SeenInv /\ \A s \in Session : CallIsGood(s)
  BY EachIsGood DEF LoggedInv
<1>2. CASE UNCHANGED vars \/ Tick \/ PrincipalActs
  <2>1. UNCHANGED callVars /\ granted \subseteq granted'
    BY <1>2, OthersUntouched
       DEF vars, windowVars, Tick, PrincipalActs, WriteWindow, Close, Open
  <2> QED BY <2>1, UnderStays DEF UnderInv, callVars
<1>3. ASSUME NEW s \in Session, SessionActs(s)
      PROVE  UnderInv'
  <2>1. UnderGrant(s)'
    BY <1>1, <1>3, ActsUnder DEF UnderInv
  <2>2. granted' = granted /\ \A r \in Session \ {s} : Waits(r)
    BY <1>1, <1>3, GrantsStay, OthersWait
  <2>3. \A r \in Session \ {s} : UnderGrant(r)'
    BY <2>2, UnderStays DEF UnderInv, Waits
  <2> QED BY <2>1, <2>3 DEF UnderInv
<1> QED BY <1>2, <1>3, WhoActs

\* A call that goes out under a window is one the principal granted.
LEMMA PassesUnder ==
  ASSUME KeptInv, NEW s \in Session, pc[s] # "idle", ByWindow(s),
         NEW p, p.reach = call[s].reach, p.win = call[s].win
  PROVE  Promise!UnderWindows(p)
<1>1. /\ TypeOK /\ IdInv /\ CountInv /\ TimeInv /\ UnderGrant(s)
      /\ granted \subseteq Window
  BY DEF KeptInv, SendsInv, LoggedInv, PlanInv, UnderInv, TypeOK
<1>2. /\ now \in Nat /\ call[s].began \in Nat
      /\ now <= call[s].began + 1
      /\ \A w \in granted : w.until \in Nat
  BY <1>1, WindowFields, SendsAssumption DEF TypeOK, Call, TimeInv, Window
<1>3. \A w \in granted : call[s].began < w.until => Promise!WasOpen(w)
  BY <1>2 DEF Promise!WasOpen
<1>4. PICK w \in granted : /\ w.id = call[s].win /\ w.sends = call[s].plan
                           /\ call[s].began < w.until
  BY <1>1 DEF UnderGrant
<1>5. Cardinality(Promise!LetOut(w)) < w.sends + Slack
  <2>1. Promise!LetOut(w) = PassedBy(call[s].win)
    BY <1>4 DEF Promise!LetOut, PassedBy
  <2>2. Cardinality(PassedBy(call[s].win)) + Cardinality(Passing(call[s].win))
          <= w.sends + Slack
    BY <1>1, <1>4 DEF CountInv, Out
  <2>3. s \in Passing(call[s].win)
    BY DEF Passing
  <2>4. Cardinality(Passing(call[s].win)) # 0
    BY <1>1, <2>3, FiniteParts, FS_EmptySet
  <2>5. /\ Cardinality(PassedBy(call[s].win)) \in Nat
        /\ Cardinality(Passing(call[s].win)) \in Nat
        /\ Slack \in Int /\ w.sends \in Nat
    BY <1>1, FiniteParts, PlansTyped, SendsAssumption DEF Window
  <2> QED BY <2>1, <2>2, <2>4, <2>5
<1>6. \A scope \in p.reach :
        \E v \in granted : scope \in v.scopes /\ Promise!WasOpen(v)
  BY <1>1, <1>3 DEF UnderGrant, UnderOne
<1>7. w.id = p.win /\ Promise!WasOpen(w)
  BY <1>3, <1>4
<1>8. Promise!Cardinality(Promise!LetOut(w)) = Cardinality(Promise!LetOut(w))
  BY DEF Promise!Cardinality, Cardinality
<1> QED BY <1>5, <1>6, <1>7, <1>8 DEF Promise!UnderWindows

LEMMA SendPromiseStep ==
  ASSUME KeptInv, [Next]_vars
  PROVE  [Promise!Next]_(Promise!promise)
<1> DEFINE Goal == [Promise!Next]_(Promise!promise)
<1>1. TypeOK /\ IdInv /\ \A s \in Session : CallIsGood(s)
  BY EachIsGood DEF KeptInv, SendsInv, LoggedInv
<1>2. CASE UNCHANGED vars \/ WriteWindow \/ Close
  BY <1>2 DEF vars, windowVars, WriteWindow, Close, Promise!promise
<1>3. CASE Tick
  BY <1>3 DEF Tick, windowVars, Promise!Tick, Promise!Next
<1>4. ASSUME NEW scopes \in SUBSET Scope, NEW sends \in 1..MaxSends,
             NEW hours \in 1..MaxHours, Open(scopes, sends, hours)
      PROVE  Goal
  <2>1. /\ UNCHANGED <<now, ledger, passed>> /\ opens < MaxOpens
        /\ opening' = NewWindow(scopes, sends, hours)
        /\ granted' = granted \cup {opening'}
    BY <1>4 DEF Open
  <2>2. opening'.id = opens + 1 /\ opening'.until = now + hours
    BY <1>1, <2>1, NewWindowFields
  <2>3. \A v \in granted : v.id \in Nat /\ v.id <= opens
    BY <1>1 DEF KeptInv, GrantInv, TypeOK, Window
  <2>4. now \in Nat /\ opens \in Nat /\ hours \in Nat \ {0}
    BY <1>1, SendsAssumption DEF TypeOK
  <2>5. Promise!Grant(opening') /\ opening' \in granted'
    BY <2>1, <2>2, <2>3, <2>4 DEF Promise!Grant
  <2> QED BY <2>5 DEF Promise!Next
<1>5. ASSUME NEW s \in Session, SessionActs(s)
      PROVE  Goal
  <2>1. UNCHANGED <<now, granted>>
    BY <1>1, <1>5, OthersWait, GrantsStay
  <2>2. CASE passed' = passed
    <3>1. CASE ledger' = ledger
      BY <2>1, <2>2, <3>1 DEF Promise!promise
    <3>2. ASSUME NEW l, ledger' = ledger \cup {l}
          PROVE  Goal
      BY <2>1, <2>2, <3>2 DEF Promise!Write, Promise!Next
    <3> HIDE DEF Goal
    <3> QED BY <1>1, <1>5, <3>1, <3>2, LedgerGrows
  <2>3. CASE passed' # passed
    <3>1. PICK p : /\ passed' = passed \cup {p}
                   /\ p.id = call[s].id /\ p.reach = call[s].reach
                   /\ p.by = call[s].by /\ p.win = call[s].win
                   /\ \A x \in p.reach : Logged(p, x)'
      BY <1>1, <1>5, <2>3, Passes
    <3>2. pc[s] # "idle" /\ call[s].by \in {"window", "approval"}
      BY <1>1, <1>5, <2>3, Passes DEF CallIsGood, Closing, Logging
    <3>3. \A d \in passed : d.id # p.id
      BY <1>1, <3>1 DEF IdInv
    <3>4. p.by = "approval" \/ (p.by = "window" /\ Promise!UnderWindows(p))
      BY <3>1, <3>2, PassesUnder DEF ByWindow
    <3>5. ledger \subseteq ledger' /\ \A l \in ledger' \ ledger : l.call = p.id
      BY <1>1, <1>5, <3>1, LedgerGrows
    <3>6. \A scope \in p.reach :
            \E l \in ledger' : l.call = p.id /\ l.scope = scope /\ l.by = p.by
      BY <3>1 DEF Logged
    <3>7. Promise!Pass(p) /\ p \in passed'
      BY <2>1, <3>1, <3>3, <3>4, <3>5, <3>6 DEF Promise!Pass
    <3> QED BY <3>7 DEF Promise!Next
  <2> QED BY <2>2, <2>3
<1> QED BY <1>2, <1>3, <1>4, <1>5, WhoActs DEF PrincipalActs

\* The send window implements SendPromise, however calls overlap, windows open
\* and close between their steps, hours pass and hooks are killed.
THEOREM SendsKeepPromise == Spec => PromiseKept
<1>1. Init => KeptInv
  <2> SUFFICES ASSUME Init PROVE KeptInv
    OBVIOUS
  <2>1. GrantInv
    BY DEF Init, GrantInv, Windows
  <2>2. UnderInv
    BY DEF Init, UnderInv, UnderGrant, Reading, ByWindow, NoCall
  <2> QED BY <2>1, <2>2, SendsBegin DEF KeptInv
<1>2. KeptInv /\ [Next]_vars => KeptInv'
  BY SendsStep, GrantStep, UnderStep
     DEF KeptInv, SendsInv, LoggedInv, PlanInv
<1>3. Init => Promise!Init
  BY DEF Init, Promise!Init
<1>4. KeptInv /\ [Next]_vars => [Promise!Next]_(Promise!promise)
  BY SendPromiseStep
<1> QED BY <1>1, <1>2, <1>3, <1>4, PTL DEF Spec, PromiseKept, Promise!Spec
=============================================================================
