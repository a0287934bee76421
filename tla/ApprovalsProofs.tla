--------------------------- MODULE ApprovalsProofs ---------------------------
(***************************************************************************)
(* Proofs about Approvals.tla, for any number of sessions, subjects and    *)
(* codes and any bounds: the types, that every call that passes was typed  *)
(* for in its own session, and that a subject never passes more often than *)
(* prompts named a code of it.                                             *)
(***************************************************************************)
EXTENDS Approvals, FiniteSetTheorems, TLAPS

\* Code c was drawn for subject x, no later than t.
Drawn(c, x, t) == c \in Code /\ shownFor[c] = x /\ issuedAt[c] <= t

\* Every file names a code together with the subject it was drawn for, and a
\* time since when it can have been asked for.
DiskInv ==
  /\ \A c \in Code : pending[c] # None =>
       Drawn(c, pending[c].subject, pending[c].at)
  /\ \A x \in Subject : grant[x] # None =>
       Drawn(grant[x].code, x, grant[x].asked)
  /\ \A x \in Subject : spent[x] # None =>
       Drawn(spent[x].code, x, spent[x].asked)

\* So does what a call or a hook has in memory.
CallInv ==
  \A s \in Session :
    /\ pc[s] # "idle" => subject[s] \in Subject
    /\ pc[s] = "file" => Drawn(code[s], subject[s], now)
    /\ pc[s] = "judge" /\ data[s] # None =>
         Drawn(data[s].code, subject[s], data[s].asked)

HookInv ==
  \A s \in Session :
    /\ hook[s] # "idle" => named[s] \in Code
    /\ hook[s] = "grant" => /\ request[s] \in Request
                            /\ Drawn(named[s], request[s].subject, request[s].at)

\* No code was drawn in the future.
PastInv == \A c \in Code : issuedAt[c] <= now

BindInv == TypeOK /\ PastInv /\ DiskInv /\ CallInv /\ HookInv

\* A code stays with the subject it was drawn for.
LEMMA DrawnStays ==
  ASSUME NEW c, NEW x \in Subject, NEW t \in Nat, Drawn(c, x, t),
         \/ UNCHANGED <<shownFor, issuedAt>>
         \/ \E s \in Caller, d \in Code : TypeOK /\ Pick(s, d)
  PROVE  Drawn(c, x, t)'
<1>1. CASE UNCHANGED <<shownFor, issuedAt>>
  BY <1>1 DEF Drawn
<1>2. ASSUME NEW s \in Caller, NEW d \in Code, TypeOK, Pick(s, d)
      PROVE  Drawn(c, x, t)'
  <2>1. \/ UNCHANGED <<shownFor, issuedAt>>
        \/ /\ shownFor[d] = None
           /\ \A e \in Code \ {d} : /\ shownFor'[e] = shownFor[e]
                                    /\ issuedAt'[e] = issuedAt[e]
    BY <1>2 DEF Pick, TypeOK
  <2>2. c # d \/ UNCHANGED <<shownFor, issuedAt>>
    BY <2>1, ApprovalsAssumption DEF Drawn
  <2> QED BY <2>1, <2>2 DEF Drawn
<1> QED BY <1>1, <1>2

\* Every step keeps the types and the bindings: one step per action of Next.
LEMMA BindStep == BindInv /\ [Next]_vars => BindInv'
<1> SUFFICES ASSUME BindInv, [Next]_vars PROVE BindInv'
  OBVIOUS
<1> USE ApprovalsAssumption DEF BindInv
<1> USE DEF TypeOK, PastInv, Request, Grant, Time
<1>1. CASE Tick
  BY <1>1 DEF Tick, disk, callVars, hookVars, history, DiskInv, CallInv,
     HookInv, Drawn
<1>2. ASSUME NEW s \in Caller, NEW x \in Subject, Call(s, x) PROVE BindInv'
  BY <1>2 DEF Call, disk, hookVars, history, DiskInv, CallInv, HookInv, Drawn
<1>3. ASSUME NEW s \in Caller, NEW x \in Subject, Spend(s, x) PROVE BindInv'
  BY <1>3 DEF Spend, hookVars, history, DiskInv, CallInv, HookInv, Drawn
<1>4. ASSUME NEW s \in Caller, NothingToSpend(s) PROVE BindInv'
  BY <1>4 DEF NothingToSpend, disk, hookVars, history, DiskInv, CallInv,
     HookInv, Drawn
<1>5. ASSUME NEW s \in Caller, ReadSpent(s) PROVE BindInv'
  BY <1>5 DEF ReadSpent, disk, hookVars, history, DiskInv, CallInv, HookInv,
     Drawn
<1>6. ASSUME NEW s \in Caller, NEW x \in Subject, LetThrough(s, x)
      PROVE  BindInv'
  BY <1>6 DEF LetThrough, EndCall, hookVars, DiskInv, CallInv, HookInv, Drawn
<1>7. ASSUME NEW s \in Caller, NEW x \in Subject, NotBacked(s, x)
      PROVE  BindInv'
  BY <1>7 DEF NotBacked, hookVars, history, DiskInv, CallInv, HookInv, Drawn
<1>8. ASSUME NEW s \in Caller, NEW c \in Code, Pick(s, c) PROVE BindInv'
  <2>1. /\ pending' \in [Code -> Request \cup {None}]
        /\ grant' \in [Subject -> Grant \cup {None}]
        /\ \A d \in Code : pending'[d] # None => pending'[d] = pending[d]
        /\ \A x \in Subject : grant'[x] # None => grant'[x] = grant[x]
    BY <1>8 DEF Pick, Kept
  <2>2. /\ PastInv'
        /\ shownFor' \in [Code -> Subject \cup {None}]
        /\ issuedAt' \in [Code -> Time]
        /\ Drawn(c, subject[s], now)'
    <3>1. CASE \E d \in Code : pending'[d] # None
                              /\ pending'[d].subject = subject[s]
      <4>1. /\ UNCHANGED <<shownFor, issuedAt, now, subject>>
            /\ pending'[c] # None /\ pending'[c].subject = subject[s]
        BY <1>8, <3>1 DEF Pick
      <4>2. shownFor[c] = subject[s]
        BY <2>1, <4>1 DEF DiskInv, Drawn
      <4> QED BY <4>1, <4>2 DEF Drawn
    <3>2. CASE ~\E d \in Code : pending'[d] # None
                               /\ pending'[d].subject = subject[s]
      <4>1. /\ shownFor' = [shownFor EXCEPT ![c] = subject[s]]
            /\ issuedAt' = [issuedAt EXCEPT ![c] = now]
            /\ UNCHANGED <<now, subject>>
        BY <1>8, <3>2 DEF Pick
      <4>2. subject[s] \in Subject
        BY <1>8 DEF Pick, CallInv
      <4> QED BY <4>1, <4>2 DEF Drawn
    <3> QED BY <3>1, <3>2
  <2>3. /\ UNCHANGED <<now, spent, subject, data, hookVars>>
        /\ code' = [code EXCEPT ![s] = c] /\ pc' = [pc EXCEPT ![s] = "file"]
        /\ UNCHANGED <<typedAt, prompts, passed>>
    BY <1>8 DEF Pick
  <2>4. TypeOK'
    BY <2>1, <2>2, <2>3 DEF hookVars
  <2>5. ASSUME NEW d, NEW x \in Subject, NEW t \in Nat, Drawn(d, x, t)
        PROVE  Drawn(d, x, t)'
    BY <1>8, <2>5, DrawnStays
  <2>6. DiskInv'
    BY <2>1, <2>3, <2>5 DEF DiskInv
  <2>7. CallInv'
    <3> SUFFICES ASSUME NEW a \in Session
                 PROVE  (/\ pc[a] # "idle" => subject[a] \in Subject
                         /\ pc[a] = "file" => Drawn(code[a], subject[a], now)
                         /\ pc[a] = "judge" /\ data[a] # None =>
                              Drawn(data[a].code, subject[a], data[a].asked))'
      BY DEF CallInv
    <3>1. CASE a = s
      BY <1>8, <2>2, <2>3, <3>1 DEF CallInv, Pick
    <3>2. CASE a # s
      <4>1. UNCHANGED <<pc[a], subject[a], code[a], data[a], now>>
        BY <2>3, <3>2
      <4>2. data[a] # None => data[a].asked \in Nat
        OBVIOUS
      <4> QED BY <2>5, <4>1, <4>2 DEF CallInv
    <3> QED BY <3>1, <3>2
  <2>8. HookInv'
    BY <2>3, <2>5 DEF HookInv, hookVars
  <2> QED BY <2>2, <2>4, <2>6, <2>7, <2>8
<1>9. ASSUME NEW s \in Caller, File(s) PROVE BindInv'
  BY <1>9 DEF File, EndCall, hookVars, history, DiskInv, CallInv, HookInv, Drawn
<1>10. ASSUME NEW s \in Prompted, NEW c \in Code, NEW t \in BOOLEAN,
              Prompt(s, c, t)
       PROVE  BindInv'
  BY <1>10 DEF Prompt, disk, callVars, history, DiskInv, CallInv, HookInv, Drawn
<1>11. ASSUME NEW s \in Prompted, NEW c \in Code, ReadRequest(s, c)
       PROVE  BindInv'
  BY <1>11 DEF ReadRequest, disk, callVars, DiskInv, CallInv, HookInv, Drawn
<1>12. ASSUME NEW s \in Prompted, NoRequest(s) PROVE BindInv'
  BY <1>12 DEF NoRequest, EndHook, disk, callVars, history, DiskInv, CallInv,
     HookInv, Drawn
<1>13. ASSUME NEW s \in Prompted, NEW x \in Subject, WriteGrant(s, x)
       PROVE  BindInv'
  <2>1. /\ hook[s] = "grant" /\ request[s].subject = x
        /\ grant' = [grant EXCEPT ![x] = [code |-> named[s],
                                          asked |-> request[s].at, at |-> now]]
        /\ hook' = [hook EXCEPT ![s] = "unlink"]
        /\ UNCHANGED <<now, pending, spent, callVars, named, request, typedAt,
                       history>>
    BY <1>13 DEF WriteGrant
  <2>2. Drawn(named[s], x, request[s].at) /\ request[s] \in Request
    BY <2>1 DEF HookInv
  <2>3. TypeOK'
    BY <2>1, <2>2 DEF callVars, history, Drawn
  <2>4. DiskInv'
    BY <2>1, <2>2 DEF DiskInv, Drawn, history
  <2>5. PastInv' /\ CallInv' /\ HookInv'
    BY <2>1 DEF CallInv, HookInv, Drawn, callVars, history
  <2> QED BY <2>3, <2>4, <2>5
<1>14. ASSUME NEW s \in Prompted, RemoveRequest(s) PROVE BindInv'
  BY <1>14 DEF RemoveRequest, EndHook, callVars, history, DiskInv, CallInv,
     HookInv, Drawn
<1>15. ASSUME NEW s \in Session, Crash(s) PROVE BindInv'
  <2>1. CASE EndCall(s) /\ UNCHANGED <<now, disk, hookVars, typedAt, history>>
    BY <2>1 DEF EndCall, disk, hookVars, history, DiskInv, CallInv, HookInv,
       Drawn
  <2>2. CASE EndHook(s) /\ UNCHANGED <<now, disk, callVars, typedAt, history>>
    BY <2>2 DEF EndHook, disk, callVars, history, DiskInv, CallInv, HookInv,
       Drawn
  <2> QED BY <1>15, <2>1, <2>2 DEF Crash
<1>16. CASE UNCHANGED vars
  BY <1>16 DEF vars, disk, callVars, hookVars, history, DiskInv, CallInv,
     HookInv, Drawn
<1> QED
  BY SMTT(30), <1>1, <1>2, <1>3, <1>4, <1>5, <1>6, <1>7, <1>8, <1>9, <1>10, <1>11,
     <1>12, <1>13, <1>14, <1>15, <1>16 DEF Next, CallStep, HookStep

\* Every reachable state of the files, hooks and calls is well formed.
THEOREM ApprovalTypes == Spec => []TypeOK
<1>1. Init => BindInv
  BY ApprovalsAssumption DEF Init, BindInv, TypeOK, PastInv, DiskInv, CallInv,
     HookInv, Time
<1>2. BindInv => TypeOK
  BY DEF BindInv
<1> QED BY <1>1, <1>2, BindStep, PTL DEF Spec

\* A call goes through only on a code that was drawn for its own subject and
\* that the principal typed in its own session, after it was drawn and no
\* longer than the TTL ago.
THEOREM ApprovalBacked == Spec => OnlyBackedCallsPass
<1> DEFINE Good == \A x \in Subject : passed'[x] # passed[x] =>
                     \E s \in Session, c \in Code :
                       /\ subject[s] = x
                       /\ shownFor[c] = x
                       /\ typedAt[s][c] > issuedAt[c]
                       /\ now - typedAt[s][c] <= TTL
<1>1. Init => BindInv
  BY ApprovalsAssumption DEF Init, BindInv, TypeOK, PastInv, DiskInv, CallInv,
     HookInv, Time
<1>2. BindInv /\ [Next]_vars => [Good]_vars
  <2> SUFFICES ASSUME BindInv, Next PROVE Good
    BY DEF vars, history, Good
  <2>1. ASSUME NEW s \in Caller, NEW x \in Subject, LetThrough(s, x)
        PROVE  Good
    <3> DEFINE c == data[s].code
    <3>1. /\ passed' = [passed EXCEPT ![x] = @ + 1] /\ subject[s] = x
          /\ s \in Session /\ data[s] # None /\ pc[s] = "judge"
          /\ typedAt[s][c] > data[s].asked
          /\ typedAt[s][c] + TTL > now
      BY <2>1, ApprovalsAssumption DEF LetThrough, Backed
    <3>2. Drawn(c, x, data[s].asked)
      BY <3>1 DEF BindInv, CallInv
    <3>3. /\ typedAt[s][c] \in Nat /\ now \in Nat /\ TTL \in Nat
          /\ issuedAt[c] \in Nat /\ data[s].asked \in Nat /\ c \in Code
      BY <3>1, <3>2, ApprovalsAssumption DEF BindInv, TypeOK, Time, Grant, Drawn
    <3>4. typedAt[s][c] > issuedAt[c] /\ now - typedAt[s][c] <= TTL
      BY <3>1, <3>2, <3>3 DEF Drawn
    <3> HIDE DEF c
    <3> QED BY <3>1, <3>2, <3>3, <3>4 DEF Drawn, BindInv, TypeOK
  <2>2. CASE UNCHANGED passed
    BY <2>2
  <2> QED
    BY <2>1, <2>2 DEF Next, CallStep, HookStep, Tick, Call, Spend,
       NothingToSpend, ReadSpent, NotBacked, Pick, File, Prompt, ReadRequest,
       NoRequest, WriteGrant, RemoveRequest, Crash, history
<1>3. Spec => [][Good]_vars
  BY <1>1, <1>2, BindStep, PTL DEF Spec
<1> QED BY <1>3 DEF OnlyBackedCallsPass
-----------------------------------------------------------------------------
(***************************************************************************)
(* One call per prompt.  A prompt that names a code of x is worth one      *)
(* call.  On its way it is a hook about to write the grant, the grant, a   *)
(* call that has moved the grant aside, and at last a call let through;    *)
(* nothing on this way doubles it.                                         *)
(***************************************************************************)
Granting(x) == {s \in Session : hook[s] = "grant" /\ request[s].subject = x}

Live(x) == IF grant[x] # None THEN 1 ELSE 0

Taken(x) == {s \in Session : pc[s] \in {"read", "judge"} /\ subject[s] = x}

Worth(x) ==
  Cardinality(Granting(x)) + Live(x) + Cardinality(Taken(x)) + passed[x]

TokenInv == \A x \in Subject : Worth(x) <= prompts[x]

LEMMA Finite ==
  \A x : /\ IsFiniteSet(Granting(x)) /\ IsFiniteSet(Taken(x))
         /\ IsFiniteSet(Granting(x)') /\ IsFiniteSet(Taken(x)')
         /\ Cardinality(Granting(x)) \in Nat /\ Cardinality(Taken(x)) \in Nat
         /\ Cardinality(Granting(x)') \in Nat /\ Cardinality(Taken(x)') \in Nat
<1>1. \A x : /\ Granting(x) \subseteq Session /\ Taken(x) \subseteq Session
             /\ Granting(x)' \subseteq Session /\ Taken(x)' \subseteq Session
  BY DEF Granting, Taken
<1> QED BY <1>1, FS_Subset, FS_CardinalityType, ApprovalsAssumption

\* A session joins or leaves a set of sessions.
LEMMA Joins ==
  ASSUME NEW S, NEW T, NEW s, IsFiniteSet(S), s \notin S, T = S \cup {s}
  PROVE  Cardinality(T) = Cardinality(S) + 1
BY FS_AddElement

LEMMA Leaves ==
  ASSUME NEW S, NEW T, NEW s, IsFiniteSet(S), s \in S, T = S \ {s}
  PROVE  Cardinality(T) = Cardinality(S) - 1
BY FS_RemoveElement

LEMMA TokenStep == BindInv /\ TokenInv /\ [Next]_vars => TokenInv'
<1> SUFFICES ASSUME BindInv, TokenInv, [Next]_vars, NEW y \in Subject
             PROVE  (Worth(y) <= prompts[y])'
  BY DEF TokenInv
<1> USE ApprovalsAssumption
<1>0. /\ Worth(y) <= prompts[y]
      /\ passed[y] \in Nat /\ prompts[y] \in Nat
      /\ Live(y) \in {0, 1} /\ Live(y)' \in {0, 1}
  BY DEF TokenInv, BindInv, TypeOK, Live
<1>1. ASSUME UNCHANGED <<Granting(y), Taken(y), passed, prompts>>,
             Live(y)' <= Live(y)
      PROVE  (Worth(y) <= prompts[y])'
  BY <1>0, <1>1, Finite DEF Worth
<1>2. ASSUME NEW s \in Caller, NEW x \in Subject, Spend(s, x)
      PROVE  (Worth(y) <= prompts[y])'
  <2>1. /\ pc[s] = "spend" /\ subject[s] = x /\ grant[x] # None
        /\ grant' = [grant EXCEPT ![x] = None]
        /\ pc' = [pc EXCEPT ![s] = "read"]
        /\ UNCHANGED <<subject, hook, request, prompts, passed>>
    BY <1>2 DEF Spend, hookVars, history
  <2>2. Granting(y)' = Granting(y)
    BY <2>1 DEF Granting
  <2>3. CASE y = x
    <3>1. s \notin Taken(y) /\ Taken(y)' = Taken(y) \cup {s}
      BY <2>1, <2>3 DEF Taken, BindInv, TypeOK
    <3>2. Cardinality(Taken(y)') = Cardinality(Taken(y)) + 1
      BY <3>1, Joins, Finite
    <3>3. Live(y) = 1 /\ Live(y)' = 0
      BY <2>1, <2>3 DEF Live, BindInv, TypeOK
    <3> QED BY <1>0, <2>1, <2>2, <3>2, <3>3, Finite DEF Worth
  <2>4. CASE y # x
    <3>1. Taken(y)' = Taken(y) /\ Live(y)' = Live(y)
      BY <2>1, <2>4 DEF Taken, Live, BindInv, TypeOK
    <3> QED BY <1>0, <2>1, <2>2, <3>1, Finite DEF Worth
  <2> QED BY <2>3, <2>4
<1>3. ASSUME NEW s \in Caller, NEW x \in Subject, LetThrough(s, x)
      PROVE  (Worth(y) <= prompts[y])'
  <2>1. /\ pc[s] = "judge" /\ subject[s] = x
        /\ passed' = [passed EXCEPT ![x] = @ + 1]
        /\ pc' = [pc EXCEPT ![s] = "idle"]
        /\ subject' = [subject EXCEPT ![s] = None]
        /\ UNCHANGED <<grant, hook, request, prompts>>
    BY <1>3 DEF LetThrough, EndCall, hookVars
  <2>2. Granting(y)' = Granting(y) /\ Live(y)' = Live(y)
    BY <2>1 DEF Granting, Live
  <2>3. CASE y = x
    <3>1. s \in Taken(y) /\ Taken(y)' = Taken(y) \ {s}
      BY <2>1, <2>3 DEF Taken, BindInv, TypeOK
    <3>2. Cardinality(Taken(y)') = Cardinality(Taken(y)) - 1
      BY <3>1, Leaves, Finite
    <3>3. passed'[y] = passed[y] + 1
      BY <2>1, <2>3 DEF BindInv, TypeOK
    <3> QED BY <1>0, <2>1, <2>2, <3>2, <3>3, Finite DEF Worth
  <2>4. CASE y # x
    <3>1. Taken(y)' = Taken(y) /\ passed'[y] = passed[y]
      BY <2>1, <2>4 DEF Taken, BindInv, TypeOK
    <3> QED BY <1>0, <2>1, <2>2, <3>1, Finite DEF Worth
  <2> QED BY <2>3, <2>4
<1>4. ASSUME NEW s \in Session, pc' = [pc EXCEPT ![s] = pc'[s]],
             pc'[s] \in {"idle", "pick"},
             subject' = [subject EXCEPT ![s] = subject'[s]],
             UNCHANGED <<grant, hook, request, prompts, passed>>
      PROVE  (Worth(y) <= prompts[y])'
  <2>1. Granting(y)' = Granting(y) /\ Live(y)' = Live(y)
    BY <1>4 DEF Granting, Live
  <2>2. Taken(y)' = Taken(y) \ {s}
    BY <1>4 DEF Taken, BindInv, TypeOK
  <2>3. Cardinality(Taken(y)') <= Cardinality(Taken(y))
    <3>1. CASE s \in Taken(y)
      BY <2>2, <3>1, Leaves, Finite
    <3>2. CASE s \notin Taken(y)
      <4>1. Taken(y)' = Taken(y)
        BY <2>2, <3>2
      <4> QED BY <4>1, Finite
    <3> QED BY <3>1, <3>2
  <2> QED BY <1>0, <1>4, <2>1, <2>3, Finite DEF Worth
<1>5. ASSUME NEW s \in Prompted, NEW c \in Code, ReadRequest(s, c)
      PROVE  (Worth(y) <= prompts[y])'
  <2> DEFINE x == pending[c].subject
  <2>1. /\ hook[s] = "read"
        /\ hook' = [hook EXCEPT ![s] = "grant"]
        /\ request' = [request EXCEPT ![s] = pending[c]]
        /\ prompts' = [prompts EXCEPT ![x] = @ + 1]
        /\ UNCHANGED <<grant, pc, subject, passed>>
    BY <1>5 DEF ReadRequest, disk, callVars
  <2>2. Taken(y)' = Taken(y) /\ Live(y)' = Live(y)
    BY <2>1 DEF Taken, Live
  <2>3. CASE y = x
    <3>1. s \notin Granting(y) /\ Granting(y)' = Granting(y) \cup {s}
      BY <2>1, <2>3 DEF Granting, BindInv, TypeOK
    <3>2. Cardinality(Granting(y)') = Cardinality(Granting(y)) + 1
      BY <3>1, Joins, Finite
    <3>3. prompts'[y] = prompts[y] + 1
      BY <2>1, <2>3 DEF BindInv, TypeOK
    <3> QED BY <1>0, <2>1, <2>2, <3>2, <3>3, Finite DEF Worth
  <2>4. CASE y # x
    <3>1. Granting(y)' = Granting(y) /\ prompts'[y] = prompts[y]
      BY <2>1, <2>4 DEF Granting, BindInv, TypeOK
    <3> QED BY <1>0, <2>1, <2>2, <3>1, Finite DEF Worth
  <2> QED BY <2>3, <2>4
<1>6. ASSUME NEW s \in Prompted, NEW x \in Subject, WriteGrant(s, x)
      PROVE  (Worth(y) <= prompts[y])'
  <2>1. /\ hook[s] = "grant" /\ request[s].subject = x
        /\ hook' = [hook EXCEPT ![s] = "unlink"]
        /\ \A z \in Subject \ {x} : grant'[z] = grant[z]
        /\ UNCHANGED <<pc, subject, request, prompts, passed>>
    BY <1>6 DEF WriteGrant, callVars, history, BindInv, TypeOK
  <2>2. Taken(y)' = Taken(y)
    BY <2>1 DEF Taken
  <2>3. CASE y = x
    <3>1. s \in Granting(y) /\ Granting(y)' = Granting(y) \ {s}
      BY <2>1, <2>3 DEF Granting, BindInv, TypeOK
    <3>2. Cardinality(Granting(y)') = Cardinality(Granting(y)) - 1
      BY <3>1, Leaves, Finite
    <3> QED BY <1>0, <2>1, <2>2, <3>2, Finite DEF Worth
  <2>4. CASE y # x
    <3>1. Granting(y)' = Granting(y) /\ Live(y)' = Live(y)
      BY <2>1, <2>4 DEF Granting, Live, BindInv, TypeOK
    <3> QED BY <1>0, <2>1, <2>2, <3>1, Finite DEF Worth
  <2> QED BY <2>3, <2>4
<1>7. ASSUME NEW s \in Session, EndHook(s),
             UNCHANGED <<grant, pc, subject, prompts, passed>>
      PROVE  (Worth(y) <= prompts[y])'
  <2>1. Taken(y)' = Taken(y) /\ Live(y)' = Live(y)
    BY <1>7 DEF Taken, Live
  <2>2. Granting(y)' = Granting(y) \ {s}
    BY <1>7 DEF EndHook, Granting, BindInv, TypeOK
  <2>3. Cardinality(Granting(y)') <= Cardinality(Granting(y))
    <3>1. CASE s \in Granting(y)
      BY <2>2, <3>1, Leaves, Finite
    <3>2. CASE s \notin Granting(y)
      <4>1. Granting(y)' = Granting(y)
        BY <2>2, <3>2
      <4> QED BY <4>1, Finite
    <3> QED BY <3>1, <3>2
  <2> QED BY <1>0, <1>7, <2>1, <2>3, Finite DEF Worth
<1>8. ASSUME NEW s \in Caller, NEW x \in Subject,
             Call(s, x) \/ NothingToSpend(s) \/ ReadSpent(s)
      PROVE  (Worth(y) <= prompts[y])'
  <2>1. /\ UNCHANGED <<grant, hook, request, prompts, passed>>
        /\ Taken(y)' = Taken(y)
    BY <1>8 DEF Call, NothingToSpend, ReadSpent, disk, hookVars, history, Taken,
       BindInv, TypeOK
  <2>2. Granting(y)' = Granting(y) /\ Live(y)' = Live(y)
    BY <2>1 DEF Granting, Live
  <2> QED BY <1>0, <1>1, <2>1, <2>2
<1>9. ASSUME NEW s \in Caller, NEW x \in Subject,
             NotBacked(s, x) \/ File(s)
      PROVE  (Worth(y) <= prompts[y])'
  <2>1. /\ pc' = [pc EXCEPT ![s] = pc'[s]] /\ pc'[s] \in {"idle", "pick"}
        /\ subject' = [subject EXCEPT ![s] = subject'[s]]
        /\ UNCHANGED <<grant, hook, request, prompts, passed>>
    BY <1>9 DEF NotBacked, File, EndCall, hookVars, history, BindInv, TypeOK
  <2> QED BY <1>4, <2>1, ApprovalsAssumption
<1>10. ASSUME NEW s \in Caller, NEW c \in Code, Pick(s, c)
       PROVE  (Worth(y) <= prompts[y])'
  <2>1. /\ pc[s] = "pick" /\ pc' = [pc EXCEPT ![s] = "file"]
        /\ grant'[y] # None => grant[y] # None
        /\ UNCHANGED <<subject, hook, request, prompts, passed>>
    BY <1>10 DEF Pick, Kept, hookVars
  <2>2. Granting(y)' = Granting(y) /\ Taken(y)' = Taken(y)
    BY <2>1 DEF Granting, Taken, BindInv, TypeOK
  <2>3. Live(y)' <= Live(y)
    BY <2>1 DEF Live
  <2> QED BY <1>1, <2>1, <2>2, <2>3
<1>11. ASSUME NEW s \in Prompted, NEW c \in Code, NEW t \in BOOLEAN,
              Prompt(s, c, t)
       PROVE  (Worth(y) <= prompts[y])'
  <2>1. /\ hook[s] = "idle" /\ hook' = [hook EXCEPT ![s] = "read"]
        /\ UNCHANGED <<request, grant, pc, subject, prompts, passed>>
    BY <1>11 DEF Prompt, disk, callVars, history
  <2>2. Granting(y)' = Granting(y) /\ Taken(y)' = Taken(y) /\ Live(y)' = Live(y)
    BY <2>1 DEF Granting, Taken, Live, BindInv, TypeOK
  <2> QED BY <1>0, <1>1, <2>1, <2>2
<1>12. ASSUME NEW s \in Prompted, NoRequest(s) \/ RemoveRequest(s)
       PROVE  (Worth(y) <= prompts[y])'
  BY <1>7, <1>12 DEF NoRequest, RemoveRequest, disk, callVars, history
<1>13. ASSUME NEW s \in Session, Crash(s)
       PROVE  (Worth(y) <= prompts[y])'
  <2>1. CASE EndCall(s) /\ UNCHANGED <<now, disk, hookVars, typedAt, history>>
    <3>1. /\ pc' = [pc EXCEPT ![s] = pc'[s]] /\ pc'[s] = "idle"
          /\ subject' = [subject EXCEPT ![s] = subject'[s]]
          /\ UNCHANGED <<grant, hook, request, prompts, passed>>
      BY <2>1 DEF EndCall, disk, hookVars, history, BindInv, TypeOK
    <3> QED BY <1>4, <3>1
  <2>2. CASE EndHook(s) /\ UNCHANGED <<now, disk, callVars, typedAt, history>>
    BY <1>7, <2>2 DEF disk, callVars, history
  <2> QED BY <1>13, <2>1, <2>2 DEF Crash
<1>14. CASE Tick \/ UNCHANGED vars
  <2>1. UNCHANGED <<grant, hook, request, pc, subject, prompts, passed>>
    BY <1>14 DEF Tick, vars, disk, callVars, hookVars, history
  <2>2. Granting(y)' = Granting(y) /\ Taken(y)' = Taken(y) /\ Live(y)' = Live(y)
    BY <2>1 DEF Granting, Taken, Live
  <2> QED BY <1>0, <1>1, <2>1, <2>2
<1> QED
  BY <1>2, <1>3, <1>5, <1>6, <1>8, <1>9, <1>10, <1>11, <1>12, <1>13, <1>14
     DEF Next, CallStep, HookStep

LEMMA NoneAtFirst == Init => TokenInv
<1> SUFFICES ASSUME Init, NEW x \in Subject PROVE Worth(x) <= prompts[x]
  BY DEF TokenInv
<1>1. /\ Granting(x) = {} /\ Taken(x) = {} /\ Live(x) = 0 /\ passed[x] = 0
      /\ prompts[x] = 0
  BY DEF Init, Granting, Taken, Live
<1> QED BY <1>1, FS_EmptySet DEF Worth

\* A subject never passes more often than prompts have named a code of it.
THEOREM ApprovalOnce == Spec => []OneCallPerPrompt
<1>1. Init => BindInv /\ TokenInv
  BY NoneAtFirst, ApprovalsAssumption DEF Init, BindInv, TypeOK, PastInv,
     DiskInv, CallInv, HookInv, Time
<1>2. BindInv /\ TokenInv => OneCallPerPrompt
  <2> SUFFICES ASSUME BindInv, TokenInv, NEW x \in Subject
               PROVE  passed[x] <= prompts[x]
    BY DEF OneCallPerPrompt
  <2>1. /\ Worth(x) <= prompts[x] /\ Live(x) \in {0, 1}
        /\ passed[x] \in Nat /\ prompts[x] \in Nat
    BY DEF TokenInv, Live, BindInv, TypeOK
  <2> QED BY <2>1, Finite DEF Worth
<1> QED BY <1>1, <1>2, BindStep, TokenStep, PTL DEF Spec
-----------------------------------------------------------------------------
(***************************************************************************)
(* The refinement of ApprovalPromise.  Filing, granting and moving files   *)
(* aside changes nothing of what it speaks of; a call that is refused or   *)
(* dies ends there as well, and one that passes has a credit because it    *)
(* was counted among those taken.                                          *)
(***************************************************************************)
Quiet == \A s \in Session : pc[s] = "idle" => subject[s] = None

PromiseInv == BindInv /\ TokenInv /\ Quiet

LEMMA QuietStep == BindInv /\ Quiet /\ [Next]_vars => Quiet'
<1> SUFFICES ASSUME BindInv, Quiet, [Next]_vars PROVE Quiet'
  OBVIOUS
<1> USE ApprovalsAssumption DEF Quiet, BindInv, TypeOK
<1>1. ASSUME UNCHANGED <<pc, subject>> PROVE Quiet'
  BY <1>1
<1>2. ASSUME NEW s \in Session, EndCall(s) PROVE Quiet'
  BY <1>2 DEF EndCall
<1>3. ASSUME NEW s \in Caller, NEW p \in {"spend", "read", "pick", "file"},
             pc' = [pc EXCEPT ![s] = p],
             \A o \in Session \ {s} : subject'[o] = subject[o]
      PROVE  Quiet'
  BY <1>3
<1>4. ASSUME NEW s \in Caller, CallStep(s) PROVE Quiet'
  <2>1. ASSUME NEW x \in Subject, LetThrough(s, x) PROVE Quiet'
    BY <1>2, <2>1 DEF LetThrough
  <2>2. CASE File(s)
    BY <1>2, <2>2 DEF File
  <2>3. ASSUME NEW x \in Subject, Call(s, x) PROVE Quiet'
    BY <1>3, <2>3 DEF Call
  <2>4. ASSUME NEW x \in Subject, Spend(s, x) \/ NotBacked(s, x) PROVE Quiet'
    BY <1>3, <2>4 DEF Spend, NotBacked
  <2>5. CASE NothingToSpend(s)
    BY <1>3, <2>5 DEF NothingToSpend
  <2>6. CASE ReadSpent(s)
    BY <2>6 DEF ReadSpent
  <2>7. ASSUME NEW c \in Code, Pick(s, c) PROVE Quiet'
    BY <1>3, <2>7 DEF Pick
  <2> QED BY <1>4, <2>1, <2>2, <2>3, <2>4, <2>5, <2>6, <2>7 DEF CallStep
<1>5. ASSUME NEW s \in Prompted, HookStep(s) PROVE Quiet'
  BY <1>1, <1>5 DEF HookStep, ReadRequest, Prompt, WriteGrant, NoRequest,
     RemoveRequest, callVars
<1>6. ASSUME NEW s \in Session, Crash(s) PROVE Quiet'
  BY <1>1, <1>2, <1>6 DEF Crash, callVars
<1>7. CASE Tick \/ UNCHANGED vars
  BY <1>1, <1>7 DEF Tick, vars, callVars
<1> QED BY <1>4, <1>5, <1>6, <1>7 DEF Next

\* One more prompt raises the credit of its subject, one more call lowers it.
LEMMA Counts ==
  ASSUME NEW x \in Subject, prompts[x] \in Nat, passed[x] \in Nat,
         \A y \in Subject \ {x} :
           prompts'[y] = prompts[y] /\ passed'[y] = passed[y]
  PROVE  /\ prompts'[x] = prompts[x] + 1 /\ passed'[x] = passed[x] =>
              Credit' = [Credit EXCEPT ![x] = @ + 1]
         /\ prompts'[x] = prompts[x] /\ passed'[x] = passed[x] + 1 =>
              Credit' = [Credit EXCEPT ![x] = @ - 1]
<1>1. \A y \in Subject \ {x} : Credit'[y] = Credit[y]
  BY DEF Credit
<1>2. /\ Credit[x] = prompts[x] - passed[x]
      /\ Credit'[x] = prompts'[x] - passed'[x]
  BY DEF Credit
<1>3. /\ Credit = [y \in Subject |-> Credit[y]]
      /\ Credit' = [y \in Subject |-> Credit'[y]]
  BY DEF Credit
<1> QED BY <1>1, <1>2, <1>3

\* A session's end of a call, seen from the promise.
LEMMA EndIsEnd ==
  ASSUME NEW s \in Session, subject' = [subject EXCEPT ![s] = None],
         UNCHANGED <<now, typedAt, shownFor, issuedAt, prompts, passed>>
  PROVE  Promise!Next
<1>1. Credit' = Credit
  BY DEF Credit
<1>2. Promise!End(s)
  BY <1>1 DEF Promise!End, Promise!codes
<1> QED BY <1>2 DEF Promise!Next

\* Picking a code draws it, or finds the one drawn before.
LEMMA PickDraws ==
  ASSUME BindInv, NEW s \in Caller, NEW c \in Code, Pick(s, c)
  PROVE  Promise!Next \/ UNCHANGED Promise!promise
<1>1. /\ UNCHANGED <<now, subject, typedAt, prompts, passed>>
      /\ pc[s] = "pick" /\ Credit' = Credit
  BY DEF Pick, Credit
<1>2. s \in Session /\ subject[s] # None
  BY <1>1, ApprovalsAssumption DEF BindInv, CallInv
<1>3. CASE UNCHANGED <<shownFor, issuedAt>>
  BY <1>1, <1>3 DEF Promise!promise, Promise!codes
<1>4. CASE /\ shownFor[c] = None
           /\ shownFor' = [shownFor EXCEPT ![c] = subject[s]]
           /\ issuedAt' = [issuedAt EXCEPT ![c] = now]
  <2>1. Promise!Draw(s, c)
    BY <1>1, <1>2, <1>4 DEF Promise!Draw
  <2> QED BY <1>2, <2>1 DEF Promise!Next
<1> QED BY <1>3, <1>4 DEF Pick

\* A prompt that finds its request buys one call of what the code was drawn for.
LEMMA ReadBuys ==
  ASSUME BindInv, NEW s \in Prompted, NEW c \in Code, ReadRequest(s, c)
  PROVE  Promise!Next
<1> DEFINE x == pending[c].subject
<1>1. /\ prompts' = [prompts EXCEPT ![x] = @ + 1]
      /\ UNCHANGED <<now, subject, typedAt, shownFor, issuedAt, passed>>
      /\ pending[c] # None
  BY DEF ReadRequest, callVars
<1>2. x \in Subject /\ shownFor[c] = x
  BY <1>1 DEF BindInv, TypeOK, DiskInv, Drawn, Request
<1> HIDE DEF x
<1>3. Credit' = [Credit EXCEPT ![x] = @ + 1]
  <2>1. /\ prompts'[x] = prompts[x] + 1 /\ passed'[x] = passed[x]
        /\ \A y \in Subject \ {x} :
             prompts'[y] = prompts[y] /\ passed'[y] = passed[y]
        /\ prompts[x] \in Nat /\ passed[x] \in Nat
    BY <1>1, <1>2 DEF BindInv, TypeOK
  <2> QED BY <2>1, <1>2, Counts
<1>4. Promise!Buy(c, x)
  BY <1>1, <1>2, <1>3 DEF Promise!Buy, Promise!codes
<1> QED BY <1>2, <1>4 DEF Promise!Next

\* A call that passes has a credit left, and shows its code typed.
LEMMA PassPasses ==
  ASSUME PromiseInv, NEW s \in Caller, NEW x \in Subject, LetThrough(s, x)
  PROVE  Promise!Next
<1> DEFINE c == data[s].code
<1>1. /\ passed' = [passed EXCEPT ![x] = @ + 1]
      /\ subject[s] = x /\ subject' = [subject EXCEPT ![s] = None]
      /\ UNCHANGED <<now, typedAt, shownFor, issuedAt, prompts>>
      /\ pc[s] = "judge" /\ s \in Session
      /\ data[s] # None /\ typedAt[s][c] > data[s].asked
      /\ typedAt[s][c] + TTL > now
  BY ApprovalsAssumption DEF LetThrough, EndCall, Backed
<1>2. Drawn(c, x, data[s].asked)
  BY <1>1 DEF PromiseInv, BindInv, CallInv
<1>3. Promise!Backed(s, c)
  <2>1. /\ typedAt[s][c] \in Nat /\ now \in Nat /\ TTL \in Nat
        /\ issuedAt[c] \in Nat /\ data[s].asked \in Nat
    BY <1>1, <1>2, ApprovalsAssumption
    DEF PromiseInv, BindInv, TypeOK, Time, Grant, Drawn
  <2> QED BY <1>1, <1>2, <2>1 DEF Drawn, Promise!Backed
<1>4. prompts[x] - passed[x] > 0
  <2>1. s \in Taken(x) /\ IsFiniteSet(Taken(x))
    BY <1>1, Finite DEF Taken
  <2>2. Cardinality(Taken(x)) # 0
    BY <2>1, FS_EmptySet
  <2>3. /\ Worth(x) <= prompts[x] /\ Live(x) \in {0, 1}
        /\ passed[x] \in Nat /\ prompts[x] \in Nat
    BY DEF PromiseInv, TokenInv, Live, BindInv, TypeOK
  <2> QED BY <2>2, <2>3, Finite DEF Worth
<1>5. Credit' = [Credit EXCEPT ![x] = @ - 1] /\ Credit[x] > 0
  <2>1. /\ prompts'[x] = prompts[x] /\ passed'[x] = passed[x] + 1
        /\ \A y \in Subject \ {x} :
             prompts'[y] = prompts[y] /\ passed'[y] = passed[y]
        /\ prompts[x] \in Nat /\ passed[x] \in Nat
    BY <1>1 DEF PromiseInv, BindInv, TypeOK
  <2> QED BY <1>4, <2>1, Counts DEF Credit
<1>6. c \in Code /\ shownFor[c] = x
  BY <1>2 DEF Drawn
<1> HIDE DEF c
<1>7. Promise!Pass(s, x)
  BY <1>1, <1>3, <1>5, <1>6 DEF Promise!Pass, Promise!codes
<1> QED BY <1>1, <1>7 DEF Promise!Next

LEMMA PromiseStep ==
  PromiseInv /\ [Next]_vars => [Promise!Next]_(Promise!promise)
<1> SUFFICES ASSUME PromiseInv, [Next]_vars
             PROVE  Promise!Next \/ UNCHANGED Promise!promise
  OBVIOUS
<1> USE ApprovalsAssumption
<1> DEFINE Same == UNCHANGED <<now, subject, typedAt, shownFor, issuedAt,
                               prompts, passed>>
<1>1. Same => UNCHANGED Promise!promise
  BY DEF Credit, Promise!promise, Promise!codes
<1>2. CASE Tick
  <2>1. /\ now' = now + 1 /\ Credit' = Credit
        /\ UNCHANGED <<subject, typedAt, shownFor, issuedAt>>
    BY <1>2 DEF Tick, callVars, history, Credit
  <2> QED BY <2>1 DEF Promise!Tick, Promise!Next, Promise!codes
<1>3. ASSUME NEW s \in Caller, NEW x \in Subject, Call(s, x)
      PROVE  Promise!Next
  <2>1. /\ pc[s] = "idle" /\ subject' = [subject EXCEPT ![s] = x]
        /\ UNCHANGED <<now, typedAt, shownFor, issuedAt, prompts, passed>>
    BY <1>3 DEF Call, history
  <2>2. Credit' = Credit /\ s \in Session
    BY <2>1 DEF Credit
  <2>3. subject[s] = None
    BY <2>1, <2>2 DEF PromiseInv, Quiet
  <2>4. Promise!Begin(s, x)
    BY <2>1, <2>2, <2>3 DEF Promise!Begin, Promise!codes
  <2> QED BY <2>2, <2>4 DEF Promise!Next
<1>4. ASSUME NEW s \in Caller, NEW x \in Subject, Spend(s, x) \/ NotBacked(s, x)
      PROVE  Same
  BY <1>4 DEF Spend, NotBacked, history
<1>5. ASSUME NEW s \in Caller, NothingToSpend(s) \/ ReadSpent(s)
      PROVE  Same
  BY <1>5 DEF NothingToSpend, ReadSpent, history
<1>6. ASSUME NEW s \in Caller, File(s)
      PROVE  Promise!Next
  BY <1>6, EndIsEnd DEF File, EndCall, history
<1>7. ASSUME NEW s \in Prompted, NEW c \in Code, NEW t \in BOOLEAN,
             Prompt(s, c, t)
      PROVE  Same \/ Promise!Next
  <2>1. CASE t
    <3>1. /\ typedAt' = [typedAt EXCEPT ![s] = [@ EXCEPT ![c] = now]]
          /\ shownFor[c] # None /\ s \in Session /\ Credit' = Credit
          /\ UNCHANGED <<now, subject, shownFor, issuedAt, prompts, passed>>
      BY <1>7, <2>1 DEF Prompt, callVars, history, Credit
    <3>2. Promise!Type(s, c)
      BY <3>1 DEF Promise!Type
    <3> QED BY <3>1, <3>2 DEF Promise!Next
  <2>2. CASE ~t
    BY <1>7, <2>2 DEF Prompt, callVars, history
  <2> QED BY <2>1, <2>2
<1>8. ASSUME NEW s \in Prompted, NEW x \in Subject, WriteGrant(s, x)
      PROVE  Same
  BY <1>8 DEF WriteGrant, callVars, history
<1>9. ASSUME NEW s \in Prompted, NoRequest(s) \/ RemoveRequest(s)
      PROVE  Same
  BY <1>9 DEF NoRequest, RemoveRequest, callVars, history
<1>10. ASSUME NEW s \in Session, Crash(s)
       PROVE  Same \/ Promise!Next
  <2>1. CASE EndCall(s) /\ UNCHANGED <<now, disk, hookVars, typedAt, history>>
    BY <2>1, EndIsEnd DEF EndCall, history
  <2>2. CASE EndHook(s) /\ UNCHANGED <<now, disk, callVars, typedAt, history>>
    BY <2>2 DEF callVars, history
  <2> QED BY <1>10, <2>1, <2>2 DEF Crash
<1>11. CASE UNCHANGED vars
  BY <1>1, <1>11 DEF vars, callVars, history
<1>12. BindInv
  BY DEF PromiseInv
<1>13. ASSUME NEW s \in Caller, CallStep(s)
       PROVE  Promise!Next \/ UNCHANGED Promise!promise
  <2> HIDE DEF Same
  <2> QED BY <1>1, <1>3, <1>4, <1>5, <1>6, <1>12, <1>13, PassPasses, PickDraws
          DEF CallStep
<1>14. ASSUME NEW s \in Prompted, HookStep(s)
       PROVE  Promise!Next \/ UNCHANGED Promise!promise
  <2> HIDE DEF Same
  <2> QED BY <1>1, <1>7, <1>8, <1>9, <1>12, <1>14, ReadBuys DEF HookStep
<1> HIDE DEF Same
<1> QED BY <1>1, <1>2, <1>10, <1>11, <1>13, <1>14 DEF Next

\* Files that are moved aside, retries, expiry and kills are not seen: the
\* approvals do what ApprovalPromise says, for any sessions, codes and times.
THEOREM ApprovalKeepsPromise == Spec => PromiseKept
<1>1. Init => PromiseInv /\ Promise!Init
  <2> SUFFICES ASSUME Init PROVE PromiseInv /\ Promise!Init
    OBVIOUS
  <2>1. BindInv
    BY ApprovalsAssumption DEF Init, BindInv, TypeOK, PastInv, DiskInv, CallInv,
       HookInv, Time
  <2>2. TokenInv
    BY NoneAtFirst
  <2>3. Quiet
    BY DEF Init, Quiet
  <2>4. Credit = [x \in Subject |-> 0]
    BY DEF Init, Credit
  <2> QED BY <2>1, <2>2, <2>3, <2>4 DEF PromiseInv, Init, Promise!Init
<1>2. PromiseInv /\ [Next]_vars => PromiseInv'
  BY BindStep, TokenStep, QuietStep DEF PromiseInv
<1> QED BY <1>1, <1>2, PromiseStep, PTL DEF Spec, PromiseKept, Promise!Spec
=============================================================================
