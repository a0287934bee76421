----------------------------- MODULE TurnProofs -----------------------------
(***************************************************************************)
(* Proofs about Turn.tla, for any sessions, plans, limit and bounds: the   *)
(* types; that the autopilot never asks more often than the limit, in one  *)
(* turn or for an unchanged plan; that each reply is sent back once and no *)
(* bad one goes out unrevised; and that nobody is let go without a word.   *)
(***************************************************************************)
EXTENDS Turn, TLAPS

\* A request that the hook has counted and not yet printed.
Pending(s) == IF by[s] = "autopilot" THEN 1 ELSE 0

\* A hook at its start, and a session without a hook, has found no reason yet.
ReasonInv == \A s \in Session : pc[s] \notin {"mark", "print"} => by[s] = "none"

\* Only a turn sent back has seen requests.
FirstInv == \A s \in Session : ~active[s] => inTurn[s] = 0

\* The streak in the pointer is no less than the requests of the turn ...
TurnInv ==
  \A s \in Session :
    /\ inTurn[s] + Pending(s) <= Limit
    /\ pointer[s] # None => inTurn[s] + Pending(s) <= pointer[s].streak

\* ... and, while the session owns the plan, than those for the plan as it is,
\* which the digest then names.
PlanInv ==
  \A s \in Session :
    /\ asked[s] + Pending(s) <= Limit
    /\ pointer[s] # None /\ plan.owner = s /\ asked[s] + Pending(s) > 0 =>
         /\ pointer[s].digest = plan
         /\ asked[s] + Pending(s) <= pointer[s].streak

IInv == TypeOK /\ ReasonInv /\ FirstInv /\ TurnInv /\ PlanInv

\* The first state of a session has no pointer and no request.
LEMMA TurnBegins == Init => IInv
<1> SUFFICES ASSUME Init PROVE IInv
  OBVIOUS
<1>1. TypeOK
  BY TurnAssumption DEF Init, TypeOK, Plan, Check
<1>2. ReasonInv /\ FirstInv
  BY DEF Init, ReasonInv, FirstInv
<1>3. TurnInv /\ PlanInv
  BY TurnAssumption DEF Init, TurnInv, PlanInv, Pending
<1> QED BY <1>1, <1>2, <1>3 DEF IInv

\* Every step keeps the invariant: one step per action of Next.
LEMMA TurnStep == IInv /\ [Next]_vars => IInv'
<1> SUFFICES ASSUME IInv, [Next]_vars PROVE IInv'
  OBVIOUS
<1> USE TurnAssumption
<1> USE DEF IInv, TypeOK, ReasonInv, FirstInv, TurnInv, PlanInv, Plan, Pointer,
            Check, Pending, GoTo, hookVars, history
<1>1. ASSUME NEW s \in Session, Prompt(s)
      PROVE  IInv'
  BY <1>1 DEF Prompt
<1>2. ASSUME NEW s \in Session, Interrupt(s)
      PROVE  IInv'
  BY <1>2 DEF Interrupt, TurnOver
<1>3. ASSUME NEW s \in Session, Engage(s)
      PROVE  IInv'
  BY <1>3 DEF Engage, Point
<1>4. ASSUME NEW s \in Session, Takeover(s)
      PROVE  IInv'
  <2> DEFINE new == [owner |-> s, body |-> plan.body, ledger |-> plan.ledger + 1]
  <2>1. new \in Plan /\ new.owner = s /\ new # plan
    <3>1. plan.ledger \in 0..MaxLedger /\ plan.ledger < MaxLedger
      BY <1>4 DEF Takeover
    <3>2. new \in Plan /\ new.ledger # plan.ledger
      BY <3>1
    <3> QED BY <3>2
  <2>2. /\ plan' = new /\ asked' = [r \in Session |-> 0]
        /\ pointer' = [pointer EXCEPT ![s] = [streak |-> 0, digest |-> None]]
        /\ inTurn' = [inTurn EXCEPT ![s] = 0]
        /\ told' = [told EXCEPT ![s] = "no"]
        /\ engages' = engages + 1 /\ engages < MaxEngages /\ pc[s] = "work"
        /\ UNCHANGED <<marker, hookVars, turns, back>>
    BY <1>4, <2>1 DEF Takeover, Point, WritePlan
  <2> HIDE DEF new
  <2> QED BY <2>1, <2>2
<1>5. ASSUME NEW s \in Session, Cycle(s)
      PROVE  IInv'
  BY <1>5 DEF Cycle, WritePlan
<1>6. ASSUME NEW s \in Session, NEW body \in Body, Edit(s, body)
      PROVE  IInv'
  BY <1>6 DEF Edit, WritePlan
<1>7. ASSUME NEW s \in Session, NEW body \in Body, Close(s, body)
      PROVE  IInv'
  BY <1>7 DEF Close, WritePlan
<1>8. ASSUME NEW s \in Session, NEW problems \in BOOLEAN, Reply(s, problems)
      PROVE  IInv'
  BY <1>8 DEF Reply
<1>9. ASSUME NEW s \in Session, Revise(s)
      PROVE  IInv'
  BY <1>9 DEF Revise
<1>10. ASSUME NEW s \in Session, ReplyPasses(s)
      PROVE  IInv'
  BY <1>10 DEF ReplyPasses
<1>11. ASSUME NEW s \in Session, NothingToAsk(s)
      PROVE  IInv'
  BY <1>11 DEF NothingToAsk
<1>12. ASSUME NEW s \in Session, Ask(s)
      PROVE  IInv'
  <2> PICK k : k = Streak(s)
    OBVIOUS
  <2>1. /\ k \in Nat \ {0} /\ pointer[s] # None /\ plan.owner = s
        /\ Repeat(s) => k = pointer[s].streak + 1
        /\ ~Repeat(s) => k = 1
    BY <1>12 DEF Ask, Owns, Streak
  <2>2. /\ pointer' = [pointer EXCEPT ![s] = [streak |-> k, digest |-> plan]]
        /\ pc' = [pc EXCEPT ![s] = "mark"]
        /\ UNCHANGED <<plan, marker, active, bad, turns, engages, history>>
    BY <1>12 DEF Ask, Count
  <2>3. by' = [by EXCEPT ![s] = "autopilot"] /\ note' = note /\ k <= Limit
    BY <1>12 DEF Ask
  <2>4. by[s] = "none"
    BY <1>12 DEF Ask
  <2>5. TypeOK'
    BY <2>1, <2>2, <2>3
  <2>6. ReasonInv' /\ FirstInv'
    BY <2>2, <2>3
  <2>7. TurnInv'
    BY <2>1, <2>2, <2>3, <2>4 DEF Repeat
  <2>8. PlanInv'
    BY <2>1, <2>2, <2>3, <2>4 DEF Repeat
  <2> QED BY <2>5, <2>6, <2>7, <2>8
<1>13. ASSUME NEW s \in Session, LetGo(s)
      PROVE  IInv'
  <2> PICK k : k = Streak(s)
    OBVIOUS
  <2>1. /\ k \in Nat \ {0} /\ pointer[s] # None /\ plan.owner = s
        /\ Repeat(s) => k = pointer[s].streak + 1
        /\ ~Repeat(s) => k = 1
    BY <1>13 DEF LetGo, Owns, Streak
  <2>2. /\ pointer' = [pointer EXCEPT ![s] = [streak |-> k, digest |-> plan]]
        /\ pc' = [pc EXCEPT ![s] = "mark"]
        /\ UNCHANGED <<plan, marker, active, bad, turns, engages, history>>
    BY <1>13 DEF LetGo, Count
  <2>3. by' = by /\ note' = [note EXCEPT ![s] = k = Limit + 1]
    BY <1>13 DEF LetGo
  <2>4. by[s] = "none"
    BY <1>13 DEF LetGo
  <2>5. TypeOK'
    <3>1. note' \in [Session -> BOOLEAN]
      BY <2>3
    <3> QED BY <2>1, <2>2, <2>3, <3>1
  <2>6. ReasonInv' /\ FirstInv'
    BY <2>2, <2>3
  <2>7. TurnInv'
    BY <2>1, <2>2, <2>3, <2>4 DEF Repeat
  <2>8. PlanInv'
    BY <2>1, <2>2, <2>3, <2>4 DEF Repeat
  <2> QED BY <2>5, <2>6, <2>7, <2>8
<1>14. ASSUME NEW s \in Session, Mark(s)
      PROVE  IInv'
  BY <1>14 DEF Mark
<1>15. ASSUME NEW s \in Session, SendBack(s)
      PROVE  IInv'
  BY <1>15 DEF SendBack, Forget
<1>16. ASSUME NEW s \in Session, EndTurn(s)
      PROVE  IInv'
  BY <1>16 DEF EndTurn, TurnOver, Forget
<1>17. ASSUME NEW s \in Session, Fail(s)
      PROVE  IInv'
  BY <1>17 DEF Fail, TurnOver, Forget
<1>18. CASE UNCHANGED vars
  BY <1>18 DEF vars
<1> QED
  BY SMTT(30), <1>1, <1>2, <1>3, <1>4, <1>5, <1>6, <1>7, <1>8, <1>9, <1>10, <1>11,
     <1>12, <1>13, <1>14, <1>15, <1>16, <1>17, <1>18
  DEF Next, Command, Replies, HookStep

\* The types hold in every state.
THEOREM TurnTypes == Spec => []TypeOK
<1>1. IInv => TypeOK
  BY DEF IInv
<1> QED BY <1>1, TurnBegins, TurnStep, PTL DEF Spec

\* The autopilot asks at most Limit times in a turn without a new engagement.
THEOREM TurnAsks == Spec => []AsksInTurn
<1>1. IInv => AsksInTurn
  <2> SUFFICES ASSUME IInv, NEW s \in Session PROVE inTurn[s] <= Limit
    BY DEF AsksInTurn
  <2>1. /\ inTurn[s] \in Nat /\ Pending(s) \in {0, 1}
        /\ inTurn[s] + Pending(s) <= Limit
    BY DEF IInv, TypeOK, TurnInv, Pending
  <2> QED BY <2>1, TurnAssumption
<1> QED BY <1>1, TurnBegins, TurnStep, PTL DEF Spec

\* It asks at most Limit times for a plan that nobody changes.
THEOREM TurnPlanAsks == Spec => []AsksForPlan
<1>1. IInv => AsksForPlan
  <2> SUFFICES ASSUME IInv, NEW s \in Session PROVE asked[s] <= Limit
    BY DEF AsksForPlan
  <2>1. /\ asked[s] \in Nat /\ Pending(s) \in {0, 1}
        /\ asked[s] + Pending(s) <= Limit
    BY DEF IInv, TypeOK, PlanInv, Pending
  <2> QED BY <2>1, TurnAssumption
<1> QED BY <1>1, TurnBegins, TurnStep, PTL DEF Spec
-----------------------------------------------------------------------------
(***************************************************************************)
(* What the two checks know of each other, and what the person was told.   *)
(***************************************************************************)

\* Within a turn that was sent back, the marker names the check that did; the
\* hook that is about to send it back has written its own.
MarkInv ==
  \A s \in Session :
    /\ active[s] <=> back[s] # "none"
    /\ pc[s] = "idle" => ~active[s]
    /\ active[s] /\ pc[s] # "print" => marker[s] = back[s]
    /\ pc[s] = "print" /\ by[s] # "none" => marker[s] = by[s]

\* What the reply check found stands until the hook ends.
ReplyInv ==
  \A s \in Session :
    /\ pc[s] \in {"mark", "print"} /\ by[s] = "reply" => back[s] # "reply"
    /\ pc[s] \in {"evaluate", "mark", "print"} /\ by[s] # "reply" /\ bad[s] =>
         back[s] = "reply"

\* A hook that has a note to show lets the turn end.
NoteInv ==
  \A s \in Session : note[s] => pc[s] \in {"mark", "print"} /\ by[s] = "none"

HookInv == MarkInv /\ ReplyInv /\ NoteInv /\ LetGoIsTold

LEMMA HookBegins == Init => HookInv
BY DEF Init, HookInv, MarkInv, ReplyInv, NoteInv, LetGoIsTold

\* What a step of the hook of s leaves to the other sessions.
Others(s) ==
  \A o \in Session \ {s} :
    /\ pc'[o] = pc[o] /\ active'[o] = active[o] /\ bad'[o] = bad[o]
    /\ by'[o] = by[o] /\ note'[o] = note[o] /\ marker'[o] = marker[o]
    /\ back'[o] = back[o] /\ pointer'[o] = pointer[o] /\ told'[o] = told[o]

\* A step of one session is seen by it alone.
LEMMA OwnStep ==
  ASSUME TypeOK, NEW s \in Session, HookStep(s) \/ Command(s) \/ Fail(s)
                                    \/ Prompt(s) \/ Interrupt(s) \/ Replies(s)
  PROVE  Others(s)
<1> USE DEF TypeOK, Others, GoTo, hookVars, history
<1>1. CASE Revise(s) \/ ReplyPasses(s) \/ NothingToAsk(s) \/ Mark(s)
  BY <1>1 DEF Revise, ReplyPasses, NothingToAsk, Mark
<1>2. CASE Ask(s) \/ LetGo(s)
  BY <1>2 DEF Ask, LetGo, Count
<1>3. CASE SendBack(s) \/ EndTurn(s)
  BY <1>3 DEF SendBack, EndTurn, TurnOver, Forget
<1>4. CASE Fail(s)
  BY <1>4 DEF Fail, TurnOver, Forget
<1>5. CASE Command(s)
  BY <1>5 DEF Command, Engage, Takeover, Point, Cycle, Edit, Close
<1>6. CASE Prompt(s) \/ Interrupt(s) \/ Replies(s)
  BY <1>6 DEF Prompt, Interrupt, TurnOver, Replies, Reply
<1> QED BY <1>1, <1>2, <1>3, <1>4, <1>5, <1>6 DEF HookStep

LEMMA MarkStep == IInv /\ MarkInv /\ [Next]_vars => MarkInv'
<1> SUFFICES ASSUME IInv, MarkInv, [Next]_vars PROVE MarkInv'
  OBVIOUS
<1> USE DEF GoTo, hookVars, history
<1>1. TypeOK /\ ReasonInv
  BY DEF IInv
<1> DEFINE Mine(s) == /\ active[s] <=> back[s] # "none"
                      /\ pc[s] = "idle" => ~active[s]
                      /\ active[s] /\ pc[s] # "print" => marker[s] = back[s]
                      /\ pc[s] = "print" /\ by[s] # "none" => marker[s] = by[s]
<1>2. ASSUME NEW s \in Session, Others(s), Mine(s)'
      PROVE  MarkInv'
  BY <1>2 DEF MarkInv, Others
<1>3. ASSUME NEW s \in Session, HookStep(s) \/ Command(s) \/ Fail(s)
                                \/ Prompt(s) \/ Interrupt(s) \/ Replies(s)
      PROVE  Mine(s)'
  <2>1. Mine(s)
    BY DEF MarkInv
  <2>2. CASE \/ Revise(s) \/ ReplyPasses(s) \/ NothingToAsk(s)
             \/ Ask(s) \/ LetGo(s)
    BY <1>1, <2>1, <2>2
    DEF TypeOK, Revise, ReplyPasses, NothingToAsk, Ask, LetGo
  <2>3. CASE Mark(s)
    BY <1>1, <2>1, <2>3 DEF TypeOK, Mark, Marks, Check
  <2>4. CASE SendBack(s)
    BY <1>1, <2>1, <2>4 DEF TypeOK, SendBack, Forget
  <2>5. CASE EndTurn(s) \/ Fail(s) \/ Interrupt(s)
    BY <1>1, <2>1, <2>5 DEF TypeOK, EndTurn, Fail, Interrupt, TurnOver, Forget
  <2>6. CASE Command(s)
    BY <1>1, <2>1, <2>6 DEF TypeOK, Command, Engage, Takeover, Point, Cycle,
       Edit, Close
  <2>7. CASE Prompt(s) \/ Replies(s)
    BY <1>1, <2>1, <2>7 DEF TypeOK, Prompt, Replies, Reply
  <2> QED BY <1>3, <2>2, <2>3, <2>4, <2>5, <2>6, <2>7 DEF HookStep
<1>4. CASE UNCHANGED vars
  BY <1>4 DEF vars, MarkInv
<1> HIDE DEF Mine
<1> QED BY <1>1, <1>2, <1>3, <1>4, OwnStep DEF Next

LEMMA ReplyStep == IInv /\ MarkInv /\ ReplyInv /\ [Next]_vars => ReplyInv'
<1> SUFFICES ASSUME IInv, MarkInv, ReplyInv, [Next]_vars PROVE ReplyInv'
  OBVIOUS
<1> USE DEF GoTo, hookVars, history
<1>1. TypeOK /\ ReasonInv
  BY DEF IInv
<1> DEFINE Mine(s) ==
             /\ pc[s] \in {"mark", "print"} /\ by[s] = "reply" =>
                  back[s] # "reply"
             /\ /\ pc[s] \in {"evaluate", "mark", "print"}
                /\ by[s] # "reply" /\ bad[s]
                => back[s] = "reply"
<1>2. ASSUME NEW s \in Session, Others(s), Mine(s)'
      PROVE  ReplyInv'
  BY <1>2 DEF ReplyInv, Others
<1>3. ASSUME NEW s \in Session, HookStep(s) \/ Command(s) \/ Fail(s)
                                \/ Prompt(s) \/ Interrupt(s) \/ Replies(s)
      PROVE  Mine(s)'
  <2>1. Mine(s) /\ (pc[s] \notin {"mark", "print"} => by[s] = "none")
    BY <1>1 DEF ReplyInv, ReasonInv
  <2>2. pc[s] = "check" => Last(s) = back[s]
    BY <1>1 DEF Last, MarkInv, TypeOK, Check
  <2>3. CASE Revise(s) \/ ReplyPasses(s)
    BY <1>1, <2>1, <2>2, <2>3 DEF TypeOK, Revise, ReplyPasses
  <2>4. CASE NothingToAsk(s) \/ Ask(s) \/ LetGo(s) \/ Mark(s)
    BY <1>1, <2>1, <2>4 DEF TypeOK, NothingToAsk, Ask, LetGo, Mark
  <2>5. CASE SendBack(s) \/ EndTurn(s) \/ Fail(s) \/ Interrupt(s)
    BY <1>1, <2>1, <2>5
    DEF TypeOK, SendBack, EndTurn, Fail, Interrupt, TurnOver,
       Forget
  <2>6. CASE Command(s) \/ Prompt(s) \/ Replies(s)
    BY <1>1, <2>1, <2>6 DEF TypeOK, Command, Engage, Takeover, Point, Cycle,
       Edit, Close, Prompt, Replies, Reply
  <2> QED BY <1>3, <2>3, <2>4, <2>5, <2>6 DEF HookStep
<1>4. CASE UNCHANGED vars
  BY <1>4 DEF vars, ReplyInv
<1> HIDE DEF Mine
<1> QED BY <1>1, <1>2, <1>3, <1>4, OwnStep DEF Next

LEMMA NoteStep ==
  IInv /\ NoteInv /\ LetGoIsTold /\ [Next]_vars => NoteInv' /\ LetGoIsTold'
<1> SUFFICES ASSUME IInv, NoteInv, LetGoIsTold, [Next]_vars
             PROVE  NoteInv' /\ LetGoIsTold'
  OBVIOUS
<1> USE DEF GoTo, hookVars, history
<1>1. TypeOK /\ ReasonInv
  BY DEF IInv
<1> DEFINE Mine(s) ==
             /\ note[s] => pc[s] \in {"mark", "print"} /\ by[s] = "none"
             /\ pointer[s] # None /\ pointer[s].streak > Limit =>
                  told[s] # "no" \/ note[s]
<1>2. ASSUME NEW s \in Session, Others(s), Mine(s)'
      PROVE  NoteInv' /\ LetGoIsTold'
  BY <1>2 DEF NoteInv, LetGoIsTold, Others
<1>3. ASSUME NEW s \in Session, HookStep(s) \/ Command(s) \/ Fail(s)
                                \/ Prompt(s) \/ Interrupt(s) \/ Replies(s)
      PROVE  Mine(s)'
  <2>1. Mine(s) /\ (pc[s] \notin {"mark", "print"} => by[s] = "none")
    BY <1>1 DEF NoteInv, LetGoIsTold, ReasonInv
  <2>2. CASE Revise(s) \/ ReplyPasses(s) \/ NothingToAsk(s) \/ Mark(s)
    BY <1>1, <2>1, <2>2 DEF TypeOK, Revise, ReplyPasses, NothingToAsk, Mark
  <2>3. CASE Ask(s)
    <3>1. /\ Streak(s) \in Nat /\ Streak(s) <= Limit
          /\ pointer'[s].streak = Streak(s)
      BY <1>1, <2>3 DEF TypeOK, Ask, Owns, Count, Streak, Pointer
    <3>2. ~note[s] /\ note' = note
      BY <2>1, <2>3 DEF Ask
    <3> QED BY <3>1, <3>2, TurnAssumption
  <2>4. CASE LetGo(s)
    <3>1. /\ pointer[s] # None /\ pointer[s].streak \in Nat
          /\ Streak(s) > Limit /\ pc'[s] = "mark" /\ by'[s] = by[s]
          /\ by[s] = "none" /\ told'[s] = told[s] /\ ~note[s]
          /\ note'[s] = (Streak(s) = Limit + 1)
      BY <1>1, <2>1, <2>4 DEF TypeOK, LetGo, Owns, Pointer
    <3>2. Streak(s) = Limit + 1 \/ pointer[s].streak > Limit
      BY <3>1, TurnAssumption DEF Streak
    <3> QED BY <2>1, <3>1, <3>2
  <2>5. CASE SendBack(s)
    BY <1>1, <2>1, <2>5 DEF TypeOK, SendBack, Forget
  <2>6. CASE EndTurn(s) \/ Fail(s) \/ Interrupt(s)
    BY <1>1, <2>1, <2>6 DEF TypeOK, EndTurn, Fail, Interrupt, TurnOver, Forget
  <2>7. CASE Engage(s) \/ Takeover(s)
    <3>1. /\ pointer'[s] = [streak |-> 0, digest |-> None]
          /\ UNCHANGED <<note, pc>> /\ pc[s] = "work"
      BY <1>1, <2>7 DEF TypeOK, Engage, Takeover, Point
    <3> QED BY <2>1, <3>1, TurnAssumption
  <2>8. CASE Cycle(s) \/ \E body \in Body : Edit(s, body) \/ Close(s, body)
    BY <1>1, <2>1, <2>8 DEF TypeOK, Cycle, Edit, Close
  <2>9. CASE Prompt(s) \/ Replies(s)
    BY <1>1, <2>1, <2>9 DEF TypeOK, Prompt, Replies, Reply
  <2> QED
    BY <1>3, <2>2, <2>3, <2>4, <2>5, <2>6, <2>7, <2>8, <2>9
    DEF HookStep, Command
<1>4. CASE UNCHANGED vars
  BY <1>4 DEF vars, NoteInv, LetGoIsTold
<1> HIDE DEF Mine
<1> QED BY <1>1, <1>2, <1>3, <1>4, OwnStep DEF Next

LEMMA HooksStep == IInv /\ HookInv /\ [Next]_vars => HookInv'
BY MarkStep, ReplyStep, NoteStep DEF HookInv

\* The reply check never sends back a reply it has just sent back.
THEOREM TurnNeverTwice == Spec => []NeverTwice
<1>1. HookInv => NeverTwice
  BY DEF HookInv, ReplyInv, NeverTwice
<1> QED BY <1>1, TurnBegins, TurnStep, HookBegins, HooksStep, PTL DEF Spec

\* No marker of an earlier turn lets a reply with problems through.
THEOREM TurnRevises == Spec => []BadRepliesRevised
<1>1. HookInv => BadRepliesRevised
  BY DEF HookInv, ReplyInv, BadRepliesRevised
<1> QED BY <1>1, TurnBegins, TurnStep, HookBegins, HooksStep, PTL DEF Spec

\* No run is let go with no word, unless the hook that had the word failed.
THEOREM TurnTells == Spec => []LetGoIsTold
<1>1. HookInv => LetGoIsTold
  BY DEF HookInv
<1> QED BY <1>1, TurnBegins, TurnStep, HookBegins, HooksStep, PTL DEF Spec
=============================================================================
