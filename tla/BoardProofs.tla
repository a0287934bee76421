----------------------------- MODULE BoardProofs -----------------------------
(***************************************************************************)
(* Proofs about Board.tla, for any number of sessions and claims.  If      *)
(* nobody takes stale claims over, or owners stay quiet while theirs are   *)
(* taken: no two sessions hold overlapping claims, the board implements    *)
(* ClaimPromise, and only stale sessions lose claims.  If no process is    *)
(* killed halfway, quiet or not: who lost a claim is told, and the claims  *)
(* log names the holders.                                                  *)
(***************************************************************************)
EXTENDS Board, TLAPS

LEMMA RecordFields ==
  ASSUME NEW r \in Record
  PROVE  /\ r.claims \in SUBSET Claim
         /\ r.ceded \in SUBSET Claim
         /\ r.seen \in 0..MaxNow
BY DEF Record

LEMMA ClaimsUpdate ==
  ASSUME NEW r \in Record, NEW C \in SUBSET Claim
  PROVE  [r EXCEPT !.claims = C] \in Record
BY DEF Record

LEMMA SeenUpdate ==
  ASSUME NEW r \in Record, NEW n \in 0..MaxNow
  PROVE  [r EXCEPT !.seen = n] \in Record
BY DEF Record

LEMMA CededUpdate ==
  ASSUME NEW r \in Record, NEW C \in SUBSET Claim, NEW D \in SUBSET Claim
  PROVE  [r EXCEPT !.claims = C, !.ceded = D] \in Record
BY DEF Record

LEMMA FinishTypes ==
  ASSUME TypeOK, NEW s \in Session, Finish(s)
  PROVE  /\ pc' \in [Session -> {"idle", "touch", "release"} \cup Deciding]
         /\ copy' \in [Session -> Record]
         /\ want' \in [Session -> SUBSET Claim]
         /\ take' \in [Session -> BOOLEAN]
         /\ scanned' \in [Session -> [Session -> Record]]
         /\ todo' \in [Session -> SUBSET Session]
         /\ robbed' \in [Session -> Session \cup {Nobody}]
<1>1. Blank \in Record
  BY BoardAssumption DEF Blank, Record
<1>2. [o \in Session |-> Blank] \in [Session -> Record]
  BY <1>1
<1> QED
  BY <1>1, <1>2 DEF Finish, TypeOK, Deciding

LEMMA HitType ==
  ASSUME TypeOK, NEW s \in Session, NEW o \in Session
  PROVE  Hit(s, o) \in SUBSET Claim
BY DEF Hit, TypeOK, Record

LEMMA TypeStep == TypeOK /\ [Next]_vars => TypeOK'
<1> SUFFICES ASSUME TypeOK, [Next]_vars PROVE TypeOK'
  OBVIOUS
<1> USE BoardAssumption
<1>1. CASE Tick
  BY <1>1 DEF Tick, process, TypeOK, Record
<1>2. ASSUME NEW s \in Session, TouchLoad(s) PROVE TypeOK'
  <2>1. [file[s] EXCEPT !.seen = now] \in Record
    <3>1. file[s] \in Record /\ now \in 0..MaxNow
      BY DEF TypeOK
    <3> QED BY <3>1, SeenUpdate
  <2> QED BY <1>2, <2>1 DEF TouchLoad, TypeOK, Deciding
<1>3. ASSUME NEW s \in Session, TouchSave(s) PROVE TypeOK'
  BY <1>3, FinishTypes DEF TouchSave, TypeOK
<1>4. ASSUME NEW s \in Session, NEW C \in Requests, ReleaseLoad(s, C)
      PROVE TypeOK'
  <2>1. [file[s] EXCEPT !.claims = @ \ C] \in Record
    <3>1. file[s] \in Record /\ file[s].claims \ C \in SUBSET Claim
      BY RecordFields DEF TypeOK
    <3> QED BY <3>1, ClaimsUpdate
  <2> QED BY <1>4, <2>1 DEF ReleaseLoad, TypeOK, Deciding
<1>5. ASSUME NEW s \in Session, ReleaseSave(s) PROVE TypeOK'
  BY <1>5, FinishTypes DEF ReleaseSave, TypeOK
<1>6. ASSUME NEW s \in Session, NEW C \in Requests, NEW t \in BOOLEAN,
             ClaimLock(s, C, t)
      PROVE TypeOK'
  BY <1>6 DEF ClaimLock, TypeOK, Deciding
<1>7. ASSUME NEW s \in Session, NEW o \in Session, Scan(s, o) PROVE TypeOK'
  BY <1>7 DEF Scan, TypeOK, Deciding
<1>8. ASSUME NEW s \in Session, Refuse(s) PROVE TypeOK'
  BY <1>8, FinishTypes DEF Refuse, TypeOK
<1>9. ASSUME NEW s \in Session, Decide(s) PROVE TypeOK'
  BY <1>9 DEF Decide, TypeOK, Deciding
<1>10. ASSUME NEW s \in Session, NEW o \in Session, Cede(s, o) PROVE TypeOK'
  <2>1. [scanned[s][o] EXCEPT !.claims = @ \ Hit(s, o),
                              !.ceded = @ \cup Hit(s, o)] \in Record
    <3>1. /\ scanned[s][o] \in Record
          /\ scanned[s][o].claims \ Hit(s, o) \in SUBSET Claim
          /\ scanned[s][o].ceded \cup Hit(s, o) \in SUBSET Claim
      BY HitType, RecordFields DEF TypeOK
    <3> QED BY <3>1, CededUpdate
  <2> QED BY <1>10, <2>1 DEF Cede, TypeOK, Deciding
<1>11. ASSUME NEW s \in Session, Notify(s) PROVE TypeOK'
  <2>1. Hit(s, robbed[s]) \in SUBSET Claim
    BY ZenonT(30), <1>11 DEF Notify, TypeOK, Hit, Record
  <2> QED BY <1>11, <2>1 DEF Notify, process, TypeOK, Deciding
<1>12. ASSUME NEW s \in Session, Enter(s) PROVE TypeOK'
  <2>1. [file[s] EXCEPT !.seen = now] \in Record
    <3>1. file[s] \in Record /\ now \in 0..MaxNow
      BY DEF TypeOK
    <3> QED BY <3>1, SeenUpdate
  <2> QED BY <1>12, <2>1 DEF Enter, TypeOK, Deciding
<1>13. ASSUME NEW s \in Session, Grant(s) PROVE TypeOK'
  <2>1. [copy[s] EXCEPT !.claims = @ \cup want[s]] \in Record
    <3>1. copy[s] \in Record /\ copy[s].claims \cup want[s] \in SUBSET Claim
      BY RecordFields DEF TypeOK
    <3> QED BY <3>1, ClaimsUpdate
  <2> QED BY <1>13, <2>1 DEF Grant, process, TypeOK, Deciding
<1>14. ASSUME NEW s \in Session, Log(s) PROVE TypeOK'
  BY <1>14, FinishTypes DEF Log, TypeOK
<1>15. ASSUME NEW s \in Session, Crash(s) PROVE TypeOK'
  BY <1>15, FinishTypes DEF Crash, TypeOK
<1>16. CASE UNCHANGED vars
  BY <1>16 DEF vars, TypeOK
<1> QED
  BY <1>1, <1>2, <1>3, <1>4, <1>5, <1>6, <1>7, <1>8, <1>9, <1>10, <1>11,
     <1>12, <1>13, <1>14, <1>15, <1>16 DEF Next, Call, Save, ClaimStep

\* Every reachable board is well formed: the records on disk and the memory
\* of every process keep the fields and the ranges board.py gives them.
THEOREM BoardTypes == Spec => []TypeOK
<1>1. Init => TypeOK
  BY BoardAssumption DEF Init, TypeOK, Record, Blank
<1> QED
  BY <1>1, TypeStep, PTL DEF Spec
-----------------------------------------------------------------------------
(***************************************************************************)
(* Exclusive is not inductive: it says nothing of what the processes have  *)
(* in memory.  The strengthening says, for a process between two steps,    *)
(* what it may rely on.                                                    *)
(***************************************************************************)

\* Nobody takes claims over from itself.
TodoInv == \A s \in Session : s \notin todo[s]

\* Only the holder of the lock is inside `claim`, and only a session that may
\* take claims over was asked to.
LockInv ==
  \A s \in Session : /\ pc[s] \in Deciding => lock = s
                     /\ take[s] => s \in MayTake

\* A loaded record never holds more claims than the file has by then.
CopyInv ==
  \A s \in Session : pc[s] \in {"touch", "release", "grant"} =>
                       copy[s].claims \subseteq file[s].claims

\* s has read the file of o and still relies on what it read.
HasRead(s, o) ==
  /\ o # s
  /\ pc[s] \in {"cede", "notify"} \/ (pc[s] = "scan" /\ o \notin todo[s])

\* What was read covers what the file holds now.
ScanInv ==
  \A s, o \in Session : HasRead(s, o) =>
    file[o].claims \subseteq scanned[s][o].claims

\* s has read the file of o and will write it, with some claims moved away.
WillTake(s, o) ==
  /\ o # s
  /\ take[s]
  /\ Hit(s, o) # {}
  /\ \/ pc[s] = "scan" /\ o \notin todo[s]
     \/ pc[s] \in {"cede", "notify"} /\ o \in todo[s]

\* Until then the owner is not halfway through an operation, and its file
\* holds what was read.
OwnerInv ==
  \A s, o \in Session : WillTake(s, o) =>
    /\ ~BetweenLoadAndSave(o)
    /\ scanned[s][o].claims \subseteq file[o].claims

\* Only a session with claims in the way is left to be taken from, and once
\* it has been nothing of it is in the way any more.
ClearInv ==
  \A s, o \in Session : o # s =>
    /\ pc[s] \in {"cede", "notify"} /\ o \in todo[s]
         => take[s] /\ Hit(s, o) # {}
    /\ (pc[s] \in {"cede", "notify"} /\ o \notin todo[s]) \/ pc[s] = "grant"
         => \A c \in want[s], d \in file[o].claims : <<c, d>> \notin Overlap

IInv == /\ TypeOK /\ TodoInv /\ LockInv /\ CopyInv /\ ScanInv /\ OwnerInv
        /\ ClearInv /\ Exclusive
-----------------------------------------------------------------------------
\* The condition of the theorem: nobody takes over, or owners stay quiet.
Undisturbed == OwnersStayQuiet \/ MayTake = {}

\* A session whose claims are about to be taken does not start anything.
LEMMA OwnerIsQuiet ==
  ASSUME IInv, Undisturbed, NEW s \in Session, NEW o \in Session,
         WillTake(s, o)
  PROVE  ~MayRun(o) /\ ~BetweenLoadAndSave(o)
BY DEF IInv, Undisturbed, WillTake, MayRun, TakingFrom, OwnerInv, LockInv

\* A step that ends the process of s, and leaves s with no more claims than
\* it had: a saved touch or release, a refusal, a logged grant, a crash.
LEMMA EndStep ==
  ASSUME IInv, Undisturbed, NEW s \in Session, Finish(s),
         \/ UNCHANGED file
         \/ /\ pc[s] \in {"touch", "release"}
            /\ file' = [file EXCEPT ![s] = copy[s]]
  PROVE  /\ CopyInv' /\ ScanInv' /\ OwnerInv' /\ ClearInv' /\ Exclusive'
         /\ \A a \in Session : /\ pc'[a] \in Deciding => a # s /\ lock = a
                               /\ take'[a] => a \in MayTake
<1> USE DEF IInv
<1>1. \A o \in Session : file'[o].claims \subseteq file[o].claims
  BY DEF TypeOK, CopyInv
<1>2. \A o \in Session \ {s} : /\ file'[o] = file[o] /\ pc'[o] = pc[o]
                               /\ copy'[o] = copy[o] /\ want'[o] = want[o]
                               /\ take'[o] = take[o] /\ todo'[o] = todo[o]
                               /\ scanned'[o] = scanned[o]
  BY DEF Finish, TypeOK
<1>3. pc'[s] = "idle" /\ ~take'[s]
  BY DEF Finish, TypeOK
<1>4. \A a \in Session \ {s}, o \in Session : Hit(a, o)' = Hit(a, o)
  BY <1>2 DEF Hit
<1>5. \A a, o \in Session : WillTake(a, o)' =>
        a # s /\ WillTake(a, o) /\ file'[o] = file[o]
  <2> SUFFICES ASSUME NEW a \in Session, NEW o \in Session, WillTake(a, o)'
               PROVE  a # s /\ WillTake(a, o) /\ file'[o] = file[o]
    OBVIOUS
  <2>1. a # s
    BY <1>3 DEF WillTake
  <2>2. WillTake(a, o)
    BY <1>2, <1>4, <2>1 DEF WillTake
  <2>3. o = s => UNCHANGED file
    BY <2>2, OwnerIsQuiet DEF BetweenLoadAndSave
  <2> QED BY <1>2, <2>1, <2>2, <2>3
<1>6. CopyInv'
  BY <1>2, <1>3 DEF CopyInv
<1>7. ScanInv'
  BY <1>1, <1>2, <1>3 DEF ScanInv, HasRead
<1>8. OwnerInv'
  BY <1>2, <1>3, <1>5 DEF OwnerInv, BetweenLoadAndSave
<1>9. ClearInv'
  <2> SUFFICES ASSUME NEW a \in Session, NEW o \in Session, o # a, a # s
               PROVE  (/\ pc[a] \in {"cede", "notify"} /\ o \in todo[a]
                            => take[a] /\ Hit(a, o) # {}
                       /\ (pc[a] \in {"cede", "notify"} /\ o \notin todo[a])
                            \/ pc[a] = "grant"
                            => \A c \in want[a], d \in file[o].claims :
                                 <<c, d>> \notin Overlap)'
    BY <1>3 DEF ClearInv
  <2> QED BY <1>1, <1>2, <1>4 DEF ClearInv
<1>10. Exclusive'
  BY <1>1 DEF Exclusive
<1> QED
  BY <1>2, <1>3, <1>6, <1>7, <1>8, <1>9, <1>10 DEF LockInv, Deciding

\* A step that touches no file and no process.
LEMMA IdleStep ==
  ASSUME IInv, UNCHANGED <<file, pc, copy, want, take, scanned, todo, lock>>
  PROVE  /\ LockInv' /\ CopyInv' /\ ScanInv' /\ OwnerInv' /\ ClearInv'
         /\ Exclusive'
<1>1. \A a, b \in Session : Hit(a, b)' = Hit(a, b)
  BY DEF Hit
<1>2. LockInv' /\ CopyInv' /\ ScanInv' /\ Exclusive'
  BY DEF IInv, LockInv, CopyInv, ScanInv, HasRead, Exclusive
<1>3. \A a, b \in Session : WillTake(a, b)' => WillTake(a, b)
  BY <1>1 DEF WillTake
<1>4. OwnerInv' /\ ClearInv'
  BY <1>1, <1>3 DEF IInv, OwnerInv, ClearInv, BetweenLoadAndSave
<1> QED BY <1>2, <1>4

LEMMA TodoStep == TypeOK /\ TodoInv /\ [Next]_vars => TodoInv'
<1> SUFFICES ASSUME TypeOK, TodoInv, [Next]_vars PROVE TodoInv'
  OBVIOUS
<1>1. CASE Tick \/ UNCHANGED vars
  BY <1>1 DEF Tick, vars, process, TodoInv
<1>2. ASSUME NEW s \in Session, Call(s)
      PROVE  TodoInv'
  BY <1>2 DEF Call, TouchLoad, ReleaseLoad, ClaimLock, TodoInv, TypeOK
<1>3. ASSUME NEW s \in Session,
             Save(s) \/ Refuse(s) \/ Log(s) \/ Crash(s)
      PROVE  TodoInv'
  BY <1>3 DEF Save, TouchSave, ReleaseSave, Refuse, Log, Crash, Finish,
     TodoInv, TypeOK
<1>4. ASSUME NEW s \in Session, NEW o \in Session, Scan(s, o) \/ Cede(s, o)
      PROVE  TodoInv'
  BY <1>4 DEF Scan, Cede, TodoInv, TypeOK
<1>5. ASSUME NEW s \in Session, Decide(s)
      PROVE  TodoInv'
  BY <1>5 DEF Decide, TodoInv, TypeOK
<1>6. ASSUME NEW s \in Session, Notify(s) \/ Enter(s) \/ Grant(s)
      PROVE  TodoInv'
  BY <1>6 DEF Notify, Enter, Grant, process, TodoInv
<1> QED
  BY <1>1, <1>2, <1>3, <1>4, <1>5, <1>6 DEF Next, ClaimStep

\* Every step preserves the strengthening: one step per action of Next.
LEMMA ExclusiveStep ==
  ASSUME IInv, Undisturbed, [Next]_vars
  PROVE  IInv'
<1> USE DEF IInv
<1>0. TypeOK' /\ TodoInv'
  <2>1. TypeOK'
    BY TypeStep
  <2> QED BY <2>1, TodoStep
<1>1. CASE Tick
  BY <1>0, <1>1, IdleStep DEF Tick, process
<1>2. ASSUME NEW s \in Session, NEW C \in SUBSET Claim,
             TouchLoad(s) \/ ReleaseLoad(s, C)
      PROVE  IInv'
  <2>1. /\ UNCHANGED <<file, take, scanned, todo, lock>>
        /\ pc[s] = "idle" /\ pc'[s] \in {"touch", "release"}
        /\ \A o \in Session \ {s} : /\ pc'[o] = pc[o] /\ copy'[o] = copy[o]
                                    /\ want'[o] = want[o]
        /\ copy'[s].claims \subseteq file[s].claims
    <3>1. file[s] \in Record
      BY DEF TypeOK
    <3>2. /\ [file[s] EXCEPT !.seen = now].claims = file[s].claims
          /\ [file[s] EXCEPT !.claims = @ \ C].claims = file[s].claims \ C
      BY <3>1 DEF Record
    <3> QED BY <1>2, <3>2 DEF TouchLoad, ReleaseLoad, MayRun, TypeOK
  <2>2. \A a \in Session \ {s}, o \in Session : Hit(a, o)' = Hit(a, o)
    BY <2>1 DEF Hit
  <2>3. \A a, o \in Session : WillTake(a, o)' => a # s /\ WillTake(a, o)
    BY <2>1, <2>2 DEF WillTake
  <2>4. MayRun(s)
    BY <1>2 DEF TouchLoad, ReleaseLoad
  <2>5. LockInv'
    BY <2>1 DEF LockInv, Deciding
  <2>6. CopyInv' /\ ScanInv' /\ Exclusive'
    BY <2>1 DEF CopyInv, ScanInv, HasRead, Exclusive
  <2>7. OwnerInv'
    BY <2>1, <2>3, <2>4, OwnerIsQuiet DEF OwnerInv, BetweenLoadAndSave
  <2>8. ClearInv'
    BY <2>1, <2>2 DEF ClearInv
  <2> QED BY <1>0, <2>5, <2>6, <2>7, <2>8
<1>3. ASSUME NEW s \in Session,
             \/ TouchSave(s) \/ ReleaseSave(s)
             \/ Refuse(s) \/ Log(s) \/ Crash(s)
      PROVE  IInv'
  <2>1. /\ Finish(s)
        /\ \/ UNCHANGED file
           \/ /\ pc[s] \in {"touch", "release"}
              /\ file' = [file EXCEPT ![s] = copy[s]]
        /\ lock' = lock \/ lock = s
    BY <1>3 DEF TouchSave, ReleaseSave, Refuse, Log, Crash, LockInv, Deciding,
       TypeOK
  <2> QED BY <1>0, <2>1, EndStep DEF LockInv
<1>4. ASSUME NEW s \in Session, NEW C \in Requests, NEW t \in BOOLEAN,
             ClaimLock(s, C, t)
      PROVE  IInv'
  <2>1. /\ UNCHANGED <<file, copy, scanned>>
        /\ pc'[s] = "scan" /\ todo'[s] = Session \ {s}
        /\ take'[s] => s \in MayTake
        /\ lock = Nobody /\ lock' = s
        /\ \A o \in Session \ {s} : /\ pc'[o] = pc[o] /\ want'[o] = want[o]
                                    /\ take'[o] = take[o] /\ todo'[o] = todo[o]
    BY <1>4 DEF ClaimLock, TypeOK
  <2>2. \A a \in Session \ {s}, o \in Session : Hit(a, o)' = Hit(a, o)
    BY <2>1 DEF Hit
  <2>3. \A a \in Session \ {s} : pc[a] \notin Deciding
    BY <2>1, BoardAssumption DEF LockInv
  <2>4. \A a, o \in Session : ~HasRead(a, o)' /\ ~WillTake(a, o)'
    BY <2>1, <2>3 DEF HasRead, WillTake, Deciding
  <2>5. LockInv'
    BY <2>1, <2>3 DEF LockInv
  <2>6. CopyInv' /\ ScanInv' /\ OwnerInv' /\ Exclusive'
    BY <2>1, <2>4 DEF CopyInv, ScanInv, OwnerInv, Exclusive
  <2>7. ClearInv'
    BY <2>1, <2>3 DEF ClearInv, Deciding
  <2> QED BY <1>0, <2>5, <2>6, <2>7
<1>5. ASSUME NEW s \in Session, NEW o \in Session, Scan(s, o)
      PROVE  IInv'
  <2>1. /\ UNCHANGED <<file, pc, copy, want, take, lock>>
        /\ pc[s] = "scan" /\ scanned'[s][o] = file[o]
        /\ OwnersStayQuiet /\ take[s] => ~BetweenLoadAndSave(o)
        /\ todo'[s] = todo[s] \ {o}
        /\ \A b \in Session \ {o} : scanned'[s][b] = scanned[s][b]
        /\ \A a \in Session \ {s} : /\ scanned'[a] = scanned[a]
                                    /\ todo'[a] = todo[a]
    BY <1>5 DEF Scan, TypeOK
  <2>2. \A a, b \in Session : a # s \/ b # o => Hit(a, b)' = Hit(a, b)
    BY <2>1 DEF Hit
  <2>3. LockInv' /\ CopyInv' /\ Exclusive'
    BY <2>1 DEF LockInv, CopyInv, Exclusive
  <2>4. ScanInv'
    BY <2>1 DEF ScanInv, HasRead
  <2>5. ASSUME NEW a \in Session, NEW b \in Session, WillTake(a, b)'
        PROVE  (~BetweenLoadAndSave(b)
                /\ scanned[a][b].claims \subseteq file[b].claims)'
    <3>1. CASE a = s /\ b = o
      <4>1. take[s] /\ s \in MayTake
        BY <2>1, <2>5, <3>1 DEF WillTake, LockInv
      <4> QED BY <2>1, <3>1, <4>1 DEF Undisturbed, BetweenLoadAndSave
    <3>2. CASE a # s \/ b # o
      <4>1. WillTake(a, b)
        BY <2>1, <2>2, <2>5, <3>2 DEF WillTake
      <4> QED BY <2>1, <3>2, <4>1 DEF OwnerInv, BetweenLoadAndSave
    <3> QED BY <3>1, <3>2
  <2>6. OwnerInv'
    BY <2>5 DEF OwnerInv
  <2>7. ClearInv'
    BY <2>1, <2>2, BoardAssumption DEF ClearInv, LockInv, Deciding
  <2> QED BY <1>0, <2>3, <2>4, <2>6, <2>7
<1>6. ASSUME NEW s \in Session, Decide(s)
      PROVE  IInv'
  <2>1. /\ UNCHANGED <<file, copy, want, take, scanned, lock>>
        /\ pc[s] = "scan" /\ todo[s] = {} /\ pc'[s] = "cede"
        /\ todo'[s] = {o \in Session \ {s} : Hit(s, o) # {}}
        /\ \A o \in Session \ {s} : Hit(s, o) # {} => take[s]
        /\ \A a \in Session \ {s} : /\ pc'[a] = pc[a]
                                    /\ todo'[a] = todo[a]
    BY <1>6 DEF Decide, Blocks, TypeOK
  <2>2. \A a, b \in Session : Hit(a, b)' = Hit(a, b)
    BY <2>1 DEF Hit
  <2>3. LockInv' /\ CopyInv' /\ Exclusive'
    BY <2>1 DEF LockInv, CopyInv, Exclusive, Deciding
  <2>4. ScanInv'
    BY <2>1 DEF ScanInv, HasRead
  <2>5. \A a, b \in Session : WillTake(a, b)' => WillTake(a, b)
    BY <2>1, <2>2 DEF WillTake
  <2>6. OwnerInv'
    BY <2>1, <2>5 DEF OwnerInv, BetweenLoadAndSave
  <2>7. ASSUME NEW o \in Session \ {s}, o \notin todo'[s]
        PROVE  \A c \in want[s], d \in file[o].claims : <<c, d>> \notin Overlap
    <3>1. Hit(s, o) = {} /\ file[o].claims \subseteq scanned[s][o].claims
      BY <2>1, <2>7 DEF ScanInv, HasRead
    <3> QED BY <3>1 DEF Hit
  <2>8. ClearInv'
    BY <2>1, <2>2, <2>7 DEF ClearInv
  <2> QED BY <1>0, <2>3, <2>4, <2>6, <2>8
<1>7. ASSUME NEW s \in Session, NEW o \in Session, Cede(s, o)
      PROVE  IInv'
  <2> DEFINE left == scanned[s][o].claims \ Hit(s, o)
  <2>1. /\ UNCHANGED <<copy, want, take, scanned, lock>>
        /\ pc[s] = "cede" /\ o \in todo[s] /\ pc'[s] = "notify"
        /\ todo'[s] = todo[s] \ {o}
        /\ \A a \in Session \ {s} : /\ pc'[a] = pc[a]
                                    /\ todo'[a] = todo[a]
        /\ \A b \in Session \ {o} : file'[b] = file[b]
        /\ file'[o].claims = left
    <3>1. scanned[s][o] \in Record
      BY DEF TypeOK
    <3>2. [scanned[s][o] EXCEPT !.claims = @ \ Hit(s, o),
                                !.ceded = @ \cup Hit(s, o)].claims = left
      BY <3>1 DEF Record
    <3> HIDE DEF left
    <3> QED BY <1>7, <3>2 DEF Cede, TypeOK
  <2>2. \A a, b \in Session : Hit(a, b)' = Hit(a, b)
    BY <2>1 DEF Hit
  <2>3. \A a \in Session \ {s} : pc[a] \notin Deciding
    BY <2>1, BoardAssumption DEF LockInv, Deciding
  <2>4. o # s /\ left \subseteq file[o].claims /\ ~BetweenLoadAndSave(o)
    <3>1. o # s
      BY <2>1 DEF TodoInv
    <3>2. WillTake(s, o)
      BY <2>1, <3>1 DEF WillTake, ClearInv
    <3> QED BY <3>1, <3>2 DEF OwnerInv
  <2>5. \A b \in Session : file'[b].claims \subseteq file[b].claims
    BY <2>1, <2>4
  <2>6. LockInv' /\ Exclusive'
    BY <2>1, <2>5 DEF LockInv, Exclusive, Deciding
  <2>7. CopyInv'
    BY <2>1, <2>3, <2>4 DEF CopyInv, BetweenLoadAndSave, Deciding
  <2>8. ScanInv'
    BY <2>1, <2>3, <2>5 DEF ScanInv, HasRead, Deciding
  <2>9. \A a, b \in Session : WillTake(a, b)' =>
          WillTake(a, b) /\ a = s /\ b # o
    BY <2>1, <2>2, <2>3 DEF WillTake, Deciding
  <2>10. OwnerInv'
    BY <2>1, <2>9 DEF OwnerInv, BetweenLoadAndSave
  <2>11. \A c \in want[s], d \in file'[o].claims : <<c, d>> \notin Overlap
    BY <2>1 DEF Hit
  <2>12. ClearInv'
    BY <2>1, <2>2, <2>3, <2>5, <2>11 DEF ClearInv, Deciding
  <2> QED BY <1>0, <2>6, <2>7, <2>8, <2>10, <2>12
<1>8. ASSUME NEW s \in Session, Notify(s)
      PROVE  IInv'
  <2>1. /\ UNCHANGED <<file, copy, want, take, scanned, todo, lock>>
        /\ pc[s] = "notify" /\ pc'[s] = "cede"
        /\ \A a \in Session \ {s} : pc'[a] = pc[a]
    BY <1>8 DEF Notify, process, TypeOK
  <2>2. \A a, b \in Session : Hit(a, b)' = Hit(a, b)
    BY <2>1 DEF Hit
  <2>3. \A a, b \in Session : WillTake(a, b)' => WillTake(a, b)
    BY <2>1, <2>2 DEF WillTake
  <2>4. LockInv' /\ CopyInv' /\ ScanInv' /\ Exclusive'
    BY <2>1 DEF LockInv, CopyInv, ScanInv, HasRead, Exclusive, Deciding
  <2>5. OwnerInv' /\ ClearInv'
    BY <2>1, <2>2, <2>3 DEF OwnerInv, ClearInv, BetweenLoadAndSave
  <2> QED BY <1>0, <2>4, <2>5
<1>9. ASSUME NEW s \in Session, Enter(s)
      PROVE  IInv'
  <2>1. /\ UNCHANGED <<want, take, scanned, todo, lock>>
        /\ pc[s] = "cede" /\ todo[s] = {} /\ pc'[s] = "grant"
        /\ \A a \in Session \ {s} : pc'[a] = pc[a] /\ copy'[a] = copy[a]
        /\ \A b \in Session : file'[b].claims = file[b].claims
        /\ copy'[s].claims = file[s].claims
    <3>1. /\ file[s] \in Record
          /\ [file[s] EXCEPT !.seen = now].claims = file[s].claims
      BY DEF TypeOK, Record
    <3> QED BY <1>9, <3>1 DEF Enter, TypeOK
  <2>2. \A a, b \in Session : Hit(a, b)' = Hit(a, b)
    BY <2>1 DEF Hit
  <2>3. \A a, b \in Session : WillTake(a, b)' => WillTake(a, b)
    BY <2>1, <2>2 DEF WillTake
  <2>4. LockInv' /\ CopyInv' /\ ScanInv' /\ Exclusive'
    BY <2>1 DEF LockInv, CopyInv, ScanInv, HasRead, Exclusive, Deciding
  <2>5. OwnerInv' /\ ClearInv'
    BY <2>1, <2>2, <2>3 DEF OwnerInv, ClearInv, BetweenLoadAndSave
  <2> QED BY <1>0, <2>4, <2>5
<1>10. ASSUME NEW s \in Session, Grant(s)
       PROVE  IInv'
  <2>1. /\ UNCHANGED <<copy, want, take, scanned, todo, lock>>
        /\ pc[s] = "grant" /\ pc'[s] = "log"
        /\ \A a \in Session \ {s} : pc'[a] = pc[a] /\ file'[a] = file[a]
        /\ file'[s].claims \subseteq file[s].claims \cup want[s]
    <3>1. /\ copy[s] \in Record
          /\ [copy[s] EXCEPT !.claims = @ \cup want[s]].claims
               = copy[s].claims \cup want[s]
      BY DEF TypeOK, Record
    <3> QED BY <1>10, <3>1 DEF Grant, process, TypeOK, CopyInv
  <2>2. \A a \in Session \ {s} : pc[a] \notin Deciding
    BY <2>1, BoardAssumption DEF LockInv, Deciding
  <2>3. \A a, b \in Session : ~HasRead(a, b)' /\ ~WillTake(a, b)'
    BY <2>1, <2>2 DEF HasRead, WillTake, Deciding
  <2>4. LockInv' /\ ScanInv' /\ OwnerInv'
    BY <2>1, <2>3 DEF LockInv, ScanInv, OwnerInv, Deciding
  <2>5. CopyInv' /\ ClearInv'
    BY <2>1, <2>2 DEF CopyInv, ClearInv, Deciding
  <2>6. Exclusive'
    <3>1. \A o \in Session \ {s} : \A c \in want[s], d \in file[o].claims :
            <<c, d>> \notin Overlap /\ <<d, c>> \notin Overlap
      BY <2>1, BoardAssumption DEF ClearInv, TypeOK, Record
    <3> QED BY <2>1, <3>1 DEF Exclusive
  <2> QED BY <1>0, <2>4, <2>5, <2>6
<1>11. CASE UNCHANGED vars
  BY <1>0, <1>11, IdleStep DEF vars
<1>12. Requests \subseteq SUBSET Claim
  BY BoardAssumption
<1> QED
  BY <1>1, <1>2, <1>3, <1>4, <1>5, <1>6, <1>7, <1>8, <1>9, <1>10, <1>11,
     <1>12 DEF Next, Call, Save, ClaimStep

LEMMA ExclusiveInit == Init => IInv
BY BoardAssumption DEF Init, IInv, TypeOK, Record, Blank, LockInv, CopyInv,
   ScanInv, HasRead, OwnerInv, WillTake, ClearInv, Exclusive, Deciding, TodoInv

\* Two sessions never hold overlapping claims, whatever the interleaving and
\* whoever is killed, if nobody uses --take or owners stay quiet meanwhile.
THEOREM BoardExclusive == Undisturbed /\ Spec => []Exclusive
<1>1. Init => IInv
  BY ExclusiveInit
<1>2. Undisturbed /\ IInv /\ [Next]_vars => IInv'
  BY ExclusiveStep
<1>3. IInv => Exclusive
  BY DEF IInv
<1>4. CASE Undisturbed
  <2>1. IInv /\ [Next]_vars => IInv'
    BY <1>2, <1>4
  <2> QED BY <1>1, <1>3, <2>1, PTL DEF Spec
<1>5. CASE ~Undisturbed
  BY <1>5
<1> QED BY <1>4, <1>5
-----------------------------------------------------------------------------
(***************************************************************************)
(* What happens to the files, step by step: hence the refinement of        *)
(* ClaimPromise, what a session loses and what stays on record.  Under the *)
(* same condition, the files change under nobody's hands.                  *)
(***************************************************************************)

\* A record that is about to be saved differs from the file by what the
\* operation changes, and by nothing that happened since it was loaded.
SaveInv ==
  \A s \in Session : pc[s] \in {"touch", "release", "grant"} =>
    /\ copy[s].ceded = file[s].ceded
    /\ copy[s].claims = IF pc[s] = "release" THEN file[s].claims \ want[s]
                        ELSE file[s].claims

\* A record that is about to be rewritten is as it was read, and stale once
\* the decision is made.
SameInv ==
  \A s, o \in Session : WillTake(s, o) =>
    /\ scanned[s][o] = file[o]
    /\ pc[s] \in {"cede", "notify"} => Stale(file[o])

\* A notice is about claims on record.
NoticeInv ==
  \A s \in Session : pc[s] = "notify" =>
    robbed[s] \in Session /\ Hit(s, robbed[s]) \subseteq file[robbed[s]].ceded

QuietInv ==
  IInv /\ SaveInv /\ SameInv /\ NoticeInv /\ CededOnRecord

\* The fields of a record after an update.
LEMMA UpdatedFields ==
  ASSUME NEW r \in Record, NEW C, NEW D, NEW n
  PROVE  /\ [r EXCEPT !.seen = n].claims = r.claims
         /\ [r EXCEPT !.seen = n].ceded = r.ceded
         /\ [r EXCEPT !.claims = C].claims = C
         /\ [r EXCEPT !.claims = C].ceded = r.ceded
         /\ [r EXCEPT !.claims = C, !.ceded = D].claims = C
         /\ [r EXCEPT !.claims = C, !.ceded = D].ceded = D
BY DEF Record

\* Nothing happens to what o holds and to what was taken from it.
Keeps(o) == file'[o].claims = file[o].claims /\ file'[o].ceded = file[o].ceded

\* o gives up the claims it was asked to release.
GivesUp(o) ==
  /\ pc[o] = "release" /\ file'[o].claims = file[o].claims \ want[o]
  /\ file'[o].ceded = file[o].ceded

\* o adds the claims it wants, with nobody in the way.
Wins(o) ==
  /\ pc[o] = "grant" /\ file'[o].claims = file[o].claims \cup want[o]
  /\ file'[o].ceded = file[o].ceded
  /\ \A b \in Session \ {o} : \A c \in want[o], d \in file[b].claims :
       <<c, d>> \notin Overlap

\* s moves what is in its way from the claims of o to its ceded ones.
Loses(s, o) ==
  /\ Cede(s, o) /\ o # s /\ Stale(file[o]) /\ Hit(s, o) \subseteq file[o].claims
  /\ file'[o].claims = file[o].claims \ Hit(s, o)
  /\ file'[o].ceded = file[o].ceded \cup Hit(s, o)

\* Each step changes one file, in one of these ways, or none.
LEMMA FileStep ==
  ASSUME QuietInv, Undisturbed, [Next]_vars
  PROVE  \/ \A o \in Session : Keeps(o)
         \/ \E o \in Session :
              /\ \A b \in Session \ {o} : file'[b] = file[b]
              /\ GivesUp(o) \/ Wins(o) \/ \E s \in Session : Loses(s, o)
<1> DEFINE Goal == \/ \A o \in Session : Keeps(o)
                   \/ \E o \in Session :
                        /\ \A b \in Session \ {o} : file'[b] = file[b]
                        /\ \/ GivesUp(o) \/ Wins(o)
                           \/ \E s \in Session : Loses(s, o)
<1>1. /\ \A o \in Session : file[o] \in Record /\ copy[o] \in Record
      /\ \A s, o \in Session : scanned[s][o] \in Record
      /\ file \in [Session -> Record]
  BY DEF QuietInv, IInv, TypeOK
<1>2. CASE UNCHANGED file
  BY <1>2 DEF Keeps
<1>3. ASSUME NEW s \in Session, TouchSave(s) \/ ReleaseSave(s)
      PROVE  Goal
  <2>1. file' = [file EXCEPT ![s] = copy[s]]
        /\ pc[s] \in {"touch", "release"}
    BY <1>3 DEF TouchSave, ReleaseSave
  <2>2. /\ copy[s].ceded = file[s].ceded
        /\ copy[s].claims = IF pc[s] = "release" THEN file[s].claims \ want[s]
                            ELSE file[s].claims
    BY <2>1 DEF QuietInv, SaveInv
  <2> QED BY <1>1, <2>1, <2>2 DEF Keeps, GivesUp
<1>4. ASSUME NEW s \in Session, Enter(s)
      PROVE  Goal
  <2>1. file' = [file EXCEPT ![s] = [file[s] EXCEPT !.seen = now]]
    BY <1>4 DEF Enter
  <2> QED BY <1>1, <2>1, UpdatedFields DEF Keeps
<1>5. ASSUME NEW s \in Session, Grant(s)
      PROVE  Goal
  <2>1. /\ file' = [file EXCEPT ![s] =
                      [copy[s] EXCEPT !.claims = copy[s].claims \cup want[s]]]
        /\ pc[s] = "grant"
    BY <1>5 DEF Grant
  <2>2. copy[s].ceded = file[s].ceded /\ copy[s].claims = file[s].claims
    BY <2>1 DEF QuietInv, SaveInv
  <2>3. \A b \in Session \ {s} : \A c \in want[s], d \in file[b].claims :
          <<c, d>> \notin Overlap
    BY <2>1 DEF QuietInv, IInv, ClearInv
  <2>4. /\ file'[s].claims = file[s].claims \cup want[s]
        /\ file'[s].ceded = file[s].ceded
    BY <1>1, <2>1, <2>2, UpdatedFields
  <2>5. Wins(s)
    BY <2>1, <2>3, <2>4 DEF Wins
  <2> QED BY <1>1, <2>1, <2>5
<1>6. ASSUME NEW s \in Session, NEW o \in Session, Cede(s, o)
      PROVE  Goal
  <2>1. /\ file' = [file EXCEPT ![o] =
                      [scanned[s][o] EXCEPT
                         !.claims = scanned[s][o].claims \ Hit(s, o),
                         !.ceded = scanned[s][o].ceded \cup Hit(s, o)]]
        /\ pc[s] = "cede" /\ o \in todo[s]
    BY <1>6 DEF Cede
  <2>2. o # s /\ WillTake(s, o)
    BY <2>1 DEF QuietInv, IInv, TodoInv, ClearInv, WillTake
  <2>3. scanned[s][o] = file[o] /\ Stale(file[o])
    BY <2>1, <2>2 DEF QuietInv, SameInv
  <2>4. Hit(s, o) \subseteq file[o].claims
    BY <2>3 DEF Hit
  <2>5. /\ file'[o].claims = file[o].claims \ Hit(s, o)
        /\ file'[o].ceded = file[o].ceded \cup Hit(s, o)
    BY <1>1, <2>1, <2>3, UpdatedFields
  <2>6. Loses(s, o)
    BY <1>6, <2>2, <2>3, <2>4, <2>5 DEF Loses
  <2> QED BY <1>1, <2>1, <2>6
<1>7. CASE \/ Tick \/ UNCHANGED vars
           \/ \E s \in Session : \/ Call(s) \/ Refuse(s) \/ Decide(s)
                                 \/ Notify(s) \/ Log(s) \/ Crash(s)
                                 \/ \E o \in Session : Scan(s, o)
  BY <1>2, <1>7 DEF Tick, vars, Call, TouchLoad, ReleaseLoad, ClaimLock, Refuse,
                    Decide, Notify, Log, Crash, Scan
<1> QED
  BY <1>3, <1>4, <1>5, <1>6, <1>7 DEF Next, Save, ClaimStep

\* What was taken stays on record.
LEMMA CededGrows ==
  ASSUME QuietInv, Undisturbed, [Next]_vars, NEW o \in Session
  PROVE  file[o].ceded \subseteq file'[o].ceded
BY FileStep DEF Keeps, GivesUp, Wins, Loses

\* What the end of the process of s leaves to the others.
LEMMA FinishOthers ==
  ASSUME TypeOK, NEW s \in Session, Finish(s)
  PROVE  /\ pc'[s] = "idle" /\ copy'[s] = Blank /\ robbed'[s] = Nobody
         /\ ~take'[s] /\ scanned'[s] = [o \in Session |-> Blank]
         /\ \A a \in Session \ {s} :
              /\ pc'[a] = pc[a] /\ copy'[a] = copy[a] /\ want'[a] = want[a]
              /\ take'[a] = take[a] /\ scanned'[a] = scanned[a]
              /\ todo'[a] = todo[a] /\ robbed'[a] = robbed[a]
BY DEF Finish, TypeOK

\* Nobody else is inside `claim`.
LEMMA Alone ==
  ASSUME IInv, NEW s \in Session, pc[s] \in Deciding
  PROVE  lock = s /\ \A a \in Session \ {s} : pc[a] \notin Deciding
BY BoardAssumption DEF IInv, LockInv

\* The records about to be saved.
LEMMA SaveStep ==
  ASSUME QuietInv, Undisturbed, [Next]_vars
  PROVE  SaveInv'
<1>1. IInv /\ TypeOK /\ SaveInv /\ SameInv
  BY DEF QuietInv, IInv
<1>2. CASE UNCHANGED <<file, pc, copy, want>>
  BY <1>1, <1>2 DEF SaveInv
<1>3. ASSUME NEW s \in Session, NEW C, TouchLoad(s) \/ ReleaseLoad(s, C)
      PROVE  SaveInv'
  <2>1. file[s] \in Record
    BY <1>1 DEF TypeOK
  <2>2. /\ UNCHANGED file
        /\ \A a \in Session \ {s} : /\ pc'[a] = pc[a] /\ copy'[a] = copy[a]
                                    /\ want'[a] = want[a]
    BY <1>1, <1>3 DEF TouchLoad, ReleaseLoad, TypeOK
  <2>3. CASE TouchLoad(s)
    <3>1. pc'[s] = "touch" /\ copy'[s] = [file[s] EXCEPT !.seen = now]
      BY <1>1, <2>3 DEF TouchLoad, TypeOK
    <3>2. copy'[s].ceded = file[s].ceded /\ copy'[s].claims = file[s].claims
      BY <2>1, <3>1, UpdatedFields
    <3> QED BY ZenonT(30), <1>1, <2>2, <3>1, <3>2 DEF SaveInv
  <2>4. CASE ReleaseLoad(s, C)
    <3>1. /\ pc'[s] = "release" /\ want'[s] = C
          /\ copy'[s] = [file[s] EXCEPT !.claims = file[s].claims \ C]
      BY <1>1, <2>4 DEF ReleaseLoad, TypeOK
    <3>2. /\ copy'[s].ceded = file[s].ceded
          /\ copy'[s].claims = file[s].claims \ C
      BY <2>1, <3>1, UpdatedFields
    <3> QED BY ZenonT(30), <1>1, <2>2, <3>1, <3>2 DEF SaveInv
  <2> QED BY <1>3, <2>3, <2>4
<1>4. ASSUME NEW s \in Session,
             Save(s) \/ Refuse(s) \/ Log(s) \/ Crash(s)
      PROVE  SaveInv'
  <2>1. Finish(s) /\ (file' = file \/ file' = [file EXCEPT ![s] = copy[s]])
    BY <1>4 DEF Save, TouchSave, ReleaseSave, Refuse, Log, Crash
  <2>2. \A a \in Session \ {s} : file'[a] = file[a]
    BY <1>1, <2>1 DEF TypeOK
  <2>3. pc'[s] = "idle"
    BY <1>1, <2>1, FinishOthers
  <2>4. \A a \in Session \ {s} : /\ pc'[a] = pc[a] /\ copy'[a] = copy[a]
                                  /\ want'[a] = want[a]
    BY <1>1, <2>1, FinishOthers
  <2> QED BY <1>1, <2>2, <2>3, <2>4 DEF SaveInv
<1>5. ASSUME NEW s \in Session, NEW C, NEW t,
             ClaimLock(s, C, t) \/ Decide(s) \/ Notify(s)
      PROVE  SaveInv'
  <2>1. /\ UNCHANGED <<file, copy>>
        /\ pc'[s] \notin {"touch", "release", "grant"}
        /\ \A a \in Session \ {s} : pc'[a] = pc[a] /\ want'[a] = want[a]
    BY <1>1, <1>5 DEF ClaimLock, Decide, Notify, process, TypeOK
  <2> QED BY <1>1, <2>1 DEF SaveInv
<1>6. ASSUME NEW s \in Session, NEW o \in Session, Cede(s, o)
      PROVE  SaveInv'
  <2>1. /\ UNCHANGED <<copy, want>> /\ pc[s] = "cede" /\ o \in todo[s]
        /\ pc'[s] = "notify"
        /\ \A a \in Session \ {s} : pc'[a] = pc[a]
        /\ \A a \in Session \ {o} : file'[a] = file[a]
    BY <1>1, <1>6 DEF Cede, TypeOK
  <2>2. o # s /\ WillTake(s, o)
    BY <1>1, <2>1 DEF IInv, TodoInv, ClearInv, WillTake
  <2>3. pc[o] \notin {"touch", "release", "grant"}
    BY <1>1, <2>1, <2>2, Alone DEF IInv, OwnerInv, BetweenLoadAndSave, Deciding
  <2> QED BY <1>1, <2>1, <2>2, <2>3 DEF SaveInv
<1>7. ASSUME NEW s \in Session, Enter(s)
      PROVE  SaveInv'
  <2>1. file[s] \in Record
    BY <1>1 DEF TypeOK
  <2>2. /\ file'[s] = [file[s] EXCEPT !.seen = now] /\ copy'[s] = file'[s]
        /\ pc'[s] = "grant"
        /\ \A a \in Session \ {s} : /\ pc'[a] = pc[a] /\ copy'[a] = copy[a]
                                    /\ want'[a] = want[a] /\ file'[a] = file[a]
    BY <1>1, <1>7 DEF Enter, TypeOK
  <2> QED BY <1>1, <2>2 DEF SaveInv
<1>8. ASSUME NEW s \in Session, Grant(s)
      PROVE  SaveInv'
  <2>1. /\ pc'[s] = "log"
        /\ \A a \in Session \ {s} : /\ pc'[a] = pc[a] /\ copy'[a] = copy[a]
                                    /\ want'[a] = want[a] /\ file'[a] = file[a]
    BY <1>1, <1>8 DEF Grant, process, TypeOK
  <2> QED BY <1>1, <2>1 DEF SaveInv
<1>9. CASE Tick \/ UNCHANGED vars \/ \E s, o \in Session : Scan(s, o)
  BY <1>2, <1>9 DEF Tick, vars, process, Scan
<1> QED
  BY <1>3, <1>4, <1>5, <1>6, <1>7, <1>8, <1>9 DEF Next, Call, ClaimStep

\* A stale record only gets older.
LEMMA StaysStale ==
  ASSUME TypeOK, NEW o \in Session, Stale(file[o]), file'[o] = file[o],
         now' = now \/ now' = now + 1
  PROVE  Stale(file[o])'
<1>1. /\ file[o].seen \in Nat /\ now \in Nat /\ StaleAfter \in Nat
  BY BoardAssumption DEF TypeOK, Record
<1> QED BY <1>1 DEF Stale

\* The records about to be rewritten.
LEMMA SameStep ==
  ASSUME QuietInv, Undisturbed, [Next]_vars
  PROVE  SameInv'
<1>1. IInv /\ TypeOK /\ SameInv
  BY DEF QuietInv, IInv
<1>2. now' = now \/ now' = now + 1
  BY ZenonT(30) DEF Next, vars, Tick, Call, TouchLoad, ReleaseLoad, ClaimLock, Save,
         TouchSave, ReleaseSave, ClaimStep, Scan, Cede, Refuse, Decide, Notify,
         Enter, Grant, Log, Crash
<1> DEFINE Kept(s, o) == /\ WillTake(s, o) /\ file'[o] = file[o]
                         /\ scanned'[s][o] = scanned[s][o]
                         /\ pc'[s] \in {"cede", "notify"} =>
                              \/ pc[s] \in {"cede", "notify"}
                              \/ Stale(file[o])
<1>3. ASSUME NEW s \in Session, NEW o \in Session, Kept(s, o)
      PROVE  /\ scanned'[s][o] = file'[o]
             /\ pc'[s] \in {"cede", "notify"} => Stale(file[o])'
  BY <1>1, <1>2, <1>3, StaysStale DEF SameInv
<1> HIDE DEF Kept
<1>4. ASSUME \A s, o \in Session : WillTake(s, o)' => Kept(s, o)
      PROVE  SameInv'
  BY <1>3, <1>4 DEF SameInv
<1>5. ASSUME UNCHANGED <<file, pc, want, take, scanned, todo>>
      PROVE  SameInv'
  <2>1. \A s, o \in Session : Hit(s, o)' = Hit(s, o)
    BY <1>5 DEF Hit
  <2>2. \A s, o \in Session : WillTake(s, o)' => Kept(s, o)
    BY <1>5, <2>1 DEF WillTake, Kept
  <2> QED BY <1>4, <2>2
<1>6. ASSUME NEW s \in Session, NEW C, TouchLoad(s) \/ ReleaseLoad(s, C)
      PROVE  SameInv'
  <2>1. /\ UNCHANGED <<file, take, scanned, todo>>
        /\ pc'[s] \notin Deciding
        /\ \A a \in Session \ {s} : pc'[a] = pc[a] /\ want'[a] = want[a]
    BY <1>1, <1>6 DEF TouchLoad, ReleaseLoad, TypeOK, Deciding
  <2>2. \A a \in Session \ {s}, o \in Session : Hit(a, o)' = Hit(a, o)
    BY <2>1 DEF Hit
  <2>3. \A a, o \in Session : WillTake(a, o)' => Kept(a, o)
    BY <2>1, <2>2 DEF WillTake, Deciding, Kept
  <2> QED BY <1>4, <2>3
<1>7. ASSUME NEW s \in Session,
             Save(s) \/ Refuse(s) \/ Log(s) \/ Crash(s)
      PROVE  SameInv'
  <2>1. /\ Finish(s) /\ \A a \in Session \ {s} : file'[a] = file[a]
        /\ file'[s] = file[s] \/ BetweenLoadAndSave(s)
    BY <1>1, <1>7 DEF Save, TouchSave, ReleaseSave, Refuse, Log, Crash, TypeOK,
                      BetweenLoadAndSave
  <2>2. \A a \in Session \ {s}, o \in Session :
          Hit(a, o)' = Hit(a, o) /\ pc'[a] = pc[a] /\ scanned'[a] = scanned[a]
          /\ take'[a] = take[a] /\ todo'[a] = todo[a]
    BY <1>1, <2>1, FinishOthers DEF Hit
  <2>3. ~take'[s]
    BY <1>1, <2>1, FinishOthers
  <2>4. ASSUME NEW a \in Session, NEW o \in Session, WillTake(a, o)'
        PROVE  Kept(a, o)
    <3>1. a # s
      BY <2>3, <2>4 DEF WillTake
    <3>2. WillTake(a, o)
      BY <2>2, <2>4, <3>1 DEF WillTake
    <3>3. file'[o] = file[o]
      BY <1>1, <2>1, <3>2, OwnerIsQuiet
    <3> QED BY <2>2, <3>1, <3>2, <3>3 DEF Kept
  <2> QED BY <1>4, <2>4
<1>8. ASSUME NEW s \in Session, NEW C, NEW t, ClaimLock(s, C, t)
      PROVE  SameInv'
  <2>1. /\ UNCHANGED <<file, scanned>> /\ lock = Nobody
        /\ pc'[s] = "scan" /\ todo'[s] = Session \ {s}
        /\ \A a \in Session \ {s} : /\ pc'[a] = pc[a] /\ want'[a] = want[a]
                                    /\ take'[a] = take[a] /\ todo'[a] = todo[a]
    BY <1>1, <1>8 DEF ClaimLock, TypeOK
  <2>2. \A a \in Session \ {s}, o \in Session : Hit(a, o)' = Hit(a, o)
    BY <2>1 DEF Hit
  <2>3. \A a, o \in Session : WillTake(a, o)' => Kept(a, o)
    BY <2>1, <2>2 DEF WillTake, Kept
  <2> QED BY <1>4, <2>3
<1>9. ASSUME NEW s \in Session, NEW x \in Session, Scan(s, x)
      PROVE  SameInv'
  <2>1. /\ UNCHANGED <<file, pc, want, take>> /\ pc[s] = "scan"
        /\ scanned'[s][x] = file[x] /\ todo'[s] = todo[s] \ {x}
        /\ \A a, b \in Session : (a # s \/ b # x) =>
             scanned'[a][b] = scanned[a][b]
        /\ \A a \in Session \ {s} : todo'[a] = todo[a]
    BY <1>1, <1>9 DEF Scan, TypeOK
  <2>2. \A a, b \in Session : (a # s \/ b # x) => Hit(a, b)' = Hit(a, b)
    BY <2>1 DEF Hit
  <2>3. \A a, b \in Session : (a # s \/ b # x) /\ WillTake(a, b)' => Kept(a, b)
    BY <2>1, <2>2 DEF WillTake, Kept
  <2> QED BY <1>3, <2>1, <2>3 DEF SameInv
<1>10. ASSUME NEW s \in Session, Decide(s)
       PROVE  SameInv'
  <2>1. /\ UNCHANGED <<file, want, take, scanned>> /\ pc[s] = "scan"
        /\ pc'[s] = "cede" /\ todo[s] = {}
        /\ \A o \in Session \ {s} : ~Blocks(s, o)
        /\ \A a \in Session \ {s} : pc'[a] = pc[a] /\ todo'[a] = todo[a]
    BY <1>1, <1>10 DEF Decide, TypeOK
  <2>2. \A a, b \in Session : Hit(a, b)' = Hit(a, b)
    BY <2>1 DEF Hit
  <2>3. ASSUME NEW a \in Session, NEW o \in Session, WillTake(a, o)'
        PROVE  Kept(a, o)
    <3>1. CASE a # s
      BY <2>1, <2>2, <2>3, <3>1 DEF WillTake, Kept
    <3>2. CASE a = s
      <4>1. WillTake(s, o)
        BY <2>1, <2>2, <2>3, <3>2 DEF WillTake
      <4>2. scanned[s][o] = file[o]
        BY <1>1, <4>1 DEF SameInv
      <4>3. Stale(file[o])
        BY <2>1, <4>1, <4>2 DEF Blocks, WillTake
      <4> QED BY <2>1, <3>2, <4>1, <4>3 DEF Kept
    <3> QED BY <3>1, <3>2
  <2> QED BY <1>4, <2>3
<1>11. ASSUME NEW s \in Session, NEW x \in Session, Cede(s, x)
       PROVE  SameInv'
  <2>1. /\ UNCHANGED <<want, take, scanned>> /\ pc[s] = "cede"
        /\ pc'[s] = "notify" /\ todo'[s] = todo[s] \ {x}
        /\ \A a \in Session \ {s} : pc'[a] = pc[a] /\ todo'[a] = todo[a]
        /\ \A a \in Session \ {x} : file'[a] = file[a]
    BY <1>1, <1>11 DEF Cede, TypeOK
  <2>2. \A a, b \in Session : Hit(a, b)' = Hit(a, b)
    BY <2>1 DEF Hit
  <2>3. \A a \in Session \ {s} : pc[a] \notin Deciding
    BY <1>1, <2>1, Alone DEF Deciding
  <2>4. \A a, o \in Session :
          WillTake(a, o)' => a = s /\ o # x /\ WillTake(a, o)
    BY <2>1, <2>2, <2>3 DEF WillTake, Deciding
  <2>5. \A a, o \in Session : WillTake(a, o)' => Kept(a, o)
    BY <2>1, <2>4 DEF Kept
  <2> QED BY <1>4, <2>5
<1>12. ASSUME NEW s \in Session, Notify(s)
       PROVE  SameInv'
  <2>1. /\ UNCHANGED <<file, want, take, scanned, todo>> /\ pc[s] = "notify"
        /\ pc'[s] = "cede" /\ \A a \in Session \ {s} : pc'[a] = pc[a]
    BY <1>1, <1>12 DEF Notify, process, TypeOK
  <2>2. \A a, b \in Session : Hit(a, b)' = Hit(a, b)
    BY <2>1 DEF Hit
  <2>3. \A a, o \in Session : WillTake(a, o)' => Kept(a, o)
    BY <2>1, <2>2 DEF WillTake, Kept
  <2> QED BY <1>4, <2>3
<1>13. ASSUME NEW s \in Session, Enter(s) \/ Grant(s)
       PROVE  SameInv'
  <2>1. /\ pc[s] \in {"cede", "grant"} /\ pc'[s] \in {"grant", "log"}
        /\ UNCHANGED <<want, take, scanned, todo>>
        /\ \A a \in Session \ {s} : pc'[a] = pc[a]
    BY <1>1, <1>13 DEF Enter, Grant, process, TypeOK
  <2>2. \A a \in Session \ {s} : pc[a] \notin Deciding
    BY <1>1, <2>1, Alone DEF Deciding
  <2>3. \A a, o \in Session : ~WillTake(a, o)'
    BY <2>1, <2>2 DEF WillTake, Deciding
  <2> QED BY <1>4, <2>3
<1>14. CASE Tick \/ UNCHANGED vars
  BY <1>5, <1>14 DEF Tick, vars, process
<1> QED
  BY <1>6, <1>7, <1>8, <1>9, <1>10, <1>11, <1>12, <1>13, <1>14
  DEF Next, Call, ClaimStep


\* The notices about to be sent.
LEMMA NoticeStep ==
  ASSUME QuietInv, Undisturbed, [Next]_vars
  PROVE  NoticeInv' /\ CededOnRecord'
<1>1. TypeOK /\ NoticeInv /\ CededOnRecord
  BY DEF QuietInv, IInv
<1>2. \A o \in Session : file[o].ceded \subseteq file'[o].ceded
  BY CededGrows
<1>3. ASSUME UNCHANGED notices
      PROVE  CededOnRecord'
  BY <1>1, <1>2, <1>3 DEF CededOnRecord
\* Whoever is about to send one goes on, or has just taken the claims.
<1> DEFINE Same(a) == /\ pc'[a] = pc[a] /\ robbed'[a] = robbed[a]
                      /\ want'[a] = want[a] /\ scanned'[a] = scanned[a]
<1>4. ASSUME \A a \in Session : pc'[a] = "notify" => Same(a)
      PROVE  NoticeInv'
  <2>1. \A a, o \in Session : pc'[a] = "notify" => Hit(a, o)' = Hit(a, o)
    BY <1>4 DEF Hit
  <2>2. ASSUME NEW a \in Session, pc'[a] = "notify"
        PROVE  /\ robbed'[a] \in Session
               /\ Hit(a, robbed[a])' \subseteq file'[robbed'[a]].ceded
    <3>1. /\ robbed[a] \in Session
          /\ Hit(a, robbed[a]) \subseteq file[robbed[a]].ceded
      BY <1>1, <1>4, <2>2 DEF NoticeInv
    <3>2. Hit(a, robbed[a])' = Hit(a, robbed[a])
      BY <1>4, <2>2 DEF Hit
    <3> QED BY <1>2, <1>4, <2>2, <3>1, <3>2
  <2> QED BY <2>2 DEF NoticeInv
<1>5. ASSUME NEW s \in Session,
             \/ Call(s) \/ Save(s) \/ Refuse(s) \/ Decide(s) \/ Log(s)
             \/ Crash(s) \/ Enter(s) \/ Grant(s)
             \/ \E o \in Session : Scan(s, o)
      PROVE  NoticeInv' /\ CededOnRecord'
  <2>1. UNCHANGED notices
    BY <1>5 DEF Call, TouchLoad, ReleaseLoad, ClaimLock, Save, TouchSave,
       ReleaseSave, Refuse, Decide, Log, Crash, Enter, Grant, Scan
  <2>2. pc'[s] # "notify" /\ \A a \in Session \ {s} : Same(a)
    <3>1. CASE Call(s) \/ Decide(s) \/ Enter(s) \/ Grant(s)
      BY <1>1, <3>1 DEF Call, TouchLoad, ReleaseLoad, ClaimLock, Decide, Enter,
         Grant, process, TypeOK
    <3>2. CASE Save(s) \/ Refuse(s) \/ Log(s) \/ Crash(s)
      <4>1. Finish(s)
        BY <3>2 DEF Save, TouchSave, ReleaseSave, Refuse, Log, Crash
      <4> QED BY <1>1, <4>1, FinishOthers
    <3>3. CASE \E o \in Session : Scan(s, o)
      BY <1>1, <3>3 DEF Scan, TypeOK
    <3> QED BY <1>5, <3>1, <3>2, <3>3
  <2> QED BY <1>3, <1>4, <2>1, <2>2
<1>6. ASSUME NEW s \in Session, NEW o \in Session, Cede(s, o)
      PROVE  NoticeInv' /\ CededOnRecord'
  <2>1. /\ UNCHANGED <<want, scanned, notices>> /\ robbed'[s] = o
        /\ \A a \in Session \ {s} : pc'[a] = pc[a] /\ robbed'[a] = robbed[a]
    BY <1>1, <1>6 DEF Cede, TypeOK
  <2>2. \A a, b \in Session : Hit(a, b)' = Hit(a, b)
    BY <2>1 DEF Hit
  <2>3. Hit(s, o) \subseteq file'[o].ceded
    <3>1. /\ scanned[s][o] \in Record /\ o \in Session
          /\ file' = [file EXCEPT ![o] =
                        [scanned[s][o] EXCEPT
                           !.claims = scanned[s][o].claims \ Hit(s, o),
                           !.ceded = scanned[s][o].ceded \cup Hit(s, o)]]
      BY <1>1, <1>6 DEF Cede, TypeOK
    <3>2. file'[o].ceded = scanned[s][o].ceded \cup Hit(s, o)
      BY <1>1, <3>1, UpdatedFields DEF TypeOK
    <3> QED BY <3>2
  <2>4. ASSUME NEW a \in Session, pc'[a] = "notify"
        PROVE  /\ robbed'[a] \in Session
               /\ Hit(a, robbed'[a]) \subseteq file'[robbed'[a]].ceded
    <3>1. CASE a = s
      BY <2>1, <2>3, <3>1
    <3>2. CASE a # s
      <4>1. /\ robbed'[a] = robbed[a] /\ robbed[a] \in Session
            /\ Hit(a, robbed[a]) \subseteq file[robbed[a]].ceded
        BY <1>1, <2>1, <2>4, <3>2 DEF NoticeInv
      <4> QED BY <1>2, <4>1
    <3> QED BY <3>1, <3>2
  <2>5. NoticeInv'
    BY <2>1, <2>2, <2>4 DEF NoticeInv, Hit
  <2> QED BY <1>3, <2>1, <2>5
<1>7. ASSUME NEW s \in Session, Notify(s)
      PROVE  NoticeInv' /\ CededOnRecord'
  <2>1. /\ UNCHANGED <<file, want, scanned, robbed>> /\ pc[s] = "notify"
        /\ pc'[s] = "cede" /\ \A a \in Session \ {s} : pc'[a] = pc[a]
    BY <1>1, <1>7 DEF Notify, process, TypeOK
  <2>2. NoticeInv'
    BY <1>4, <2>1
  <2>3. /\ robbed[s] \in Session
        /\ Hit(s, robbed[s]) \subseteq file[robbed[s]].ceded
    BY <1>1, <2>1 DEF NoticeInv
  <2>4. notices' = [notices EXCEPT ![robbed[s]] =
                      notices[robbed[s]] \cup Hit(s, robbed[s])]
    BY <1>7 DEF Notify
  <2>5. CededOnRecord'
    BY <1>1, <2>1, <2>3, <2>4 DEF CededOnRecord, TypeOK
  <2> QED BY <2>2, <2>5
<1>8. CASE Tick \/ UNCHANGED vars
  <2>1. UNCHANGED <<notices, pc, robbed, want, scanned>>
    BY <1>8 DEF Tick, vars, process
  <2> QED BY <1>3, <1>4, <2>1
<1> QED
  BY <1>5, <1>6, <1>7, <1>8 DEF Next, ClaimStep

LEMMA QuietStep == Undisturbed /\ QuietInv /\ [Next]_vars => QuietInv'
<1> SUFFICES ASSUME Undisturbed, QuietInv, [Next]_vars PROVE QuietInv'
  OBVIOUS
<1>1. IInv'
  BY ExclusiveStep DEF QuietInv
<1> QED
  BY <1>1, SaveStep, SameStep, NoticeStep DEF QuietInv

LEMMA QuietInit == Init => QuietInv
<1> SUFFICES ASSUME Init PROVE QuietInv
  OBVIOUS
<1>1. IInv
  BY ExclusiveInit
<1>2. SaveInv /\ SameInv /\ NoticeInv /\ CededOnRecord
  BY DEF Init, SaveInv, SameInv, WillTake, NoticeInv, CededOnRecord
<1> QED BY <1>1, <1>2 DEF QuietInv

\* The board implements the three operations of ClaimPromise: whatever the
\* interleaving and whoever is killed, every step of it is one of them or
\* changes nothing that ClaimPromise speaks of.
THEOREM BoardKeepsPromise == Undisturbed /\ Spec => PromiseKept
<1> DEFINE Held == [s \in Session |-> file[s].claims]
           Taken == [s \in Session |-> file[s].ceded]
<1>1. Init => Promise!Init
  BY DEF Init, Promise!Init, Blank
<1>2. ASSUME Undisturbed, QuietInv, [Next]_vars
      PROVE  [Promise!Next]_(Promise!promise)
  <2>1. CASE \A o \in Session : Keeps(o)
    BY <2>1 DEF Promise!promise, Keeps
  <2>2. ASSUME NEW o \in Session, \A b \in Session \ {o} : file'[b] = file[b],
               GivesUp(o)
        PROVE  Promise!Next
    <3>1. PICK C \in SUBSET Claim : C = want[o]
      BY <1>2 DEF QuietInv, IInv, TypeOK
    <3>2. /\ Held' = [Held EXCEPT ![o] = Held[o] \ C]
          /\ Taken' = Taken
      BY <2>2, <3>1 DEF GivesUp
    <3>3. Promise!GiveUp(o, C)
      BY <3>2 DEF Promise!GiveUp
    <3> QED BY <3>3 DEF Promise!Next
  <2>3. ASSUME NEW o \in Session, \A b \in Session \ {o} : file'[b] = file[b],
               Wins(o)
        PROVE  Promise!Next
    <3>1. PICK C \in SUBSET Claim : C = want[o]
      BY <1>2 DEF QuietInv, IInv, TypeOK
    <3>2. /\ Held' = [Held EXCEPT ![o] = Held[o] \cup C]
          /\ Taken' = Taken
      BY <2>3, <3>1 DEF Wins
    <3>3. Promise!Acquire(o, C)
      BY <2>3, <3>1, <3>2 DEF Promise!Acquire, Promise!Free, Wins
    <3> QED BY <3>3 DEF Promise!Next
  <2>4. ASSUME NEW o \in Session, \A b \in Session \ {o} : file'[b] = file[b],
               NEW s \in Session, Loses(s, o)
        PROVE  Promise!Next
    <3>1. PICK C \in SUBSET Claim : C = Hit(s, o)
      BY <1>2, HitType DEF QuietInv, IInv
    <3>2. /\ Held' = [Held EXCEPT ![o] = Held[o] \ C]
          /\ Taken' = [Taken EXCEPT ![o] = Taken[o] \cup C]
      BY <2>4, <3>1 DEF Loses
    <3>3. Promise!TakeOver(o, C)
      BY <2>4, <3>1, <3>2 DEF Promise!TakeOver, Loses
    <3> QED BY <3>3 DEF Promise!Next
  <2> QED BY <1>2, <2>1, <2>2, <2>3, <2>4, FileStep
<1>3. CASE Undisturbed
  <2>1. QuietInv /\ [Next]_vars => QuietInv' /\ [Promise!Next]_(Promise!promise)
    BY <1>2, <1>3, QuietStep
  <2> QED
    BY <1>1, <2>1, QuietInit, PTL DEF Spec, PromiseKept, Promise!Spec
<1>4. CASE ~Undisturbed
  BY <1>4
<1> QED BY <1>3, <1>4

\* No interleaved save drops a claim: one leaves a session's file only with
\* that session's release, or into its `ceded` list while it is stale.
THEOREM BoardLoses == Undisturbed /\ Spec => OnlyStaleLoses
<1> DEFINE Fair ==
             \A o \in Session : \A c \in file[o].claims \ file'[o].claims :
                     \/ pc[o] = "release" /\ c \in want[o]
                     \/ Stale(file[o]) /\ c \in file'[o].ceded
<1>1. ASSUME Undisturbed, QuietInv, [Next]_vars
      PROVE  Fair
  BY <1>1, FileStep DEF Keeps, GivesUp, Wins, Loses
<1>2. CASE Undisturbed
  <2>1. QuietInv /\ [Next]_vars => QuietInv' /\ [Fair]_vars
    BY <1>1, <1>2, QuietStep
  <2> HIDE DEF Fair
  <2>2. Spec => [][Fair]_vars
    BY <2>1, QuietInit, PTL DEF Spec
  <2> QED BY <2>2 DEF OnlyStaleLoses, Fair
<1>3. CASE ~Undisturbed
  BY <1>3
<1> QED BY <1>2, <1>3

\* Whoever was told of a loss finds the lost claims on its record for good.
THEOREM BoardRecords == Undisturbed /\ Spec => []CededOnRecord
<1>1. CASE Undisturbed
  <2>1. QuietInv /\ [Next]_vars => QuietInv'
    BY <1>1, QuietStep
  <2>2. QuietInv => CededOnRecord
    BY DEF QuietInv
  <2> QED BY <2>1, <2>2, QuietInit, PTL DEF Spec
<1>2. CASE ~Undisturbed
  BY <1>2
<1> QED BY <1>1, <1>2
-----------------------------------------------------------------------------
(***************************************************************************)
(* Who is told.  Nothing here needs quiet owners: a session may save over  *)
(* a takeover, as long as no process is killed between a takeover and its  *)
(* notice.                                                                 *)
(***************************************************************************)

\* o was told that it lost c, or is about to be.
Told(o, c) == c \in notices[o] \/ ToBeTold(o, c)

\* The claims log names o for c, or will, or o was told that it lost c.
Named(o, c) ==
  lastClaimant[c] = o \/ (pc[o] = "log" /\ c \in want[o]) \/ Told(o, c)

\* The records of o, on disk and in the memory of processes.
RecordsOf(o) == {file[o], copy[o]} \cup {scanned[s][o] : s \in Session}

\* What is in a process's memory was read by that process.
MemoryInv ==
  \A s \in Session :
    /\ pc[s] \notin {"touch", "release", "grant", "log"} => copy[s] = Blank
    /\ pc[s] \notin Deciding => scanned[s] = [o \in Session |-> Blank]
    /\ pc[s] = "notify" => robbed[s] \in Session

\* Every record tells of ceded claims that were told.
CededTold ==
  \A o \in Session : \A r \in RecordsOf(o) : \A c \in r.ceded : Told(o, c)

\* Every record tells of claims that are named.
ClaimsNamed ==
  \A o \in Session : \A r \in RecordsOf(o) : \A c \in r.claims : Named(o, c)

\* A loaded record holds what the file does, or what was taken since.
LateCopy ==
  \A o \in Session : \A c \in copy[o].claims :
    c \in file[o].claims \/ Told(o, c)

\* A file holds what was read of it, or what a late save wrote back.
LateScan ==
  \A s, o \in Session : HasRead(s, o) =>
    \A c \in file[o].claims : c \in scanned[s][o].claims \/ Told(o, c)

\* s has made sure that o is not in its way.
HasCleared(s, o) ==
  /\ o # s
  /\ \/ pc[s] \in {"cede", "notify"} /\ o \notin todo[s]
     \/ pc[s] \in {"grant", "log"}

\* Who is granted a claim has nobody in the way who was not told.
LateClear ==
  \A s, o \in Session : HasCleared(s, o) =>
    \A c \in want[s], d \in file[o].claims : <<c, d>> \in Overlap => Told(o, d)
TellInv == /\ TypeOK /\ TodoInv /\ LockInv /\ MemoryInv
           /\ CededTold /\ ClaimsNamed /\ LateCopy /\ LateScan /\ LateClear

\* a's process does nothing.
Waits(a) == /\ pc'[a] = pc[a] /\ copy'[a] = copy[a] /\ want'[a] = want[a]
            /\ take'[a] = take[a] /\ scanned'[a] = scanned[a]
            /\ todo'[a] = todo[a] /\ robbed'[a] = robbed[a]

Acts(s) == Call(s) \/ Save(s) \/ ClaimStep(s) \/ Crash(s)

\* One process acts at a time.
LEMMA OneActs ==
  ASSUME TypeOK, NEW s \in Session, Acts(s)
  PROVE  \A a \in Session \ {s} : Waits(a)
<1>1. CASE Call(s)
  BY <1>1 DEF Call, TouchLoad, ReleaseLoad, ClaimLock, TypeOK, Waits
<1>2. CASE Save(s) \/ Refuse(s) \/ Log(s) \/ Crash(s)
  <2>1. Finish(s)
    BY <1>2 DEF Save, TouchSave, ReleaseSave, Refuse, Log, Crash
  <2> QED BY <2>1, FinishOthers DEF Waits
<1>3. CASE \E o \in Session : Scan(s, o) \/ Cede(s, o)
  BY <1>3 DEF Scan, Cede, TypeOK, Waits
<1>4. CASE Decide(s) \/ Notify(s)
  BY <1>4 DEF Decide, Notify, process, TypeOK, Waits
<1>5. CASE Enter(s) \/ Grant(s)
  BY <1>5 DEF Enter, Grant, process, TypeOK, Waits
<1> QED BY <1>1, <1>2, <1>3, <1>4, <1>5 DEF Acts, ClaimStep

LEMMA LockStep ==
  ASSUME TypeOK, LockInv, [Next]_vars
  PROVE  LockInv'
<1>1. CASE Tick \/ UNCHANGED vars
  BY <1>1 DEF Tick, vars, process, LockInv
<1>2. ASSUME NEW s \in Session, Acts(s)
      PROVE  LockInv'
  <2>1. \A a \in Session \ {s} : Waits(a)
    BY <1>2, OneActs
  <2>2. CASE \E C \in Requests, t \in BOOLEAN : ClaimLock(s, C, t)
    <3>1. \A a \in Session : pc[a] \notin Deciding
      BY <2>2, BoardAssumption DEF ClaimLock, LockInv
    <3>2. lock' = s /\ (take'[s] => s \in MayTake)
      BY <2>2 DEF ClaimLock, TypeOK
    <3> QED BY <2>1, <3>1, <3>2 DEF LockInv, Waits
  <2>3. CASE Refuse(s) \/ Log(s) \/ Crash(s) \/ Save(s)
    <3>1. pc'[s] = "idle" /\ ~take'[s]
      BY <2>3, FinishOthers
      DEF Refuse, Log, Crash, Save, TouchSave, ReleaseSave
    <3>2. lock' = lock \/ lock = s
      BY <2>3 DEF Refuse, Log, Crash, Save, TouchSave, ReleaseSave, LockInv,
         Deciding
    <3> QED BY <2>1, <3>1, <3>2 DEF LockInv, Waits, Deciding
  <2>4. CASE TouchLoad(s) \/ \E C \in Requests : ReleaseLoad(s, C)
    <3>1. UNCHANGED <<take, lock>> /\ pc'[s] \notin Deciding
      BY <2>4 DEF TouchLoad, ReleaseLoad, TypeOK, Deciding
    <3> QED BY <2>1, <3>1 DEF LockInv, Waits
  <2>5. CASE \/ Decide(s) \/ Notify(s) \/ Enter(s) \/ Grant(s)
             \/ \E o \in Session : Scan(s, o) \/ Cede(s, o)
    <3>1. UNCHANGED <<take, lock>> /\ pc[s] \in Deciding
      BY <2>5 DEF Decide, Notify, Enter, Grant, Scan, Cede, process, Deciding
    <3> QED BY <2>1, <3>1 DEF LockInv, Waits
  <2> QED BY <1>2, <2>2, <2>3, <2>4, <2>5 DEF Acts, Call, ClaimStep
<1> QED BY <1>1, <1>2 DEF Next, Acts

\* Nobody else is inside `claim`.
LEMMA AloneInside ==
  ASSUME LockInv, NEW s \in Session, pc[s] \in Deciding
  PROVE  \A a \in Session \ {s} : pc[a] \notin Deciding
BY BoardAssumption DEF LockInv

LEMMA MemoryStep ==
  ASSUME TypeOK, MemoryInv, [Next]_vars
  PROVE  MemoryInv'
<1>1. CASE Tick \/ UNCHANGED vars
  BY <1>1 DEF Tick, vars, process, MemoryInv
<1>2. ASSUME NEW s \in Session, Acts(s)
      PROVE  MemoryInv'
  <2>1. \A a \in Session \ {s} : Waits(a)
    BY <1>2, OneActs
  <2> SUFFICES /\ \/ pc'[s] \in {"touch", "release", "grant", "log"}
                  \/ copy'[s] = Blank
               /\ pc'[s] \in Deciding \/ scanned'[s] = [o \in Session |-> Blank]
               /\ pc'[s] = "notify" => robbed'[s] \in Session
    BY <2>1 DEF MemoryInv, Waits
  <2>2. CASE Call(s)
    BY <2>2 DEF Call, TouchLoad, ReleaseLoad, ClaimLock, MayRun, TypeOK,
       MemoryInv, Deciding
  <2>3. CASE Save(s) \/ Refuse(s) \/ Log(s) \/ Crash(s)
    BY <2>3, FinishOthers
    DEF Save, TouchSave, ReleaseSave, Refuse, Log, Crash
  <2>4. CASE \E o \in Session : Scan(s, o) \/ Cede(s, o)
    BY <2>4 DEF Scan, Cede, TypeOK, MemoryInv, Deciding
  <2>5. CASE Decide(s) \/ Notify(s) \/ Enter(s) \/ Grant(s)
    BY <2>5 DEF Decide, Notify, Enter, Grant, process, TypeOK, MemoryInv,
       Deciding
  <2> QED BY <1>2, <2>2, <2>3, <2>4, <2>5 DEF Acts, ClaimStep
<1> QED BY <1>1, <1>2 DEF Next, Acts

\* Who was told has been told: only its notice ends that a session is to be.
LEMMA ToldStays ==
  ASSUME TypeOK, ~Crashes, [Next]_vars, NEW o \in Session, NEW c, Told(o, c)
  PROVE  Told(o, c)'
<1>1. ASSUME NEW s \in Session, Notify(s)
      PROVE  /\ notices[o] \subseteq notices'[o]
             /\ robbed[s] = o => Hit(s, o) \subseteq notices'[o]
  BY <1>1 DEF Notify, TypeOK
<1>2. notices[o] \subseteq notices'[o]
  <2>1. UNCHANGED notices \/ \E s \in Session : Notify(s)
    BY ZenonT(30) DEF Next, vars, Tick, Call, TouchLoad, ReleaseLoad, ClaimLock, Save,
       TouchSave, ReleaseSave, ClaimStep, Scan, Cede, Refuse, Decide, Enter,
       Grant, Log, Crash
  <2> QED BY <1>1, <2>1
<1>3. CASE c \in notices[o]
  BY <1>2, <1>3 DEF Told
<1>4. ASSUME NEW s \in Session, pc[s] = "notify", robbed[s] = o, c \in Hit(s, o)
      PROVE  Told(o, c)'
  <2>1. CASE Notify(s)
    BY <1>1, <1>4, <2>1 DEF Told
  <2>2. CASE Waits(s)
    <3>1. c \in Hit(s, o)'
      BY <1>4, <2>2 DEF Hit, Waits
    <3> QED BY <1>4, <2>2, <3>1 DEF Told, ToBeTold, Waits
  <2>3. Tick \/ UNCHANGED vars => Waits(s)
    BY DEF Tick, vars, process, Waits
  <2>4. Acts(s) => Notify(s)
    BY <1>4 DEF Acts, Call, TouchLoad, ReleaseLoad, ClaimLock, MayRun, Save,
       TouchSave, ReleaseSave, ClaimStep, Scan, Cede, Refuse, Decide, Enter,
       Grant, Log, Crash
  <2>5. \A a \in Session : Acts(a) /\ a # s => Waits(s)
    BY OneActs
  <2> QED BY <2>1, <2>2, <2>3, <2>4, <2>5 DEF Next, Acts
<1> QED BY <1>3, <1>4 DEF Told, ToBeTold

\* A record stands for r: it says no more than r did, but for claims that are
\* about to be told, and for those that o is being granted.
Follows(o, new, r) ==
  /\ \A c \in new.ceded : c \in r.ceded \/ ToBeTold(o, c)'
  /\ \A c \in new.claims : c \in r.claims \/ (pc'[o] = "log" /\ c \in want'[o])

\* Where the records of o come from.
LEMMA RecordsStep ==
  ASSUME TypeOK, MemoryInv, [Next]_vars, NEW o \in Session,
         NEW new \in RecordsOf(o)'
  PROVE  new = Blank \/ \E r \in RecordsOf(o) : Follows(o, new, r)
<1>1. /\ \A a \in Session : file[a] \in Record /\ copy[a] \in Record
      /\ \A a \in Session : scanned[a][o] \in Record
      /\ file \in [Session -> Record] /\ copy \in [Session -> Record]
      /\ scanned \in [Session -> [Session -> Record]]
  BY DEF TypeOK
<1>2. ASSUME new \in RecordsOf(o)
      PROVE  \E r \in RecordsOf(o) : Follows(o, new, r)
  BY <1>2 DEF Follows
<1>3. /\ file[o] \in RecordsOf(o) /\ copy[o] \in RecordsOf(o)
      /\ \A a \in Session : scanned[a][o] \in RecordsOf(o)
  BY DEF RecordsOf
<1> DEFINE Goal == new = Blank \/ \E r \in RecordsOf(o) : Follows(o, new, r)
<1>4. ASSUME RecordsOf(o)' \subseteq RecordsOf(o) \cup {Blank}
      PROVE  Goal
  BY <1>2, <1>4
<1> HIDE DEF Goal
<1>5. CASE Tick \/ UNCHANGED vars
  <2>1. RecordsOf(o)' = RecordsOf(o)
    BY <1>5 DEF Tick, vars, process, RecordsOf
  <2> QED BY <1>4, <2>1 DEF Goal
<1>6. ASSUME NEW s \in Session, Save(s) \/ Refuse(s) \/ Log(s) \/ Crash(s)
      PROVE  Goal
  <2>1. /\ Finish(s)
        /\ file' = file \/ file' = [file EXCEPT ![s] = copy[s]]
    BY <1>6 DEF Save, TouchSave, ReleaseSave, Refuse, Log, Crash
  <2>2. file'[o] \in RecordsOf(o)
    BY <1>1, <1>3, <2>1
  <2>3. copy'[o] \in RecordsOf(o) \cup {Blank}
    BY <1>3, <2>1, FinishOthers
  <2>4. \A a \in Session : scanned'[a][o] \in RecordsOf(o) \cup {Blank}
    BY <1>3, <2>1, FinishOthers
  <2> QED BY <1>4, <2>2, <2>3, <2>4 DEF RecordsOf
<1>7. ASSUME NEW s \in Session, NEW C, TouchLoad(s) \/ ReleaseLoad(s, C)
      PROVE  Goal
  <2>1. /\ UNCHANGED <<file, scanned>>
        /\ \/ copy' = [copy EXCEPT ![s] = [file[s] EXCEPT !.seen = now]]
           \/ copy' = [copy EXCEPT ![s] =
                         [file[s] EXCEPT !.claims = file[s].claims \ C]]
    BY <1>7 DEF TouchLoad, ReleaseLoad
  <2>2. new \in RecordsOf(o) \/ new = copy'[o]
    BY <2>1 DEF RecordsOf
  <2>3. CASE s # o
    BY <1>1, <1>2, <1>3, <2>1, <2>2, <2>3 DEF Goal
  <2>4. CASE s = o
    <3>1. /\ copy'[o].ceded = file[o].ceded
          /\ copy'[o].claims \subseteq file[o].claims
      <4>1. CASE copy' = [copy EXCEPT ![s] = [file[s] EXCEPT !.seen = now]]
        BY <1>1, <2>4, <4>1, UpdatedFields
      <4>2. CASE copy' = [copy EXCEPT ![s] =
                            [file[s] EXCEPT !.claims = file[s].claims \ C]]
        BY <1>1, <2>4, <4>2, UpdatedFields
      <4> QED BY <2>1, <4>1, <4>2
    <3>2. Follows(o, copy'[o], file[o])
      BY <3>1 DEF Follows
    <3> QED BY <1>2, <1>3, <2>2, <3>2 DEF Goal
  <2> QED BY <2>3, <2>4
<1>8. ASSUME NEW s \in Session, NEW C, NEW t,
             ClaimLock(s, C, t) \/ Decide(s) \/ Notify(s)
      PROVE  Goal
  <2>1. UNCHANGED <<file, copy, scanned>>
    BY <1>8 DEF ClaimLock, Decide, Notify, process
  <2>2. RecordsOf(o)' = RecordsOf(o)
    BY <2>1 DEF RecordsOf
  <2> QED BY <1>4, <2>2
<1>9. ASSUME NEW s \in Session, NEW x \in Session, Scan(s, x)
      PROVE  Goal
  <2>1. /\ UNCHANGED <<file, copy>>
        /\ scanned' = [scanned EXCEPT ![s] = [scanned[s] EXCEPT ![x] = file[x]]]
    BY <1>9 DEF Scan
  <2>2. \A a \in Session : scanned'[a][o] \in {scanned[a][o], file[o]}
    BY <1>1, <2>1
  <2>3. RecordsOf(o)' \subseteq RecordsOf(o)
    BY <1>3, <2>1, <2>2 DEF RecordsOf
  <2> QED BY <1>4, <2>3
<1>10. ASSUME NEW s \in Session, NEW x \in Session, Cede(s, x)
       PROVE  Goal
  <2>1. /\ UNCHANGED <<copy, scanned, want>>
        /\ pc'[s] = "notify" /\ robbed'[s] = x
        /\ file' = [file EXCEPT ![x] =
                      [scanned[s][x] EXCEPT
                         !.claims = scanned[s][x].claims \ Hit(s, x),
                         !.ceded = scanned[s][x].ceded \cup Hit(s, x)]]
    BY <1>10 DEF Cede, TypeOK
  <2>2. new \in RecordsOf(o) \/ new = file'[o]
    BY <2>1 DEF RecordsOf
  <2>3. CASE x # o
    BY <1>1, <1>2, <1>3, <2>1, <2>2, <2>3 DEF Goal
  <2>4. CASE x = o
    <3>1. /\ file'[o].ceded = scanned[s][o].ceded \cup Hit(s, o)
          /\ file'[o].claims = scanned[s][o].claims \ Hit(s, o)
      BY <1>1, <2>1, <2>4, UpdatedFields
    <3>2. \A c \in Hit(s, o) : ToBeTold(o, c)'
      BY <2>1, <2>4 DEF ToBeTold, Hit
    <3>3. Follows(o, file'[o], scanned[s][o])
      BY <3>1, <3>2 DEF Follows
    <3> QED BY <1>2, <1>3, <2>2, <3>3 DEF Goal
  <2> QED BY <2>3, <2>4
<1>11. ASSUME NEW s \in Session, Enter(s)
       PROVE  Goal
  <2>1. /\ UNCHANGED scanned
        /\ file' = [file EXCEPT ![s] = [file[s] EXCEPT !.seen = now]]
        /\ copy' = [copy EXCEPT ![s] = [file[s] EXCEPT !.seen = now]]
    BY <1>11 DEF Enter
  <2>2. new \in RecordsOf(o) \/ new \in {file'[o], copy'[o]}
    BY <2>1 DEF RecordsOf
  <2>3. CASE s # o
    BY <1>1, <1>2, <1>3, <2>1, <2>2, <2>3 DEF Goal
  <2>4. CASE s = o
    <3>1. /\ file'[o].ceded = file[o].ceded
          /\ file'[o].claims = file[o].claims
          /\ copy'[o] = file'[o]
      BY <1>1, <2>1, <2>4, UpdatedFields
    <3>2. Follows(o, file'[o], file[o])
      BY <3>1 DEF Follows
    <3> QED BY <1>2, <1>3, <2>2, <3>1, <3>2 DEF Goal
  <2> QED BY <2>3, <2>4
<1>12. ASSUME NEW s \in Session, Grant(s)
       PROVE  Goal
  <2>1. /\ UNCHANGED <<copy, scanned, want>> /\ pc'[s] = "log"
        /\ file' = [file EXCEPT ![s] =
                      [copy[s] EXCEPT !.claims = copy[s].claims \cup want[s]]]
    BY <1>12 DEF Grant, process, TypeOK
  <2>2. new \in RecordsOf(o) \/ new = file'[o]
    BY <2>1 DEF RecordsOf
  <2>3. CASE s # o
    BY <1>1, <1>2, <1>3, <2>1, <2>2, <2>3 DEF Goal
  <2>4. CASE s = o
    <3>1. /\ file'[o].ceded = copy[o].ceded
          /\ file'[o].claims = copy[o].claims \cup want[o]
      BY <1>1, <2>1, <2>4, UpdatedFields
    <3>2. Follows(o, file'[o], copy[o])
      BY <2>1, <2>4, <3>1 DEF Follows
    <3> QED BY <1>2, <1>3, <2>2, <3>2 DEF Goal
  <2> QED BY <2>3, <2>4
<1> QED
  BY <1>5, <1>6, <1>7, <1>8, <1>9, <1>10, <1>11, <1>12
  DEF Next, Call, ClaimStep, Goal

\* What was taken has been told.
LEMMA CededToldStep ==
  ASSUME TypeOK, MemoryInv, CededTold, ~Crashes, [Next]_vars
  PROVE  CededTold'
<1> SUFFICES ASSUME NEW o \in Session, NEW new \in RecordsOf(o)',
                    NEW c \in new.ceded
             PROVE  Told(o, c)'
  BY DEF CededTold
<1>1. CASE new = Blank
  BY <1>1 DEF Blank
<1>2. ASSUME NEW r \in RecordsOf(o), Follows(o, new, r)
      PROVE  Told(o, c)'
  <2>1. CASE ToBeTold(o, c)'
    BY <2>1 DEF Told
  <2>2. CASE c \in r.ceded
    <3>1. Told(o, c)
      BY <2>2 DEF CededTold
    <3> QED BY <3>1, ToldStays
  <2> QED BY <1>2, <2>1, <2>2 DEF Follows
<1> QED BY <1>1, <1>2, RecordsStep

\* Who is named stays so, or was told, when the log names somebody else.
LEMMA NamedStep ==
  ASSUME TellInv, ~Crashes, [Next]_vars, NEW o \in Session, NEW c \in Claim,
         Named(o, c), \A s \in Session : Log(s) /\ s # o => c \in file[o].claims
  PROVE  Named(o, c)'
<1>1. TypeOK /\ LateClear
  BY DEF TellInv
<1>2. Told(o, c) => Told(o, c)'
  BY <1>1, ToldStays
<1>3. ASSUME UNCHANGED lastClaimant, ~Log(o)
      PROVE  Named(o, c)'
  <2>1. CASE pc[o] = "log" /\ c \in want[o]
    <3>1. Tick \/ UNCHANGED vars => Waits(o)
      BY DEF Tick, vars, process, Waits
    <3>2. ~Acts(o)
      BY <1>3, <2>1 DEF Acts, Call, TouchLoad, ReleaseLoad, ClaimLock, MayRun,
         Save, TouchSave, ReleaseSave, ClaimStep, Scan, Cede, Refuse, Decide,
         Notify, Enter, Grant, Crash
    <3>3. Waits(o)
      BY <1>1, <3>1, <3>2, OneActs DEF Next, Acts
    <3> QED BY <2>1, <3>3 DEF Named, Waits
  <2> QED BY <1>2, <1>3, <2>1 DEF Named
<1>4. ASSUME NEW s \in Session, Log(s)
      PROVE  Named(o, c)'
  <2>1. /\ pc[s] = "log" /\ UNCHANGED file
        /\ lastClaimant'[c] = IF \E d \in want[s] : <<d, c>> \in Overlap
                              THEN s ELSE lastClaimant[c]
    BY <1>4 DEF Log
  <2>2. CASE s = o
    <3>1. <<c, c>> \in Overlap
      BY BoardAssumption
    <3>2. CASE lastClaimant'[c] = o
      BY <3>2 DEF Named
    <3> QED BY <1>2, <2>1, <2>2, <3>1, <3>2 DEF Named
  <2>3. CASE s # o
    <3>1. \A d \in want[s] : <<d, c>> \in Overlap => Told(o, c)
      BY <1>1, <1>4, <2>1, <2>3 DEF LateClear, HasCleared
    <3>2. CASE \E d \in want[s] : <<d, c>> \in Overlap
      BY <1>2, <3>1, <3>2 DEF Named
    <3>3. CASE lastClaimant'[c] = lastClaimant[c]
      <4>1. Waits(o)
        BY <1>1, <1>4, <2>3, OneActs DEF Acts, ClaimStep
      <4> QED BY <1>2, <3>3, <4>1 DEF Named, Waits
    <3> QED BY <2>1, <3>2, <3>3
  <2> QED BY <2>2, <2>3
<1>5. UNCHANGED lastClaimant \/ \E s \in Session : Log(s)
  BY DEF Next, vars, Tick, Call, TouchLoad, ReleaseLoad, ClaimLock, Save,
     TouchSave, ReleaseSave, ClaimStep, Scan, Cede, Refuse, Decide, Notify,
     Enter, Grant, Crash
<1> QED BY <1>3, <1>4, <1>5

\* The claims log names every claim on record.
LEMMA ClaimsNamedStep ==
  ASSUME TellInv, ~Crashes, [Next]_vars
  PROVE  ClaimsNamed'
<1>1. TypeOK /\ MemoryInv /\ LockInv /\ ClaimsNamed /\ LateCopy
  BY DEF TellInv
<1> SUFFICES ASSUME NEW o \in Session, NEW new \in RecordsOf(o)',
                    NEW c \in new.claims
             PROVE  Named(o, c)'
  BY DEF ClaimsNamed
<1>2. CASE new = Blank
  BY <1>2 DEF Blank
<1>3. ASSUME NEW s \in Session, Log(s), s # o
      PROVE  new = Blank \/ c \in file[o].claims \/ Told(o, c)
  <2>1. Finish(s) /\ UNCHANGED file /\ pc[s] \in Deciding
    BY <1>3 DEF Log, Deciding
  <2>2. \A a \in Session : scanned'[a][o] = Blank
    BY <1>1, <2>1, FinishOthers, AloneInside DEF MemoryInv
  <2>3. copy'[o] = copy[o]
    BY <1>1, <1>3, <2>1, FinishOthers
  <2>4. new \in {Blank, file[o], copy[o]}
    BY <2>1, <2>2, <2>3 DEF RecordsOf
  <2> QED BY <1>1, <2>4 DEF LateCopy
<1>4. ASSUME NEW r \in RecordsOf(o), c \in r.claims, new # Blank
      PROVE  Named(o, c)'
  <2>1. Named(o, c) /\ c \in Claim
    <3>1. r \in Record
      BY <1>1 DEF RecordsOf, TypeOK
    <3> QED BY <1>1, <1>4, <3>1, RecordFields DEF ClaimsNamed
  <2>2. CASE Told(o, c)
    BY <1>1, <2>2, ToldStays DEF Named
  <2> QED BY <1>3, <1>4, <2>1, <2>2, NamedStep
<1>5. CASE pc'[o] = "log" /\ c \in want'[o]
  BY <1>5 DEF Named
<1> QED BY <1>1, <1>2, <1>4, <1>5, RecordsStep DEF Follows

\* A save that comes late adds nothing but what was told.
LEMMA LateCopyStep ==
  ASSUME TellInv, ~Crashes, [Next]_vars
  PROVE  LateCopy'
<1>1. TypeOK /\ MemoryInv /\ LockInv /\ TodoInv /\ LateCopy /\ LateScan
  BY DEF TellInv
<1>2. \A o \in Session : file[o] \in Record /\ copy[o] \in Record
  BY <1>1 DEF TypeOK
<1> SUFFICES ASSUME NEW o \in Session, NEW c \in copy'[o].claims,
                    ~Told(o, c)'
             PROVE  c \in file'[o].claims
  BY DEF LateCopy
<1>3. ~Told(o, c)
  BY <1>1, ToldStays
<1>4. ASSUME copy'[o] = copy[o], file'[o] = file[o]
      PROVE  c \in file'[o].claims
  BY <1>1, <1>3, <1>4 DEF LateCopy
<1>5. copy'[o] # Blank
  BY DEF Blank
<1>6. CASE Tick \/ UNCHANGED vars
  BY <1>4, <1>6 DEF Tick, vars, process
<1>7. ASSUME NEW s \in Session, Acts(s), s # o, UNCHANGED file
      PROVE  c \in file'[o].claims
  BY <1>1, <1>4, <1>7, OneActs DEF Waits
<1>8. ASSUME NEW s \in Session, Save(s) \/ Refuse(s) \/ Log(s) \/ Crash(s)
      PROVE  c \in file'[o].claims
  <2>1. /\ Finish(s)
        /\ file' = file \/ file' = [file EXCEPT ![s] = copy[s]]
    BY <1>8 DEF Save, TouchSave, ReleaseSave, Refuse, Log, Crash
  <2>2. s # o
    BY <1>1, <1>5, <2>1, FinishOthers
  <2>3. copy'[o] = copy[o] /\ file'[o] = file[o]
    BY <1>1, <2>1, <2>2, FinishOthers DEF TypeOK
  <2> QED BY <1>4, <2>3
<1>9. ASSUME NEW s \in Session, NEW C, TouchLoad(s) \/ ReleaseLoad(s, C)
      PROVE  c \in file'[o].claims
  <2>1. /\ UNCHANGED file
        /\ \/ copy' = [copy EXCEPT ![s] = [file[s] EXCEPT !.seen = now]]
           \/ copy' = [copy EXCEPT ![s] =
                         [file[s] EXCEPT !.claims = file[s].claims \ C]]
    BY <1>9 DEF TouchLoad, ReleaseLoad
  <2>2. CASE s # o
    BY <1>1, <1>4, <2>1, <2>2 DEF TypeOK
  <2>3. CASE s = o
    <3>1. CASE copy' = [copy EXCEPT ![s] = [file[s] EXCEPT !.seen = now]]
      BY <1>1, <1>2, <2>1, <2>3, <3>1, UpdatedFields DEF TypeOK
    <3>2. CASE copy' = [copy EXCEPT ![s] =
                          [file[s] EXCEPT !.claims = file[s].claims \ C]]
      <4>1. copy'[o].claims = file[o].claims \ C
        BY <1>1, <1>2, <2>3, <3>2, UpdatedFields DEF TypeOK
      <4> QED BY <2>1, <4>1
    <3> QED BY <2>1, <3>1, <3>2
  <2> QED BY <2>2, <2>3
<1>10. ASSUME NEW s \in Session, NEW C, NEW t,
              \/ ClaimLock(s, C, t) \/ Decide(s) \/ Notify(s)
              \/ \E x \in Session : Scan(s, x)
       PROVE  c \in file'[o].claims
  <2>1. UNCHANGED <<file, copy>>
    BY <1>10 DEF ClaimLock, Decide, Notify, Scan, process
  <2> QED BY <1>4, <2>1
<1>11. ASSUME NEW s \in Session, NEW x \in Session, Cede(s, x)
       PROVE  c \in file'[o].claims
  <2>1. /\ UNCHANGED <<copy, scanned, want>> /\ pc[s] = "cede" /\ x \in todo[s]
        /\ pc'[s] = "notify" /\ robbed'[s] = x
        /\ file' = [file EXCEPT ![x] =
                      [scanned[s][x] EXCEPT
                         !.claims = scanned[s][x].claims \ Hit(s, x),
                         !.ceded = scanned[s][x].ceded \cup Hit(s, x)]]
    BY <1>1, <1>11 DEF Cede, TypeOK
  <2>2. CASE x # o
    BY <1>1, <1>4, <2>1, <2>2 DEF TypeOK
  <2>3. CASE x = o
    <3>1. scanned[s][o] \in Record /\ file \in [Session -> Record]
      BY <1>1 DEF TypeOK
    <3>2. file'[o].claims = scanned[s][o].claims \ Hit(s, o)
      BY <2>1, <2>3, <3>1, UpdatedFields
    <3>3. HasRead(s, o)
      BY <1>1, <2>1, <2>3 DEF HasRead, TodoInv
    <3>4. c \in file[o].claims
      BY <1>1, <1>3, <2>1 DEF LateCopy
    <3>5. c \in scanned[s][o].claims
      BY <1>1, <1>3, <3>3, <3>4 DEF LateScan
    <3>6. c \notin Hit(s, o)
      BY <2>1, <2>3 DEF Told, ToBeTold, Hit
    <3> QED BY <3>2, <3>5, <3>6
  <2> QED BY <2>2, <2>3
<1>12. ASSUME NEW s \in Session, Enter(s)
       PROVE  c \in file'[o].claims
  <2>1. /\ file' = [file EXCEPT ![s] = [file[s] EXCEPT !.seen = now]]
        /\ copy' = [copy EXCEPT ![s] = [file[s] EXCEPT !.seen = now]]
    BY <1>12 DEF Enter
  <2>2. CASE s # o
    BY <1>1, <1>4, <2>1, <2>2 DEF TypeOK
  <2>3. CASE s = o
    BY <1>1, <2>1, <2>3 DEF TypeOK
  <2> QED BY <2>2, <2>3
<1>13. ASSUME NEW s \in Session, Grant(s)
       PROVE  c \in file'[o].claims
  <2>1. /\ UNCHANGED copy
        /\ file' = [file EXCEPT ![s] =
                      [copy[s] EXCEPT !.claims = copy[s].claims \cup want[s]]]
    BY <1>13 DEF Grant, process
  <2>2. CASE s # o
    BY <1>1, <1>4, <2>1, <2>2 DEF TypeOK
  <2>3. CASE s = o
    <3>1. file'[o].claims = copy[o].claims \cup want[o]
      BY <1>1, <1>2, <2>1, <2>3, UpdatedFields DEF TypeOK
    <3> QED BY <2>1, <3>1
  <2> QED BY <2>2, <2>3
<1> QED
  BY <1>6, <1>8, <1>9, <1>10, <1>11, <1>12, <1>13 DEF Next, Call, ClaimStep

\* What a file can come to hold while it is being looked at.
LEMMA FileWhileRead ==
  ASSUME TellInv, ~Crashes, [Next]_vars,
         NEW s \in Session, NEW o \in Session, o # s, pc[s] \in Deciding,
         NEW d \in file'[o].claims, ~Told(o, d)'
  PROVE  \/ d \in file[o].claims
         \/ Cede(s, o) /\ d \in scanned[s][o].claims \ Hit(s, o)
<1>1. TypeOK /\ LockInv /\ LateCopy
  BY DEF TellInv
<1>2. ~Told(o, d)
  BY <1>1, ToldStays
<1>3. \A a \in Session \ {s} : pc[a] \notin Deciding
  BY <1>1, AloneInside
<1>4. \/ file'[o] = file[o]
      \/ Save(o) /\ file'[o] = copy[o]
      \/ Enter(o) \/ Grant(o)
      \/ \E a \in Session : Cede(a, o)
  <2>1. ASSUME NEW a \in Session, Save(a) \/ Enter(a) \/ Grant(a)
        PROVE  /\ a = o /\ Save(a) => file'[o] = copy[o]
               /\ a # o => file'[o] = file[o]
    BY <1>1, <2>1 DEF Save, TouchSave, ReleaseSave, Enter, Grant, TypeOK
  <2>2. \/ UNCHANGED file
        \/ \E a \in Session : Save(a) \/ Enter(a) \/ Grant(a)
        \/ \E a, x \in Session : Cede(a, x)
    BY DEF Next, vars, Tick, Call, TouchLoad, ReleaseLoad, ClaimLock, ClaimStep,
       Scan, Refuse, Decide, Notify, Log, Crash
  <2>3. ASSUME NEW a \in Session, NEW x \in Session, Cede(a, x), x # o
        PROVE  file'[o] = file[o]
    BY <1>1, <2>3 DEF Cede, TypeOK
  <2> QED BY <2>1, <2>2, <2>3
<1>5. ~Enter(o) /\ ~Grant(o) /\ \A a \in Session : Cede(a, o) => a = s
  BY <1>3 DEF Enter, Grant, Cede, Deciding
<1>6. ASSUME Cede(s, o)
      PROVE  file'[o].claims = scanned[s][o].claims \ Hit(s, o)
  <2>1. /\ scanned[s][o] \in Record /\ file \in [Session -> Record]
        /\ file' = [file EXCEPT ![o] =
                      [scanned[s][o] EXCEPT
                         !.claims = scanned[s][o].claims \ Hit(s, o),
                         !.ceded = scanned[s][o].ceded \cup Hit(s, o)]]
    BY <1>1, <1>6 DEF Cede, TypeOK
  <2> QED BY <2>1, UpdatedFields
<1> QED BY <1>1, <1>2, <1>4, <1>5, <1>6 DEF LateCopy

\* What was read covers what a file holds now, but for what was told.
LEMMA LateScanStep ==
  ASSUME TellInv, ~Crashes, [Next]_vars
  PROVE  LateScan'
<1>1. TypeOK /\ LockInv /\ LateScan
  BY DEF TellInv
<1> SUFFICES ASSUME NEW s \in Session, NEW o \in Session, HasRead(s, o)',
                    NEW d \in file'[o].claims, ~Told(o, d)'
             PROVE  d \in scanned'[s][o].claims
  BY DEF LateScan
<1>2. o # s
  BY DEF HasRead
<1>3. ASSUME HasRead(s, o), scanned'[s][o] = scanned[s][o]
      PROVE  d \in scanned'[s][o].claims
  <2>1. pc[s] \in Deciding
    BY <1>3 DEF HasRead, Deciding
  <2>2. d \in file[o].claims \/ d \in scanned[s][o].claims
    BY <1>2, <2>1, FileWhileRead
  <2>3. ~Told(o, d)
    BY <1>1, ToldStays
  <2> QED BY <1>1, <1>3, <2>2, <2>3 DEF LateScan
<1>4. CASE Waits(s)
  <2>1. HasRead(s, o)
    BY <1>4 DEF HasRead, Waits
  <2> QED BY <1>3, <1>4, <2>1 DEF Waits
<1>5. Tick \/ UNCHANGED vars => Waits(s)
  BY DEF Tick, vars, process, Waits
<1>6. \A a \in Session : Acts(a) /\ a # s => Waits(s)
  BY <1>1, OneActs
<1>7. CASE Acts(s)
  <2>1. CASE \E x \in Session : Scan(s, x)
    <3>1. PICK x \in Session : Scan(s, x)
      BY <2>1
    <3>2. /\ scanned' = [scanned EXCEPT ![s] =
                           [scanned[s] EXCEPT ![x] = file[x]]]
          /\ todo' = [todo EXCEPT ![s] = todo[s] \ {x}]
          /\ UNCHANGED <<file, pc>>
      BY <3>1 DEF Scan
    <3>3. CASE x = o
      BY <1>1, <3>2, <3>3 DEF TypeOK
    <3>4. CASE x # o
      <4>1. scanned'[s][o] = scanned[s][o] /\ HasRead(s, o)
        BY <1>1, <3>2, <3>4 DEF HasRead, TypeOK
      <4> QED BY <1>3, <4>1
    <3> QED BY <3>3, <3>4
  <2>2. CASE Decide(s) \/ Notify(s) \/ \E x \in Session : Cede(s, x)
    <3>1. UNCHANGED scanned
      BY <2>2 DEF Decide, Notify, Cede, process
    <3>2. HasRead(s, o)
      BY <1>2, <2>2 DEF HasRead, Decide, Notify, Cede
    <3> QED BY <1>3, <3>1, <3>2
  <2>3. CASE Call(s)
    BY <1>1, <1>2, <2>3 DEF HasRead, Call, TouchLoad, ReleaseLoad, ClaimLock,
       TypeOK
  <2>4. CASE Save(s) \/ Refuse(s) \/ Log(s) \/ Crash(s)
    BY <1>1, <2>4, FinishOthers
    DEF HasRead, Save, TouchSave, ReleaseSave, Refuse, Log, Crash
  <2>5. CASE Enter(s) \/ Grant(s)
    BY <1>1, <2>5 DEF HasRead, Enter, Grant, TypeOK
  <2> QED BY <1>7, <2>1, <2>2, <2>3, <2>4, <2>5 DEF Acts, ClaimStep
<1> QED BY <1>4, <1>5, <1>6, <1>7 DEF Next, Acts

\* Nobody who was not told is in the way of a grant.
LEMMA LateClearStep ==
  ASSUME TellInv, ~Crashes, [Next]_vars
  PROVE  LateClear'
<1>1. TypeOK /\ LockInv /\ LateScan /\ LateClear
  BY DEF TellInv
<1> SUFFICES ASSUME NEW s \in Session, NEW o \in Session, HasCleared(s, o)',
                    NEW c \in want'[s], NEW d \in file'[o].claims,
                    <<c, d>> \in Overlap, ~Told(o, d)'
             PROVE  FALSE
  BY DEF LateClear
<1>2. o # s /\ ~Told(o, d)
  BY <1>1, ToldStays DEF HasCleared
<1>3. ASSUME HasCleared(s, o), want'[s] = want[s]
      PROVE  FALSE
  <2>1. pc[s] \in Deciding
    BY <1>3 DEF HasCleared, Deciding
  <2>2. d \notin file[o].claims
    BY <1>1, <1>2, <1>3 DEF LateClear
  <2>3. Cede(s, o)
    BY <1>2, <2>1, <2>2, FileWhileRead
  <2> QED BY <1>3, <2>3 DEF HasCleared, Cede
<1>4. CASE Waits(s)
  <2>1. HasCleared(s, o)
    BY <1>4 DEF HasCleared, Waits
  <2> QED BY <1>3, <1>4, <2>1 DEF Waits
<1>5. Tick \/ UNCHANGED vars => Waits(s)
  BY DEF Tick, vars, process, Waits
<1>6. \A a \in Session : Acts(a) /\ a # s => Waits(s)
  BY <1>1, OneActs
<1>7. CASE Acts(s)
  <2>1. CASE Decide(s)
    <3>1. /\ UNCHANGED <<file, want>> /\ pc[s] = "scan" /\ todo[s] = {}
          /\ todo'[s] = {x \in Session \ {s} : Hit(s, x) # {}}
          /\ pc'[s] = "cede"
      BY <1>1, <2>1 DEF Decide, TypeOK
    <3>2. Hit(s, o) = {}
      BY <1>2, <3>1 DEF HasCleared
    <3>3. d \in scanned[s][o].claims
      BY <1>1, <1>2, <3>1 DEF LateScan, HasRead
    <3> QED BY <3>1, <3>2, <3>3 DEF Hit
  <2>2. CASE \E x \in Session : Cede(s, x)
    <3>1. PICK x \in Session : Cede(s, x)
      BY <2>2
    <3>2. /\ UNCHANGED want /\ pc[s] = "cede" /\ pc'[s] = "notify"
          /\ todo'[s] = todo[s] \ {x} /\ x \in todo[s]
      BY <1>1, <3>1 DEF Cede, TypeOK
    <3>3. CASE x = o
      <4>1. file'[o].claims = scanned[s][o].claims \ Hit(s, o)
        <5>1. /\ scanned[s][o] \in Record /\ file \in [Session -> Record]
              /\ file' = [file EXCEPT ![o] =
                            [scanned[s][o] EXCEPT
                               !.claims = scanned[s][o].claims \ Hit(s, o),
                               !.ceded = scanned[s][o].ceded \cup Hit(s, o)]]
          BY <1>1, <3>1, <3>3 DEF Cede, TypeOK
        <5> QED BY <5>1, UpdatedFields
      <4> QED BY <3>2, <4>1 DEF Hit
    <3>4. CASE x # o
      <4>1. HasCleared(s, o)
        BY <1>2, <3>2, <3>4 DEF HasCleared
      <4> QED BY <1>3, <3>2, <4>1
    <3> QED BY <3>3, <3>4
  <2>3. CASE Notify(s) \/ Enter(s) \/ Grant(s)
    <3>1. UNCHANGED want /\ HasCleared(s, o)
      BY <1>1, <1>2, <2>3 DEF Notify, Enter, Grant, process, HasCleared, TypeOK
    <3> QED BY <1>3, <3>1
  <2>4. CASE Call(s) \/ \E x \in Session : Scan(s, x)
    BY <1>1, <2>4 DEF HasCleared, Call, TouchLoad, ReleaseLoad, ClaimLock, Scan,
       TypeOK
  <2>5. CASE Save(s) \/ Refuse(s) \/ Log(s) \/ Crash(s)
    BY <1>1, <2>5, FinishOthers
    DEF HasCleared, Save, TouchSave, ReleaseSave, Refuse, Log, Crash
  <2> QED BY <1>7, <2>1, <2>2, <2>3, <2>4, <2>5 DEF Acts, ClaimStep
<1> QED BY <1>4, <1>5, <1>6, <1>7 DEF Next, Acts

LEMMA TellInit == Init => TellInv
<1> SUFFICES ASSUME Init PROVE TellInv
  OBVIOUS
<1>1. TypeOK /\ TodoInv /\ LockInv /\ MemoryInv
  BY BoardAssumption DEF Init, TypeOK, Record, Blank, TodoInv, LockInv,
     MemoryInv, Deciding
<1>2. \A o \in Session : \A r \in RecordsOf(o) : r.claims = {} /\ r.ceded = {}
  BY DEF Init, RecordsOf, Blank
<1>3. CededTold /\ ClaimsNamed
  BY <1>2 DEF CededTold, ClaimsNamed
<1>4. LateCopy /\ LateScan /\ LateClear
  BY DEF Init, LateCopy, LateScan, HasRead, LateClear, HasCleared, Blank
<1> QED BY <1>1, <1>3, <1>4 DEF TellInv

LEMMA TellStep == ~Crashes /\ TellInv /\ [Next]_vars => TellInv'
<1> SUFFICES ASSUME ~Crashes, TellInv, [Next]_vars PROVE TellInv'
  OBVIOUS
<1>1. TypeOK' /\ TodoInv' /\ LockInv'
  BY TypeStep, TodoStep, LockStep DEF TellInv
<1>2. MemoryInv' /\ CededTold'
  BY MemoryStep, CededToldStep DEF TellInv
<1>3. ClaimsNamed' /\ LateCopy' /\ LateScan' /\ LateClear'
  BY ClaimsNamedStep, LateCopyStep, LateScanStep, LateClearStep
<1> QED BY <1>1, <1>2, <1>3 DEF TellInv

\* If no process is killed halfway, every ceded claim was announced to its
\* holder or is about to be, even where late saves undo a takeover.
THEOREM BoardTells == ~Crashes /\ Spec => []RobbedIsTold
<1>1. TellInv => RobbedIsTold
  BY DEF TellInv, CededTold, RecordsOf, RobbedIsTold, Told
<1>2. CASE ~Crashes
  <2>1. TellInv /\ [Next]_vars => TellInv'
    BY <1>2, TellStep
  <2> QED BY <1>1, <2>1, TellInit, PTL DEF Spec
<1>3. CASE Crashes
  BY <1>3
<1> QED BY <1>2, <1>3

\* If no process is killed halfway, the claims log names the holder of every
\* claim, but for holders that were told that they lost it.
THEOREM BoardNames == ~Crashes /\ Spec => []HolderIsLastClaimant
<1>1. TellInv => HolderIsLastClaimant
  BY DEF TellInv, ClaimsNamed, RecordsOf, HolderIsLastClaimant, Named, Told
<1>2. CASE ~Crashes
  <2>1. TellInv /\ [Next]_vars => TellInv'
    BY <1>2, TellStep
  <2> QED BY <1>1, <2>1, TellInit, PTL DEF Spec
<1>3. CASE Crashes
  BY <1>3
<1> QED BY <1>2, <1>3
-----------------------------------------------------------------------------
(***************************************************************************)
(* Who shares a path.  A record in the memory of a process can be saved    *)
(* again, so what is shown of the files is shown of every record.          *)
(***************************************************************************)

\* What s has found in its way was told to its holder, once s is past it.
HitsTold ==
  \A s, o \in Session : HasCleared(s, o) => \A d \in Hit(s, o) : Told(o, d)

\* Records of two sessions overlap only where one of the two was told.
RecordsShared ==
  \A s, o \in Session : s # o =>
    \A r \in RecordsOf(s), q \in RecordsOf(o) :
      \A c \in r.claims, d \in q.claims :
        <<c, d>> \in Overlap => Told(s, c) \/ Told(o, d)

\* Whoever is being granted a claim has no record in its way that was not told.
GrantFree ==
  \A s, o \in Session : pc[s] = "log" /\ s # o =>
    \A c \in want[s], q \in RecordsOf(o) :
      \A d \in q.claims : <<c, d>> \in Overlap => Told(o, d)

ShareInv == TellInv /\ HitsTold /\ RecordsShared

LEMMA HitsToldStep ==
  ASSUME TellInv, HitsTold, ~Crashes, [Next]_vars
  PROVE  HitsTold'
<1>1. TypeOK /\ LockInv
  BY DEF TellInv
<1> SUFFICES ASSUME NEW s \in Session, NEW o \in Session, HasCleared(s, o)',
                    NEW d \in Hit(s, o)'
             PROVE  Told(o, d)'
  BY DEF HitsTold
<1>2. o # s
  BY DEF HasCleared
<1>3. ASSUME HasCleared(s, o), want'[s] = want[s], scanned'[s] = scanned[s]
      PROVE  Told(o, d)'
  <2>1. Told(o, d)
    BY <1>3 DEF HitsTold, Hit
  <2> QED BY <1>1, <2>1, ToldStays
<1>4. CASE Waits(s)
  <2>1. HasCleared(s, o)
    BY <1>4 DEF HasCleared, Waits
  <2> QED BY <1>3, <1>4, <2>1 DEF Waits
<1>5. Tick \/ UNCHANGED vars => Waits(s)
  BY DEF Tick, vars, process, Waits
<1>6. \A a \in Session : Acts(a) /\ a # s => Waits(s)
  BY <1>1, OneActs
<1>7. CASE Acts(s)
  <2>1. CASE Decide(s)
    <3>1. /\ UNCHANGED <<want, scanned>> /\ pc'[s] = "cede"
          /\ todo'[s] = {x \in Session \ {s} : Hit(s, x) # {}}
      BY <1>1, <2>1 DEF Decide, TypeOK
    <3>2. Hit(s, o) = {}
      BY <1>2, <3>1 DEF HasCleared
    <3> QED BY <3>1, <3>2 DEF Hit
  <2>2. CASE \E x \in Session : Cede(s, x)
    <3>1. PICK x \in Session : Cede(s, x)
      BY <2>2
    <3>2. /\ UNCHANGED <<want, scanned>> /\ pc[s] = "cede" /\ pc'[s] = "notify"
          /\ todo'[s] = todo[s] \ {x} /\ robbed'[s] = x
      BY <1>1, <3>1 DEF Cede, TypeOK
    <3>3. CASE x = o
      BY <3>2, <3>3 DEF Told, ToBeTold
    <3>4. CASE x # o
      <4>1. HasCleared(s, o)
        BY <1>2, <3>2, <3>4 DEF HasCleared
      <4> QED BY <1>3, <3>2, <4>1
    <3> QED BY <3>3, <3>4
  <2>3. CASE Notify(s) \/ Enter(s) \/ Grant(s)
    <3>1. UNCHANGED <<want, scanned>> /\ HasCleared(s, o)
      BY <1>1, <1>2, <2>3 DEF Notify, Enter, Grant, process, HasCleared, TypeOK
    <3> QED BY <1>3, <3>1
  <2>4. CASE Call(s) \/ \E x \in Session : Scan(s, x)
    BY <1>1, <2>4 DEF HasCleared, Call, TouchLoad, ReleaseLoad, ClaimLock, Scan,
       TypeOK
  <2>5. CASE Save(s) \/ Refuse(s) \/ Log(s) \/ Crash(s)
    BY <1>1, <2>5, FinishOthers
    DEF HasCleared, Save, TouchSave, ReleaseSave, Refuse, Log, Crash
  <2> QED BY <1>7, <2>1, <2>2, <2>3, <2>4, <2>5 DEF Acts, ClaimStep
<1> QED BY <1>4, <1>5, <1>6, <1>7 DEF Next, Acts

LEMMA GrantIsFree == TellInv /\ HitsTold => GrantFree
<1> SUFFICES ASSUME TellInv, HitsTold,
                    NEW s \in Session, NEW o \in Session, pc[s] = "log", s # o,
                    NEW c \in want[s], NEW q \in RecordsOf(o),
                    NEW d \in q.claims, <<c, d>> \in Overlap
             PROVE  Told(o, d)
  BY DEF GrantFree
<1>1. /\ LockInv /\ MemoryInv /\ LateCopy /\ LateClear
      /\ HasCleared(s, o) /\ pc[s] \in Deciding
  BY DEF TellInv, HasCleared, Deciding
<1>2. d \in file[o].claims => Told(o, d)
  BY <1>1 DEF LateClear
<1>3. CASE q = copy[o]
  BY <1>1, <1>2, <1>3 DEF LateCopy
<1>4. ASSUME NEW a \in Session, q = scanned[a][o]
      PROVE  Told(o, d)
  <2>1. CASE a = s
    BY <1>1, <1>4, <2>1 DEF HitsTold, Hit
  <2>2. CASE a # s
    <3>1. scanned[a] = [x \in Session |-> Blank]
      BY <1>1, <2>2, AloneInside DEF MemoryInv
    <3> QED BY <1>4, <3>1 DEF Blank
  <2> QED BY <2>1, <2>2
<1> QED BY <1>2, <1>3, <1>4 DEF RecordsOf

\* A record that is new says what an older one did, or what was just granted.
LEMMA RecordsSharedStep ==
  ASSUME ShareInv, TellInv', HitsTold', GrantFree', ~Crashes, [Next]_vars
  PROVE  RecordsShared'
<1>1. /\ TypeOK /\ MemoryInv /\ RecordsShared
      /\ \A c, d \in Claim : <<c, d>> \in Overlap => <<d, c>> \in Overlap
  BY BoardAssumption DEF ShareInv, TellInv
<1> SUFFICES ASSUME NEW s \in Session, NEW o \in Session, s # o,
                    NEW new \in RecordsOf(s)', NEW nuq \in RecordsOf(o)',
                    NEW c \in new.claims, NEW d \in nuq.claims,
                    <<c, d>> \in Overlap, ~Told(s, c)', ~Told(o, d)'
             PROVE  FALSE
  BY DEF RecordsShared
<1>2. ~Told(s, c) /\ ~Told(o, d)
  BY <1>1, ToldStays
<1>3. c \in Claim /\ d \in Claim
  BY BoardAssumption
<1>4. ~(pc'[s] = "log" /\ c \in want'[s]) /\ ~(pc'[o] = "log" /\ d \in want'[o])
  BY <1>1, <1>3 DEF GrantFree
<1>5. \E r \in RecordsOf(s) : c \in r.claims
  <2>1. new # Blank
    BY DEF Blank
  <2> QED BY <1>1, <1>4, <2>1, RecordsStep DEF Follows
<1>6. \E q \in RecordsOf(o) : d \in q.claims
  <2>1. nuq # Blank
    BY DEF Blank
  <2> QED BY <1>1, <1>4, <2>1, RecordsStep DEF Follows
<1> QED BY <1>1, <1>2, <1>5, <1>6 DEF RecordsShared

LEMMA ShareInit == Init => ShareInv
<1> SUFFICES ASSUME Init PROVE ShareInv
  OBVIOUS
<1>1. \A o \in Session : \A r \in RecordsOf(o) : r.claims = {}
  BY DEF Init, RecordsOf, Blank
<1>2. HitsTold /\ RecordsShared
  BY <1>1 DEF Init, HitsTold, HasCleared, RecordsShared
<1> QED BY <1>2, TellInit DEF ShareInv

\* If no process is killed halfway, claims of two sessions overlap only where
\* one of the two was told that it lost its claim, or is about to be, even
\* where owners wake and save over a takeover.
THEOREM BoardShares == ~Crashes /\ Spec => []SharedIsTold
<1>1. ShareInv => SharedIsTold
  BY DEF ShareInv, RecordsShared, RecordsOf, SharedIsTold, Told
<1>2. CASE ~Crashes
  <2>1. ShareInv /\ [Next]_vars => TellInv' /\ HitsTold'
    BY <1>2, TellStep, HitsToldStep DEF ShareInv
  <2>2. TellInv' /\ HitsTold' => GrantFree'
    BY GrantIsFree, PTL
  <2>3. ShareInv /\ [Next]_vars => ShareInv'
    BY <1>2, <2>1, <2>2, RecordsSharedStep DEF ShareInv
  <2> QED BY <1>1, <2>3, ShareInit, PTL DEF Spec
<1>3. CASE Crashes
  BY <1>3
<1> QED BY <1>2, <1>3
=============================================================================
