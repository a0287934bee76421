------------------------------- MODULE Board -------------------------------
(***************************************************************************)
(* The claims of the coordination board (synthesis/board.py).              *)
(*                                                                         *)
(* Every session has one JSON file.  Hooks and commands of the session run *)
(* one at a time, but those of different sessions run in parallel and meet *)
(* only in these files.  `touch` and `release` load their own file and     *)
(* save it again under no lock.  `claim` decides under one file lock: it   *)
(* reads every session's file, refuses or moves the stale claims in its    *)
(* way to `ceded`, touches its own file and adds the new claims.  Each     *)
(* read and each write below is a step of its own, so that the operations  *)
(* of different sessions interleave as the processes do, and a process can *)
(* be killed between any two of them.                                      *)
(***************************************************************************)
EXTENDS Naturals

CONSTANTS
  Session,         \* session ids
  Nobody,          \* not a session
  Claim,           \* claims as board.as_claim spells them
  Overlap,         \* pairs of claims for which board.overlaps is true
  Requests,        \* the lists of claims a session may ask for
  MayTake,         \* sessions that pass take_stale (`synthesis claim --take`)
  OwnersStayQuiet, \* no session runs while its stale claims are taken over
  Crashes,         \* processes may be killed halfway
  StaleAfter,      \* STALE_SECONDS, in ticks
  MaxNow           \* bound on the clock

ASSUME BoardAssumption ==
  /\ Nobody \notin Session
  /\ Overlap \subseteq Claim \X Claim
  /\ \A c \in Claim : <<c, c>> \in Overlap
  /\ \A c, d \in Claim : <<c, d>> \in Overlap => <<d, c>> \in Overlap
  /\ Requests \subseteq SUBSET Claim
  /\ MayTake \subseteq Session
  /\ OwnersStayQuiet \in BOOLEAN
  /\ Crashes \in BOOLEAN
  /\ StaleAfter \in Nat
  /\ MaxNow \in Nat \ {0}

VARIABLES
  now,          \* time.time()
  file,         \* file[s]: the saved record of session s
  pc,           \* pc[s]: the next step of the one process of session s
  copy,         \* copy[s]: the record that process loaded and will save
  want,         \* want[s]: the claims it was asked to add or to release
  take,         \* take[s]: whether it was asked with take_stale
  scanned,      \* scanned[s]: the records of the others, as it read them
  todo,         \* todo[s]: the sessions left in the loop it is in
  robbed,       \* robbed[s]: whose record it saved last, to be told next
  lock,         \* the holder of claims.lock, or Nobody
  lastClaimant, \* lastClaimant[c]: who last logged a claim overlapping c
  notices       \* notices[s]: the claims s was told it lost to a takeover

vars == <<now, file, pc, copy, want, take, scanned, todo, robbed,
          lock, lastClaimant, notices>>

process == <<copy, want, take, scanned, todo, robbed>>

Record == [claims : SUBSET Claim, ceded : SUBSET Claim, seen : 0..MaxNow]

\* A session with no file: it holds nothing, and its first touch creates it.
Blank == [claims |-> {}, ceded |-> {}, seen |-> 0]

Stale(r) == r.seen # 0 /\ now - r.seen > StaleAfter

Deciding == {"scan", "cede", "notify", "grant", "log"}

\* Mutant: claims are compared by spelling, so a folder does not cover a file.
SameSpelling(s, o) == scanned[s][o].claims \cap want[s]

\* The claims of o, as s read them, that s must have out of its way.
Hit(s, o) ==
  {h \in scanned[s][o].claims : \E c \in want[s] : <<c, h>> \in Overlap}

\* Mutant: --take is asked for, and nobody looks whether the holder is stale.
BlocksUnlessTaken(s, o) == Hit(s, o) # {} /\ ~take[s]

Blocks(s, o) == Hit(s, o) # {} /\ (~take[s] \/ ~Stale(scanned[s][o]))

\* s has read claims of o that it may take over.
TakingFrom(s, o) ==
  pc[s] \in {"scan", "cede", "notify"} /\ o # s /\ take[s] /\ Hit(s, o) # {}

BetweenLoadAndSave(s) == pc[s] \in {"touch", "release"}

Init ==
  /\ now = 1
  /\ file = [s \in Session |-> Blank]
  /\ pc = [s \in Session |-> "idle"]
  /\ copy = [s \in Session |-> Blank]
  /\ want = [s \in Session |-> {}]
  /\ take = [s \in Session |-> FALSE]
  /\ scanned = [s \in Session |-> [o \in Session |-> Blank]]
  /\ todo = [s \in Session |-> {}]
  /\ robbed = [s \in Session |-> Nobody]
  /\ lock = Nobody
  /\ lastClaimant = [c \in Claim |-> Nobody]
  /\ notices = [s \in Session |-> {}]
-----------------------------------------------------------------------------
\* Hours pass: the computer sleeps, or the session is left alone.
Tick == /\ now < MaxNow
        /\ now' = now + 1
        /\ UNCHANGED <<file, pc, process, lock, lastClaimant, notices>>

\* The process ends, and keeps nothing of what it read.
Finish(s) ==
  /\ pc' = [pc EXCEPT ![s] = "idle"]
  /\ copy' = [copy EXCEPT ![s] = Blank]
  /\ want' = [want EXCEPT ![s] = {}]
  /\ take' = [take EXCEPT ![s] = FALSE]
  /\ scanned' = [scanned EXCEPT ![s] = [o \in Session |-> Blank]]
  /\ todo' = [todo EXCEPT ![s] = {}]
  /\ robbed' = [robbed EXCEPT ![s] = Nobody]

MayRun(s) ==
  pc[s] = "idle" /\ (OwnersStayQuiet => \A a \in Session : ~TakingFrom(a, s))

\* touch: the clock is read first, then the file is loaded ...
TouchLoad(s) ==
  /\ MayRun(s)
  /\ pc' = [pc EXCEPT ![s] = "touch"]
  /\ copy' = [copy EXCEPT ![s] = [file[s] EXCEPT !.seen = now]]
  /\ UNCHANGED <<now, file, want, take, scanned, todo, robbed, lock,
                 lastClaimant, notices>>

\* ... and saved again.
TouchSave(s) ==
  /\ pc[s] = "touch"
  /\ file' = [file EXCEPT ![s] = copy[s]]
  /\ Finish(s)
  /\ UNCHANGED <<now, lock, lastClaimant, notices>>

\* release: no lock is taken, and `seen` stays as it was.
ReleaseLoad(s, C) ==
  /\ MayRun(s)
  /\ file[s] # Blank
  /\ pc' = [pc EXCEPT ![s] = "release"]
  /\ copy' = [copy EXCEPT ![s] = [file[s] EXCEPT !.claims = @ \ C]]
  /\ want' = [want EXCEPT ![s] = C]
  /\ UNCHANGED <<now, file, take, scanned, todo, robbed, lock, lastClaimant,
                 notices>>

ReleaseSave(s) ==
  /\ pc[s] = "release"
  /\ file' = [file EXCEPT ![s] = copy[s]]
  /\ Finish(s)
  /\ UNCHANGED <<now, lock, lastClaimant, notices>>
-----------------------------------------------------------------------------
\* claim: wait for the lock, then look at every other session.
ClaimLock(s, C, t) ==
  /\ pc[s] = "idle"
  /\ lock = Nobody
  /\ t => s \in MayTake
  /\ lock' = s
  /\ pc' = [pc EXCEPT ![s] = "scan"]
  /\ want' = [want EXCEPT ![s] = C]
  /\ take' = [take EXCEPT ![s] = t]
  /\ todo' = [todo EXCEPT ![s] = Session \ {s}]
  /\ UNCHANGED <<now, file, copy, scanned, robbed, lastClaimant, notices>>

\* One turn of the loop in `sessions`: one file is read.
Scan(s, o) ==
  /\ pc[s] = "scan"
  /\ o \in todo[s]
  /\ OwnersStayQuiet /\ take[s] => ~BetweenLoadAndSave(o)
  /\ scanned' = [scanned EXCEPT ![s] = [@ EXCEPT ![o] = file[o]]]
  /\ todo' = [todo EXCEPT ![s] = @ \ {o}]
  /\ UNCHANGED <<now, file, pc, copy, want, take, robbed, lock, lastClaimant,
                 notices>>

\* Mutant: the conflict leaves without letting the lock go.
RefuseKeepsLock(s) ==
  /\ pc[s] = "scan" /\ todo[s] = {}
  /\ \E o \in Session \ {s} : Blocks(s, o)
  /\ Finish(s)
  /\ UNCHANGED <<now, file, lock, lastClaimant, notices>>

\* ClaimConflict: nothing has been changed, and the lock is let go.
Refuse(s) ==
  /\ pc[s] = "scan" /\ todo[s] = {}
  /\ \E o \in Session \ {s} : Blocks(s, o)
  /\ lock' = Nobody
  /\ Finish(s)
  /\ UNCHANGED <<now, file, lastClaimant, notices>>

Decide(s) ==
  /\ pc[s] = "scan" /\ todo[s] = {}
  /\ \A o \in Session \ {s} : ~Blocks(s, o)
  /\ pc' = [pc EXCEPT ![s] = "cede"]
  /\ todo' = [todo EXCEPT ![s] = {o \in Session \ {s} : Hit(s, o) # {}}]
  /\ UNCHANGED <<now, file, copy, want, take, scanned, robbed, lock,
                 lastClaimant, notices>>

\* Mutant: the latest takeover replaces the record of the earlier ones.
CedeForgetsEarlier(s, o) ==
  /\ pc[s] = "cede"
  /\ o \in todo[s]
  /\ file' = [file EXCEPT ![o] =
                [scanned[s][o] EXCEPT !.claims = @ \ Hit(s, o),
                                      !.ceded = Hit(s, o)]]
  /\ pc' = [pc EXCEPT ![s] = "notify"]
  /\ todo' = [todo EXCEPT ![s] = @ \ {o}]
  /\ robbed' = [robbed EXCEPT ![s] = o]
  /\ UNCHANGED <<now, copy, want, take, scanned, lock, lastClaimant, notices>>

\* The record read earlier is saved with its stale claims moved to `ceded`.
Cede(s, o) ==
  /\ pc[s] = "cede"
  /\ o \in todo[s]
  /\ file' = [file EXCEPT ![o] =
                [scanned[s][o] EXCEPT !.claims = @ \ Hit(s, o),
                                      !.ceded = @ \cup Hit(s, o)]]
  /\ pc' = [pc EXCEPT ![s] = "notify"]
  /\ todo' = [todo EXCEPT ![s] = @ \ {o}]
  /\ robbed' = [robbed EXCEPT ![s] = o]
  /\ UNCHANGED <<now, copy, want, take, scanned, lock, lastClaimant, notices>>

\* Mutant: sender and receiver are swapped.
NotifySelf(s) ==
  /\ pc[s] = "notify"
  /\ notices' = [notices EXCEPT ![s] = @ \cup Hit(s, robbed[s])]
  /\ pc' = [pc EXCEPT ![s] = "cede"]
  /\ UNCHANGED <<now, file, process, lock, lastClaimant>>

Notify(s) ==
  /\ pc[s] = "notify"
  /\ notices' = [notices EXCEPT ![robbed[s]] = @ \cup Hit(s, robbed[s])]
  /\ pc' = [pc EXCEPT ![s] = "cede"]
  /\ UNCHANGED <<now, file, process, lock, lastClaimant>>

\* The touch inside `claim`.  Nobody else writes this file while the lock is
\* held, so its load and its save are one step.
Enter(s) ==
  /\ pc[s] = "cede" /\ todo[s] = {}
  /\ file' = [file EXCEPT ![s].seen = now]
  /\ copy' = [copy EXCEPT ![s] = [file[s] EXCEPT !.seen = now]]
  /\ pc' = [pc EXCEPT ![s] = "grant"]
  /\ UNCHANGED <<now, want, take, scanned, todo, robbed, lock, lastClaimant,
                 notices>>

Grant(s) ==
  /\ pc[s] = "grant"
  /\ file' = [file EXCEPT ![s] = [copy[s] EXCEPT !.claims = @ \cup want[s]]]
  /\ pc' = [pc EXCEPT ![s] = "log"]
  /\ UNCHANGED <<now, process, lock, lastClaimant, notices>>

\* Mutant: the log is read from its beginning.
LogFirstWins(s) ==
  /\ pc[s] = "log"
  /\ lastClaimant' = [c \in Claim |->
       IF /\ lastClaimant[c] = Nobody
          /\ \E d \in want[s] : <<d, c>> \in Overlap
       THEN s ELSE lastClaimant[c]]
  /\ lock' = Nobody
  /\ Finish(s)
  /\ UNCHANGED <<now, file, notices>>

\* The row in claims.jsonl, seen as checkout.last_claimant reads it back.
Log(s) ==
  /\ pc[s] = "log"
  /\ lastClaimant' = [c \in Claim |->
       IF \E d \in want[s] : <<d, c>> \in Overlap THEN s ELSE lastClaimant[c]]
  /\ lock' = Nobody
  /\ Finish(s)
  /\ UNCHANGED <<now, file, notices>>
-----------------------------------------------------------------------------
\* The process is killed; the kernel frees a lock it held.
Crash(s) ==
  /\ Crashes
  /\ pc[s] # "idle"
  /\ lock' = IF lock = s THEN Nobody ELSE lock
  /\ Finish(s)
  /\ UNCHANGED <<now, file, lastClaimant, notices>>

\* What a process inside `claim` does next.
ClaimStep(s) ==
  \/ \E o \in Session : Scan(s, o) \/ Cede(s, o)
  \/ Refuse(s) \/ Decide(s) \/ Notify(s)
  \/ Enter(s) \/ Grant(s) \/ Log(s)

Save(s) == TouchSave(s) \/ ReleaseSave(s)

Call(s) ==
  \/ TouchLoad(s)
  \/ \E C \in Requests :
       ReleaseLoad(s, C) \/ \E t \in BOOLEAN : ClaimLock(s, C, t)

Next ==
  \/ Tick
  \/ \E s \in Session : Call(s) \/ Save(s) \/ ClaimStep(s) \/ Crash(s)

Spec == Init /\ [][Next]_vars

\* A started process is run to its end by the operating system.
Fairness == \A s \in Session : WF_vars(Save(s)) /\ WF_vars(ClaimStep(s))

FairSpec == Spec /\ Fairness
-----------------------------------------------------------------------------
TypeOK ==
  /\ now \in 1..MaxNow
  /\ file \in [Session -> Record]
  /\ pc \in [Session -> {"idle", "touch", "release"} \cup Deciding]
  /\ copy \in [Session -> Record]
  /\ want \in [Session -> SUBSET Claim]
  /\ take \in [Session -> BOOLEAN]
  /\ scanned \in [Session -> [Session -> Record]]
  /\ todo \in [Session -> SUBSET Session]
  /\ robbed \in [Session -> Session \cup {Nobody}]
  /\ lock \in Session \cup {Nobody}
  /\ lastClaimant \in [Claim -> Session \cup {Nobody}]
  /\ notices \in [Session -> SUBSET Claim]

\* Two sessions never hold claims that overlap, whatever the order in which
\* hooks and commands of all sessions read and write the files
\* (board.py:173, "so two sessions can't both win the same path").
Exclusive ==
  \A s, o \in Session : s # o =>
    \A c \in file[s].claims, d \in file[o].claims : <<c, d>> \notin Overlap

\* A claim leaves a session's file only because that session released it, or
\* while the session is stale and into its `ceded` list: no interleaved save
\* drops it, and no live session loses one to `--take` (board.py:58-61, 207).
OnlyStaleLoses ==
  [][\A o \in Session : \A c \in file[o].claims \ file'[o].claims :
       \/ pc[o] = "release" /\ c \in want[o]
       \/ Stale(file[o]) /\ c \in file'[o].ceded]_vars

\* What a session was told it lost stays on record under `ceded`, where the
\* notice sends it to look (board.py:207-212).
CededOnRecord == \A o \in Session : notices[o] \subseteq file[o].ceded

\* A process is about to tell o that it lost c.
ToBeTold(o, c) ==
  \E s \in Session : pc[s] = "notify" /\ robbed[s] = o /\ c \in Hit(s, o)

\* Unless a process is killed halfway, every ceded claim has been announced to
\* its holder, or is about to be by the process that took it (board.py:211).
RobbedIsTold ==
  \A o \in Session : \A c \in file[o].ceded :
    c \in notices[o] \/ ToBeTold(o, c)

\* Unless a process is killed halfway, two sessions hold claims that overlap
\* only when one of them was told that it lost its claim, or is about to be:
\* the late save that puts a lost claim back is the one way to share a path,
\* and its session knows (board.py:116, 207).
SharedIsTold ==
  \A s, o \in Session : s # o =>
    \A c \in file[s].claims, d \in file[o].claims :
      <<c, d>> \in Overlap =>
        \/ c \in notices[s] \/ ToBeTold(s, c)
        \/ d \in notices[o] \/ ToBeTold(o, d)

\* Unless a process is killed halfway, the claims log names the holder of a
\* claim as its last claimant, so that a warning about uncommitted work names
\* the right session; one that was told it lost the claim is no holder, even
\* if its own late save wrote it back (board.py:216, checkout.py:133).
HolderIsLastClaimant ==
  \A s \in Session : \A c \in file[s].claims :
    \/ lastClaimant[c] = s
    \/ pc[s] = "log" /\ c \in want[s]
    \/ c \in notices[s] \/ ToBeTold(s, c)

\* claims.lock is never held for good: the decision it protects ends, by a
\* grant or a refusal, whatever other processes do meanwhile, owners that wake
\* while they are taken from among them (board.py:171-183).
DecisionEnds == \A s \in Session : (lock = s) ~> (lock # s)

\* The board keeps the promise of ClaimPromise.tla.
Promise == INSTANCE ClaimPromise
             WITH held <- [s \in Session |-> file[s].claims],
                  ceded <- [s \in Session |-> file[s].ceded]

PromiseKept == Promise!Spec
=============================================================================
