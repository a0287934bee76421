---------------------------- MODULE SessionSync ----------------------------
(***************************************************************************)
(* `sessions sync` (sessions.py, sync and _sync_workspace): the archived   *)
(* sessions of a workspace are copied into its sessions repository, one    *)
(* commit per month touched, and pushed.  A state file beside the archive  *)
(* says how many records of each session were copied; a session whose count*)
(* is the same is not looked at again.  Everything runs under the lock of  *)
(* the exports, so that the archive stands still meanwhile; any command    *)
(* may fail, and the process may be killed anywhere.                       *)
(*                                                                         *)
(* Each session here is in a month of its own.  An archived session is how *)
(* many records it has and which reading of the transcript they are from:  *)
(* a rebuild reads it again, with adapters that may have changed; without  *)
(* records it is not there.                                                *)
(***************************************************************************)
EXTENDS Naturals

CONSTANTS
  Recorded,    \* sessions
  MaxRecords,  \* bound on the records of a session
  MaxReadings  \* bound on the rebuilds

ASSUME SyncAssumption == MaxRecords \in Nat /\ MaxReadings \in Nat

VARIABLES
  kept,      \* kept[s]: the session in the archive
  copied,    \* copied[s]: its copy in the checkout of the repository
  committed, \* committed[s]: the copy in the checkout's HEAD
  upstream,  \* upstream[s]: the copy on the remote
  behind,    \* another machine has pushed since the last pull
  done,      \* done[s]: how many records the state file says were copied
  sync       \* the sync that runs: its step, what it will say and its months

syncVars == <<kept, copied, committed, upstream, behind, done, sync>>

Content == [count : 0..MaxRecords, reading : 0..MaxReadings]
Nothing == [count |-> 0, reading |-> 0]
\* What a killed write leaves: no session the archive holds.
Broken == [count |-> MaxRecords + 1, reading |-> 0]

NoSync == [at |-> "idle", done |-> [s \in Recorded |-> 0], months |-> {},
           push |-> FALSE]

SyncInit ==
  /\ kept = [s \in Recorded |-> Nothing]
  /\ copied = kept /\ committed = kept /\ upstream = kept
  /\ behind = FALSE
  /\ done = [s \in Recorded |-> 0]
  /\ sync = NoSync

\* The next export adds records.
Grow(s) ==
  /\ sync = NoSync /\ kept[s].count < MaxRecords
  /\ kept' = [kept EXCEPT ![s].count = @ + 1]
  /\ UNCHANGED <<copied, committed, upstream, behind, done, sync>>

\* The archive moves aside with its states, and every transcript is read anew.
Rebuild(s) ==
  /\ sync = NoSync /\ kept[s].reading < MaxReadings
  /\ \E n \in 0..MaxRecords :
       kept' = [kept EXCEPT ![s] = [count |-> n, reading |-> @.reading + 1]]
  /\ done' = [r \in Recorded |-> 0]
  /\ UNCHANGED <<copied, committed, upstream, behind, sync>>

OtherPushes ==
  /\ behind' = TRUE
  /\ UNCHANGED <<kept, copied, committed, upstream, done, sync>>
-----------------------------------------------------------------------------
Syncs(step, r) == sync.at = step /\ sync' = r /\ UNCHANGED kept

BeginSync ==
  /\ \E push \in BOOLEAN :
       Syncs("idle",
             [at |-> "copy", done |-> done, months |-> {}, push |-> push])
  /\ UNCHANGED <<copied, committed, upstream, behind, done>>

Differs(s) == sync.done[s] # kept[s].count

CopySession(s) ==
  /\ Differs(s)
  /\ Syncs("copy",
           [sync EXCEPT !.done[s] = kept[s].count, !.months = @ \cup {s}])
  /\ copied' = [copied EXCEPT ![s] = kept[s]]
  /\ UNCHANGED <<committed, upstream, behind, done>>

CopiedAll ==
  /\ \A s \in Recorded : ~Differs(s)
  /\ Syncs("copy", [sync EXCEPT !.at = "commit"])
  /\ UNCHANGED <<copied, committed, upstream, behind, done>>

\* git add, and a commit of this month only; nothing when nothing is staged.
CommitMonth(s) ==
  /\ s \in sync.months
  /\ Syncs("commit", [sync EXCEPT !.months = @ \ {s}])
  /\ committed' = [committed EXCEPT ![s] = copied[s]]
  /\ UNCHANGED <<copied, upstream, behind, done>>

CommittedAll ==
  /\ sync.months = {}
  /\ Syncs("commit", [sync EXCEPT !.at = IF sync.push THEN "pull" ELSE "save"])
  /\ UNCHANGED <<copied, committed, upstream, behind, done>>

PullRebase ==
  /\ Syncs("pull", [sync EXCEPT !.at = "push"])
  /\ behind' = FALSE
  /\ UNCHANGED <<copied, committed, upstream, done>>

PushMonths ==
  /\ ~behind
  /\ Syncs("push", [sync EXCEPT !.at = "save"])
  /\ upstream' = committed
  /\ UNCHANGED <<copied, committed, behind, done>>

\* Mutant: a refused commit or a failed push is recorded as synced.
FailAndRecord ==
  /\ \E step \in {"commit", "pull", "push"} : Syncs(step, NoSync)
  /\ done' = sync.done
  /\ UNCHANGED <<copied, committed, upstream, behind>>

\* FAILED: a commit is refused, git fails, the remote has moved on.
SyncFails ==
  /\ \E step \in {"commit", "pull", "push"} : Syncs(step, NoSync)
  /\ UNCHANGED <<copied, committed, upstream, behind, done>>

\* Killed; a copy it was writing is left cut short.
SyncDies ==
  /\ sync # NoSync
  /\ Syncs(sync.at, NoSync)
  /\ \/ UNCHANGED copied
     \/ \E s \in Recorded :
          /\ Differs(s) /\ sync.at = "copy"
          /\ copied' = [copied EXCEPT ![s] = Broken]
  /\ UNCHANGED <<committed, upstream, behind, done>>

\* The state is written, and the answer is that the repository is up to date.
SaveSync ==
  /\ Syncs("save", NoSync)
  /\ done' = sync.done
  /\ UNCHANGED <<copied, committed, upstream, behind>>

SyncNext ==
  \/ \E s \in Recorded :
       Grow(s) \/ Rebuild(s) \/ CopySession(s) \/ CommitMonth(s)
  \/ OtherPushes \/ BeginSync \/ CopiedAll \/ CommittedAll \/ PullRebase
  \/ PushMonths \/ SyncFails \/ SyncDies \/ SaveSync

SyncSpec == SyncInit /\ [][SyncNext]_syncVars
-----------------------------------------------------------------------------
SyncTypes ==
  /\ kept \in [Recorded -> Content]
  /\ \A s \in Recorded :
       {copied[s], committed[s], upstream[s]} \subseteq Content \cup {Broken}
  /\ behind \in BOOLEAN /\ done \in [Recorded -> 0..MaxRecords]
  /\ sync.at \in {"idle", "copy", "commit", "pull", "push", "save"}
  /\ sync.months \subseteq Recorded /\ sync.done \in [Recorded -> 0..MaxRecords]

\* A session that the next sync will pass over, because the state has its count,
\* is in the repository as the archive has it, whatever failed before and
\* wherever a sync was killed (sessions.py:714, "nothing is recorded as synced,
\* nothing left staged").
SkippedIsCommitted ==
  \A s \in Recorded : done[s] = kept[s].count /\ done[s] > 0 =>
    committed[s] = kept[s]

\* A sync that pushes and does not say FAILED has every session that holds
\* records on the remote, also what earlier syncs committed and failed to push
\* or did not mean to (sessions.py:683, "A line starting FAILED means that
\* workspace's copy is not on its upstream").
UpToDateIsPushed ==
  SaveSync /\ sync.push =>
    \A s \in Recorded : kept[s].count > 0 => upstream[s] = kept[s]

\* Both, of every step: what is passed over was committed, and what a sync that
\* does not fail leaves is pushed.
SyncKept == [][SkippedIsCommitted' /\ UpToDateIsPushed]_syncVars
=============================================================================
