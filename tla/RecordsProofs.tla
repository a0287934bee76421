---------------------------- MODULE RecordsProofs -----------------------------
(***************************************************************************)
(* Worktrees, autopilot plans, the project index and handoffs: no work is  *)
(* lost with a worktree, no entry of a plan is undone and no plan runs past*)
(* its claim, the edits of others stay out of an index commit, and READY   *)
(* is the truth, whatever the commands of any number of sessions do in     *)
(* between; by induction with WorkInv, PlanInv, IndexInv and HandoffInv.   *)
(***************************************************************************)
EXTENDS Worktree, PlanFile, ProjectIndex, Handoff, SequenceTheorems, TLAPS
-----------------------------------------------------------------------------
(* Worktrees                                                               *)

Task ==
  [at : {"idle", "claim", "add", "undo", "ask", "status", "fetch", "remove",
         "branch", "delete", "remote", "claims", "land"},
   head : SUBSET Work, attached : BOOLEAN, had : BOOLEAN]

TaskTypes ==
  /\ made \in 0..MaxWork /\ repo \in Repo /\ late \subseteq Work
  /\ task \in [User -> Task]

\* The work that is on a branch.
Topic == Held(repo.topic)
Pushed == Held(repo.remoteTopic)
OnBranches == Topic \cup Pushed \cup repo.main \cup repo.remoteMain

\* What is in the folder, if there is one.
TreeInv ==
  /\ repo.attached \/ ~repo.there => repo.detached = {}
  /\ ~repo.there => repo.edits = {} /\ repo.ignored = {} /\ ~repo.attached

\* A retire that removes something has found its head merged, and what it
\* removes is in that head or came there too late.
HeadMerged ==
  \A u \in User : task[u].at \in {"remove", "branch", "delete", "remote"} =>
    task[u].head \subseteq repo.remoteMain

TopicChecked ==
  \A u \in User : task[u].at = "delete" =>
    Topic \subseteq task[u].head \cup late

DetachedRead ==
  \A u \in User : task[u].at \in {"ask", "status", "fetch", "remove"} =>
    repo.detached \subseteq task[u].head \cup late \cup OnBranches

IgnoredLate ==
  \A u \in User : task[u].at \in {"fetch", "remove"} =>
    repo.ignored \subseteq late

WorkInv ==
  /\ WorktreeTypes /\ TreeInv /\ HeadMerged /\ TopicChecked /\ DetachedRead
  /\ IgnoredLate /\ WorkKept

\* A command ends or goes on, and leaves the repository alone and asks no more
\* of what it has read.
Walks(u) ==
  /\ UNCHANGED <<made, repo, late>>
  /\ \/ task' = [task EXCEPT ![u] = NoTask]
     \/ Goes(u, "claim", "add") \/ Goes(u, "add", "undo")
     \/ Goes(u, "ask", "status") \/ Goes(u, "branch", "remote")
     \/ Goes(u, "remote", "claims") \/ Goes(u, "claims", "land")

LEMMA WalksAre ==
  ASSUME WorktreeTypes, NEW u \in User,
         \/ ClaimTree(u) \/ Conflict(u) \/ AddFails(u) \/ UndoClaim(u)
         \/ Ask(u) \/ Claimed(u) \/ NotClean(u) \/ NotMerged(u)
         \/ RemoveFails(u) \/ MovedOn(u) \/ KeepRemote(u) \/ DropClaims(u)
         \/ NotLanded(u) \/ Dies(u)
  PROVE  Walks(u)
BY DEF WorktreeTypes, Walks, Goes, Reads, Owns, ClaimTree, Conflict, AddFails,
   UndoClaim, Ask, Claimed, NotClean, NotMerged, RemoveFails, MovedOn,
   KeepRemote, DropClaims, NotLanded, Dies

LEMMA HeldIs ==
  /\ Held(NoBranch) = {}
  /\ \A pieces \in SUBSET Work : Held(pieces) = pieces
BY WorktreeAssumption DEF Held, Work

LEMMA MoreWork ==
  ASSUME WorktreeTypes, made < MaxWork
  PROVE  /\ made + 1 \in Work /\ made + 1 \in 0..MaxWork
         /\ 1..(made + 1) = (1..made) \cup {made + 1}
BY WorktreeAssumption DEF WorktreeTypes, Work

\* What the actions do to the pieces that the branches hold.
LEMMA BranchesMove ==
  ASSUME WorktreeTypes
  PROVE  /\ CommitElsewhere =>
              Topic' = Topic \cup {made + 1} /\ Pushed' = Pushed
         /\ PushElsewhere => Topic' = Topic /\ Pushed' = Pushed \cup {made + 1}
         /\ CommitWork =>
              /\ Topic' = IF repo.attached THEN Topic \cup repo.edits ELSE Topic
              /\ Pushed' = Pushed
         /\ PushWork =>
              Topic' = Topic /\ Pushed' = Topic /\ Pushed \subseteq Topic
         /\ \A u \in User :
              /\ AddTree(u) => Topic' = Topic /\ Pushed' = Pushed
              /\ StillThere(u) => Topic' = task[u].head /\ Pushed' = Pushed
              /\ DeleteBranch(u) =>
                   (Topic' = Topic \/ Topic' = {}) /\ Pushed' = Pushed
              /\ DeleteRemote(u) =>
                   Topic' = Topic /\ Pushed' = {} /\ Pushed = task[u].head
<1> USE DEF Topic, Pushed
<1>a. /\ repo.topic \in (SUBSET Work) \cup {NoBranch}
      /\ repo.remoteTopic \in (SUBSET Work) \cup {NoBranch}
      /\ repo.edits \in SUBSET Work
      /\ \A u \in User : task[u].head \in SUBSET Work
  BY DEF WorktreeTypes, Repo, Branch
<1>b. repo = [repo EXCEPT !.topic = @] /\ DOMAIN repo =
        {"there", "attached", "detached", "edits", "ignored", "topic", "main",
         "remoteTopic", "remoteMain"}
  BY DEF WorktreeTypes, Repo
<1>1. ASSUME CommitElsewhere
      PROVE  Topic' = Topic \cup {made + 1} /\ Pushed' = Pushed
  <2>1. repo' = [repo EXCEPT !.topic = @ \cup {made + 1}]
    BY <1>1 DEF CommitElsewhere, Make
  <2>2. repo'.topic = repo.topic \cup {made + 1}
        /\ repo'.remoteTopic = repo.remoteTopic
    BY <1>b, <2>1
  <2>3. /\ repo.topic \in SUBSET Work
        /\ repo.topic \cup {made + 1} \in SUBSET Work
    BY <1>1, <1>a, MoreWork DEF CommitElsewhere, Make
  <2> QED BY <2>2, <2>3, HeldIs
<1>2. ASSUME PushElsewhere
      PROVE  Topic' = Topic /\ Pushed' = Pushed \cup {made + 1}
  <2>1. repo' = [repo EXCEPT !.remoteTopic = @ \cup {made + 1}]
    BY <1>2 DEF PushElsewhere, Make
  <2>2. repo'.remoteTopic = repo.remoteTopic \cup {made + 1}
        /\ repo'.topic = repo.topic
    BY <1>b, <2>1
  <2>3. /\ repo.remoteTopic \in SUBSET Work
        /\ repo.remoteTopic \cup {made + 1} \in SUBSET Work
    BY <1>2, <1>a, MoreWork DEF PushElsewhere, Make
  <2> QED BY <2>2, <2>3, HeldIs
<1>3. ASSUME CommitWork
      PROVE  /\ Topic' = IF repo.attached THEN Topic \cup repo.edits ELSE Topic
             /\ Pushed' = Pushed
  <2>1. CASE repo.attached
    <3>1. /\ repo'.topic = repo.topic \cup repo.edits
          /\ repo'.remoteTopic = repo.remoteTopic
      BY <1>3, <1>b, <2>1 DEF CommitWork
    <3>2. /\ repo.topic \in SUBSET Work
          /\ repo.topic \cup repo.edits \in SUBSET Work
      BY <1>3, <1>a, <2>1 DEF CommitWork
    <3> QED BY <2>1, <3>1, <3>2, HeldIs
  <2>2. CASE ~repo.attached
    <3>1. /\ repo'.topic = repo.topic
          /\ repo'.remoteTopic = repo.remoteTopic
      BY <1>3, <1>b, <2>2 DEF CommitWork
    <3> QED BY <2>2, <3>1
  <2> QED BY <2>1, <2>2
<1>4. ASSUME PushWork
      PROVE  Topic' = Topic /\ Pushed' = Topic /\ Pushed \subseteq Topic
  <2>1. /\ repo'.topic = repo.topic /\ repo'.remoteTopic = repo.topic
        /\ repo.topic \in SUBSET Work
        /\ Held(repo.remoteTopic) \subseteq repo.topic
    BY <1>4, <1>a, <1>b DEF PushWork
  <2> QED BY <2>1, HeldIs
<1>5. ASSUME NEW u \in User, AddTree(u)
      PROVE  Topic' = Topic /\ Pushed' = Pushed
  <2>1. Held(repo.topic) \in SUBSET Work
    BY <1>a, HeldIs
  <2>2. /\ repo'.topic = Held(repo.topic)
        /\ repo'.remoteTopic = repo.remoteTopic
    BY <1>5, <1>b DEF AddTree, Runs
  <2> QED BY <2>1, <2>2, HeldIs
<1>6. ASSUME NEW u \in User, StillThere(u)
      PROVE  Topic' = task[u].head /\ Pushed' = Pushed
  BY <1>6, <1>a, HeldIs DEF StillThere, Verified, Reads
<1>7. ASSUME NEW u \in User, DeleteBranch(u)
      PROVE  (Topic' = Topic \/ Topic' = {}) /\ Pushed' = Pushed
  BY <1>7, <1>b, HeldIs DEF DeleteBranch, Runs
<1>8. ASSUME NEW u \in User, DeleteRemote(u)
      PROVE  Topic' = Topic /\ Pushed' = {} /\ Pushed = task[u].head
  BY <1>8, <1>a, <1>b, HeldIs DEF DeleteRemote, Leased, Runs
<1> QED BY <1>1, <1>2, <1>3, <1>4, <1>5, <1>6, <1>7, <1>8

\* What the steps of the commands leave in the fields that they do not read.
LEMMA OwnersStep ==
  WorktreeTypes /\ [WorktreeNext]_worktreeVars
  => owner' \in User \cup {NoUser} /\ stale' \subseteq User
BY DEF WorktreeTypes, WorktreeNext, worktreeVars, Others, GoQuiet, Command,
   Create, ClaimTree, Conflict, AddTree, AddFails, UndoClaim, Retire, Ask,
   Claimed, Clean, NotClean, Merged, NotMerged, Remove, RemoveFails, StillThere,
   MovedOn, DeleteBranch, DeleteRemote, KeepRemote, DropClaims, Land, NotLanded,
   Dies, Start, Reads, Runs, Owns

LEMMA TypesStep ==
  WorktreeTypes /\ [WorktreeNext]_worktreeVars
  => TaskTypes'
<1> SUFFICES ASSUME WorktreeTypes, [WorktreeNext]_worktreeVars
             PROVE  TaskTypes'
  OBVIOUS
<1> USE DEF TaskTypes, Task, Repo, Branch, Topic, Pushed, Goes, Reads, Runs,
            NoTask
<1>y. TaskTypes
  BY DEF WorktreeTypes
<1> USE <1>y
<1>h. Topic \in SUBSET Work /\ Pushed \in SUBSET Work
  BY HeldIs
<1>t. TreeHead \in SUBSET Work
  BY <1>h DEF TreeHead
<1>n. NoTask \in Task
  OBVIOUS
<1>1. CASE Others
  <2>1. CASE Edit
    BY <1>1, <2>1, MoreWork DEF Others, Edit, Make, Past
  <2>2. CASE WriteIgnored
    BY <1>1, <2>2, MoreWork DEF Others, WriteIgnored, Make, Past
  <2>3. CASE CommitElsewhere
    <3>1. Topic' = Topic \cup {made + 1} /\ Pushed' = Pushed
      BY <2>3, BranchesMove
    <3> QED BY <1>1, <2>3, <3>1, MoreWork
           DEF Others, CommitElsewhere, Make, Past
  <2>4. CASE PushElsewhere
    <3>1. Topic' = Topic /\ Pushed' = Pushed \cup {made + 1}
      BY <2>4, BranchesMove
    <3> QED BY <1>1, <2>4, <3>1, MoreWork
           DEF Others, PushElsewhere, Make, Past
  <2>5. CASE CommitWork
    <3>1. /\ Topic' = IF repo.attached THEN Topic \cup repo.edits ELSE Topic
          /\ Pushed' = Pushed
      BY <2>5, BranchesMove
    <3> QED BY <1>1, <2>5, <3>1, MoreWork
           DEF Others, CommitWork, Past
  <2>6. CASE DetachHead
    <3>1. [repo EXCEPT !.attached = FALSE, !.detached = Topic] \in Repo
      BY <1>h
    <3> HIDE DEF Repo, Task
    <3> QED BY <1>1, <2>6, <3>1 DEF Others, DetachHead
  <2>7. CASE PushWork
    <3>1. Topic' = Topic /\ Pushed' = Topic /\ Pushed \subseteq Topic
      BY <2>7, BranchesMove
    <3> QED BY <1>1, <2>7, <3>1, MoreWork
           DEF Others, PushWork
  <2>8. CASE MergeWork
    <3>1. [repo EXCEPT !.remoteMain = @ \cup Pushed] \in Repo
      BY <1>h
    <3> HIDE DEF Repo, Task
    <3> QED BY <1>1, <2>8, <3>1 DEF Others, MergeWork
  <2> QED BY <1>1, <2>1, <2>2, <2>3, <2>4, <2>5, <2>6, <2>7, <2>8 DEF Others
<1>2. ASSUME NEW u \in User, GoQuiet(u) PROVE TaskTypes'
  BY <1>2 DEF GoQuiet
<1>3. ASSUME NEW u \in User, Walks(u) PROVE TaskTypes'
  <2>1. \A step \in {"add", "undo", "status", "remote", "claims", "land"} :
          [task[u] EXCEPT !.at = step] \in Task
    OBVIOUS
  <2> HIDE DEF Repo, Task
  <2> QED BY <1>3, <1>n, <2>1 DEF Walks
<1>4. ASSUME NEW u \in User, Create(u) PROVE TaskTypes'
  <2>1. [at |-> "claim", head |-> TreeHead, attached |-> repo.attached,
         had |-> owner = u] \in Task
    BY <1>t
  <2> HIDE DEF Repo, Task
  <2> QED BY <1>4, <2>1 DEF Create, Start
<1>5. ASSUME NEW u \in User, Retire(u) PROVE TaskTypes'
  <2>1. [at |-> "ask", head |-> TreeHead, attached |-> repo.attached,
         had |-> owner = u] \in Task
    BY <1>t
  <2> HIDE DEF Repo, Task
  <2> QED BY <1>5, <2>1 DEF Retire, Start
<1>6. ASSUME NEW u \in User, Clean(u) PROVE TaskTypes'
  BY <1>6 DEF Clean
<1>7. ASSUME NEW u \in User, Merged(u) PROVE TaskTypes'
  BY <1>7 DEF Merged
<1>8. ASSUME NEW u \in User, StillThere(u) PROVE TaskTypes'
  <2>1. Topic' = task[u].head /\ Pushed' = Pushed
    BY <1>8, BranchesMove
  <2> QED BY <1>8, <2>1 DEF StillThere
<1>9. ASSUME NEW u \in User, AddTree(u) PROVE TaskTypes'
  <2>1. [repo EXCEPT !.there = TRUE, !.attached = TRUE, !.topic = Topic]
          \in Repo
    BY <1>h
  <2> HIDE DEF Repo, Task
  <2> QED BY <1>9, <1>n, <2>1 DEF AddTree
<1>10. ASSUME NEW u \in User, Remove(u) PROVE TaskTypes'
  <2>1. [repo EXCEPT !.there = FALSE, !.ignored = {}, !.attached = FALSE,
                      !.detached = {}] \in Repo
    OBVIOUS
  <2>2. [task[u] EXCEPT !.at = "branch"] \in Task
    OBVIOUS
  <2> HIDE DEF Repo, Task
  <2> QED BY <1>10, <2>1, <2>2 DEF Remove
<1>11. ASSUME NEW u \in User, DeleteBranch(u) PROVE TaskTypes'
  <2>1. (Topic' = Topic \/ Topic' = {}) /\ Pushed' = Pushed
    BY <1>11, BranchesMove
  <2> QED BY <1>11, <2>1 DEF DeleteBranch
<1>12. ASSUME NEW u \in User, DeleteRemote(u) PROVE TaskTypes'
  <2>1. Topic' = Topic /\ Pushed' = {} /\ Pushed = task[u].head
    BY <1>12, BranchesMove
  <2> QED BY <1>12, <2>1 DEF DeleteRemote, Leased
<1>13. ASSUME NEW u \in User, Land(u) PROVE TaskTypes'
  BY <1>13 DEF Land
<1>14. CASE UNCHANGED worktreeVars
  BY <1>14 DEF worktreeVars
<1> QED
  BY WalksAre, <1>1, <1>2, <1>3, <1>4, <1>5, <1>6, <1>7, <1>8, <1>9, <1>10,
     <1>11, <1>12, <1>13, <1>14
  DEF WorktreeNext, Command

LEMMA TreeStep ==
  WorktreeTypes /\ TreeInv /\ [WorktreeNext]_worktreeVars
  => TreeInv'
<1> SUFFICES ASSUME WorktreeTypes, TreeInv, [WorktreeNext]_worktreeVars
             PROVE  TreeInv'
  OBVIOUS
<1> USE DEF WorktreeTypes, Repo, Branch, Topic, Pushed, TreeInv, Goes, Reads,
            Runs, NoTask
<1>1. CASE Others
  <2>1. CASE Edit
    BY <1>1, <2>1, MoreWork DEF Others, Edit, Make, Past
  <2>2. CASE WriteIgnored
    BY <1>1, <2>2, MoreWork DEF Others, WriteIgnored, Make, Past
  <2>3. CASE CommitElsewhere
    <3>1. Topic' = Topic \cup {made + 1} /\ Pushed' = Pushed
      BY <2>3, BranchesMove
    <3> QED BY <1>1, <2>3, <3>1, MoreWork
           DEF Others, CommitElsewhere, Make, Past
  <2>4. CASE PushElsewhere
    <3>1. Topic' = Topic /\ Pushed' = Pushed \cup {made + 1}
      BY <2>4, BranchesMove
    <3> QED BY <1>1, <2>4, <3>1, MoreWork
           DEF Others, PushElsewhere, Make, Past
  <2>5. CASE CommitWork
    <3>1. /\ Topic' = IF repo.attached THEN Topic \cup repo.edits ELSE Topic
          /\ Pushed' = Pushed
      BY <2>5, BranchesMove
    <3> QED BY <1>1, <2>5, <3>1, MoreWork
           DEF Others, CommitWork, Past
  <2>6. CASE DetachHead
    BY <1>1, <2>6, MoreWork DEF Others, DetachHead
  <2>7. CASE PushWork
    <3>1. Topic' = Topic /\ Pushed' = Topic /\ Pushed \subseteq Topic
      BY <2>7, BranchesMove
    <3> QED BY <1>1, <2>7, <3>1, MoreWork
           DEF Others, PushWork
  <2>8. CASE MergeWork
    BY <1>1, <2>8, MoreWork DEF Others, MergeWork
  <2> QED BY <1>1, <2>1, <2>2, <2>3, <2>4, <2>5, <2>6, <2>7, <2>8 DEF Others
<1>2. ASSUME NEW u \in User, GoQuiet(u) PROVE TreeInv'
  BY <1>2 DEF GoQuiet
<1>3. ASSUME NEW u \in User, Walks(u) PROVE TreeInv'
  BY <1>3 DEF Walks
<1>4. ASSUME NEW u \in User, Create(u) PROVE TreeInv'
  BY <1>4 DEF Create, Start, TreeHead
<1>5. ASSUME NEW u \in User, Retire(u) PROVE TreeInv'
  BY <1>5 DEF Retire, Start, TreeHead
<1>6. ASSUME NEW u \in User, Clean(u) PROVE TreeInv'
  BY <1>6 DEF Clean
<1>7. ASSUME NEW u \in User, Merged(u) PROVE TreeInv'
  BY <1>7 DEF Merged
<1>8. ASSUME NEW u \in User, StillThere(u) PROVE TreeInv'
  <2>1. Topic' = task[u].head /\ Pushed' = Pushed
    BY <1>8, BranchesMove
  <2> QED BY <1>8, <2>1 DEF StillThere
<1>9. ASSUME NEW u \in User, AddTree(u) PROVE TreeInv'
  <2>1. Topic' = Topic /\ Pushed' = Pushed
    BY <1>9, BranchesMove
  <2> QED BY <1>9, <2>1 DEF AddTree
<1>10. ASSUME NEW u \in User, Remove(u) PROVE TreeInv'
  BY <1>10 DEF Remove
<1>11. ASSUME NEW u \in User, DeleteBranch(u) PROVE TreeInv'
  <2>1. (Topic' = Topic \/ Topic' = {}) /\ Pushed' = Pushed
    BY <1>11, BranchesMove
  <2> QED BY <1>11, <2>1 DEF DeleteBranch
<1>12. ASSUME NEW u \in User, DeleteRemote(u) PROVE TreeInv'
  <2>1. Topic' = Topic /\ Pushed' = {} /\ Pushed = task[u].head
    BY <1>12, BranchesMove
  <2> QED BY <1>12, <2>1 DEF DeleteRemote, Leased
<1>13. ASSUME NEW u \in User, Land(u) PROVE TreeInv'
  BY <1>13 DEF Land
<1>14. CASE UNCHANGED worktreeVars
  BY <1>14 DEF worktreeVars
<1> QED
  BY WalksAre, <1>1, <1>2, <1>3, <1>4, <1>5, <1>6, <1>7, <1>8, <1>9, <1>10,
     <1>11, <1>12, <1>13, <1>14
  DEF WorktreeNext, Command

LEMMA HeadMergedStep ==
  WorktreeTypes /\ HeadMerged /\ [WorktreeNext]_worktreeVars
  => HeadMerged'
<1> SUFFICES ASSUME WorktreeTypes, HeadMerged, [WorktreeNext]_worktreeVars
             PROVE  HeadMerged'
  OBVIOUS
<1> USE DEF WorktreeTypes, Repo, Branch, Topic, Pushed, HeadMerged, Goes,
            Reads, Runs, NoTask
<1>1. CASE Others
  <2>1. CASE Edit
    BY <1>1, <2>1, MoreWork DEF Others, Edit, Make, Past
  <2>2. CASE WriteIgnored
    BY <1>1, <2>2, MoreWork DEF Others, WriteIgnored, Make, Past
  <2>3. CASE CommitElsewhere
    <3>1. Topic' = Topic \cup {made + 1} /\ Pushed' = Pushed
      BY <2>3, BranchesMove
    <3> QED BY <1>1, <2>3, <3>1, MoreWork
           DEF Others, CommitElsewhere, Make, Past
  <2>4. CASE PushElsewhere
    <3>1. Topic' = Topic /\ Pushed' = Pushed \cup {made + 1}
      BY <2>4, BranchesMove
    <3> QED BY <1>1, <2>4, <3>1, MoreWork
           DEF Others, PushElsewhere, Make, Past
  <2>5. CASE CommitWork
    <3>1. /\ Topic' = IF repo.attached THEN Topic \cup repo.edits ELSE Topic
          /\ Pushed' = Pushed
      BY <2>5, BranchesMove
    <3> QED BY <1>1, <2>5, <3>1, MoreWork
           DEF Others, CommitWork, Past
  <2>6. CASE DetachHead
    BY <1>1, <2>6, MoreWork DEF Others, DetachHead
  <2>7. CASE PushWork
    <3>1. Topic' = Topic /\ Pushed' = Topic /\ Pushed \subseteq Topic
      BY <2>7, BranchesMove
    <3> QED BY <1>1, <2>7, <3>1, MoreWork
           DEF Others, PushWork
  <2>8. CASE MergeWork
    BY <1>1, <2>8, MoreWork DEF Others, MergeWork
  <2> QED BY <1>1, <2>1, <2>2, <2>3, <2>4, <2>5, <2>6, <2>7, <2>8 DEF Others
<1>2. ASSUME NEW u \in User, GoQuiet(u) PROVE HeadMerged'
  BY <1>2 DEF GoQuiet
<1>3. ASSUME NEW u \in User, Walks(u) PROVE HeadMerged'
  BY <1>3 DEF Walks
<1>4. ASSUME NEW u \in User, Create(u) PROVE HeadMerged'
  BY <1>4 DEF Create, Start, TreeHead
<1>5. ASSUME NEW u \in User, Retire(u) PROVE HeadMerged'
  BY <1>5 DEF Retire, Start, TreeHead
<1>6. ASSUME NEW u \in User, Clean(u) PROVE HeadMerged'
  BY <1>6 DEF Clean
<1>7. ASSUME NEW u \in User, Merged(u) PROVE HeadMerged'
  BY <1>7 DEF Merged
<1>8. ASSUME NEW u \in User, StillThere(u) PROVE HeadMerged'
  <2>1. Topic' = task[u].head /\ Pushed' = Pushed
    BY <1>8, BranchesMove
  <2> QED BY <1>8, <2>1 DEF StillThere
<1>9. ASSUME NEW u \in User, AddTree(u) PROVE HeadMerged'
  <2>1. Topic' = Topic /\ Pushed' = Pushed
    BY <1>9, BranchesMove
  <2> QED BY <1>9, <2>1 DEF AddTree
<1>10. ASSUME NEW u \in User, Remove(u) PROVE HeadMerged'
  BY <1>10 DEF Remove
<1>11. ASSUME NEW u \in User, DeleteBranch(u) PROVE HeadMerged'
  <2>1. (Topic' = Topic \/ Topic' = {}) /\ Pushed' = Pushed
    BY <1>11, BranchesMove
  <2> QED BY <1>11, <2>1 DEF DeleteBranch
<1>12. ASSUME NEW u \in User, DeleteRemote(u) PROVE HeadMerged'
  <2>1. Topic' = Topic /\ Pushed' = {} /\ Pushed = task[u].head
    BY <1>12, BranchesMove
  <2> QED BY <1>12, <2>1 DEF DeleteRemote, Leased
<1>13. ASSUME NEW u \in User, Land(u) PROVE HeadMerged'
  BY <1>13 DEF Land
<1>14. CASE UNCHANGED worktreeVars
  BY <1>14 DEF worktreeVars
<1> QED
  BY WalksAre, <1>1, <1>2, <1>3, <1>4, <1>5, <1>6, <1>7, <1>8, <1>9, <1>10,
     <1>11, <1>12, <1>13, <1>14
  DEF WorktreeNext, Command

LEMMA TopicCheckedStep ==
  WorktreeTypes /\ TopicChecked /\ [WorktreeNext]_worktreeVars
  => TopicChecked'
<1> SUFFICES ASSUME WorktreeTypes, TopicChecked, [WorktreeNext]_worktreeVars
             PROVE  TopicChecked'
  OBVIOUS
<1> USE DEF WorktreeTypes, Repo, Branch, Topic, Pushed, TopicChecked, Goes,
            Reads, Runs, NoTask
<1>1. CASE Others
  <2>1. CASE Edit
    BY <1>1, <2>1, MoreWork DEF Others, Edit, Make, Past
  <2>2. CASE WriteIgnored
    BY <1>1, <2>2, MoreWork DEF Others, WriteIgnored, Make, Past
  <2>3. CASE CommitElsewhere
    <3>1. Topic' = Topic \cup {made + 1} /\ Pushed' = Pushed
      BY <2>3, BranchesMove
    <3> QED BY <1>1, <2>3, <3>1, MoreWork
           DEF Others, CommitElsewhere, Make, Past
  <2>4. CASE PushElsewhere
    <3>1. Topic' = Topic /\ Pushed' = Pushed \cup {made + 1}
      BY <2>4, BranchesMove
    <3> QED BY <1>1, <2>4, <3>1, MoreWork
           DEF Others, PushElsewhere, Make, Past
  <2>5. CASE CommitWork
    <3>1. /\ Topic' = IF repo.attached THEN Topic \cup repo.edits ELSE Topic
          /\ Pushed' = Pushed
      BY <2>5, BranchesMove
    <3> QED BY <1>1, <2>5, <3>1, MoreWork
           DEF Others, CommitWork, Past
  <2>6. CASE DetachHead
    BY <1>1, <2>6, MoreWork DEF Others, DetachHead
  <2>7. CASE PushWork
    <3>1. Topic' = Topic /\ Pushed' = Topic /\ Pushed \subseteq Topic
      BY <2>7, BranchesMove
    <3> QED BY <1>1, <2>7, <3>1, MoreWork
           DEF Others, PushWork
  <2>8. CASE MergeWork
    BY <1>1, <2>8, MoreWork DEF Others, MergeWork
  <2> QED BY <1>1, <2>1, <2>2, <2>3, <2>4, <2>5, <2>6, <2>7, <2>8 DEF Others
<1>2. ASSUME NEW u \in User, GoQuiet(u) PROVE TopicChecked'
  BY <1>2 DEF GoQuiet
<1>3. ASSUME NEW u \in User, Walks(u) PROVE TopicChecked'
  BY <1>3 DEF Walks
<1>4. ASSUME NEW u \in User, Create(u) PROVE TopicChecked'
  BY <1>4 DEF Create, Start, TreeHead
<1>5. ASSUME NEW u \in User, Retire(u) PROVE TopicChecked'
  BY <1>5 DEF Retire, Start, TreeHead
<1>6. ASSUME NEW u \in User, Clean(u) PROVE TopicChecked'
  BY <1>6 DEF Clean
<1>7. ASSUME NEW u \in User, Merged(u) PROVE TopicChecked'
  BY <1>7 DEF Merged
<1>8. ASSUME NEW u \in User, StillThere(u) PROVE TopicChecked'
  <2>1. Topic' = task[u].head /\ Pushed' = Pushed
    BY <1>8, BranchesMove
  <2> QED BY <1>8, <2>1 DEF StillThere
<1>9. ASSUME NEW u \in User, AddTree(u) PROVE TopicChecked'
  <2>1. Topic' = Topic /\ Pushed' = Pushed
    BY <1>9, BranchesMove
  <2> QED BY <1>9, <2>1 DEF AddTree
<1>10. ASSUME NEW u \in User, Remove(u) PROVE TopicChecked'
  BY <1>10 DEF Remove
<1>11. ASSUME NEW u \in User, DeleteBranch(u) PROVE TopicChecked'
  <2>1. (Topic' = Topic \/ Topic' = {}) /\ Pushed' = Pushed
    BY <1>11, BranchesMove
  <2> QED BY <1>11, <2>1 DEF DeleteBranch
<1>12. ASSUME NEW u \in User, DeleteRemote(u) PROVE TopicChecked'
  <2>1. Topic' = Topic /\ Pushed' = {} /\ Pushed = task[u].head
    BY <1>12, BranchesMove
  <2> QED BY <1>12, <2>1 DEF DeleteRemote, Leased
<1>13. ASSUME NEW u \in User, Land(u) PROVE TopicChecked'
  BY <1>13 DEF Land
<1>14. CASE UNCHANGED worktreeVars
  BY <1>14 DEF worktreeVars
<1> QED
  BY WalksAre, <1>1, <1>2, <1>3, <1>4, <1>5, <1>6, <1>7, <1>8, <1>9, <1>10,
     <1>11, <1>12, <1>13, <1>14
  DEF WorktreeNext, Command

\* What a branch holds stays on one, or came to it late.
Keeps ==
  OnBranches \subseteq OnBranches' \cup late' /\ late \subseteq late'

LEMMA BranchesKeep ==
  WorktreeTypes /\ HeadMerged /\ TopicChecked /\ [WorktreeNext]_worktreeVars
  => Keeps
<1> SUFFICES ASSUME WorktreeTypes, HeadMerged, TopicChecked,
                    [WorktreeNext]_worktreeVars
             PROVE  Keeps
  OBVIOUS
<1> USE DEF WorktreeTypes, Repo, Branch, Topic, Pushed, HeadMerged,
            TopicChecked, OnBranches, Keeps, Goes, Reads, Runs, NoTask
<1>1. CASE Others
  <2>1. CASE Edit
    BY <1>1, <2>1, MoreWork DEF Others, Edit, Make, Past
  <2>2. CASE WriteIgnored
    BY <1>1, <2>2, MoreWork DEF Others, WriteIgnored, Make, Past
  <2>3. CASE CommitElsewhere
    <3>1. Topic' = Topic \cup {made + 1} /\ Pushed' = Pushed
      BY <2>3, BranchesMove
    <3> QED BY <1>1, <2>3, <3>1, MoreWork
           DEF Others, CommitElsewhere, Make, Past
  <2>4. CASE PushElsewhere
    <3>1. Topic' = Topic /\ Pushed' = Pushed \cup {made + 1}
      BY <2>4, BranchesMove
    <3> QED BY <1>1, <2>4, <3>1, MoreWork
           DEF Others, PushElsewhere, Make, Past
  <2>5. CASE CommitWork
    <3>1. /\ Topic' = IF repo.attached THEN Topic \cup repo.edits ELSE Topic
          /\ Pushed' = Pushed
      BY <2>5, BranchesMove
    <3> QED BY <1>1, <2>5, <3>1, MoreWork
           DEF Others, CommitWork, Past
  <2>6. CASE DetachHead
    BY <1>1, <2>6, MoreWork DEF Others, DetachHead
  <2>7. CASE PushWork
    <3>1. Topic' = Topic /\ Pushed' = Topic /\ Pushed \subseteq Topic
      BY <2>7, BranchesMove
    <3> QED BY <1>1, <2>7, <3>1, MoreWork
           DEF Others, PushWork
  <2>8. CASE MergeWork
    BY <1>1, <2>8, MoreWork DEF Others, MergeWork
  <2> QED BY <1>1, <2>1, <2>2, <2>3, <2>4, <2>5, <2>6, <2>7, <2>8 DEF Others
<1>2. ASSUME NEW u \in User, GoQuiet(u) PROVE Keeps
  BY <1>2 DEF GoQuiet
<1>3. ASSUME NEW u \in User, Walks(u) PROVE Keeps
  BY <1>3 DEF Walks
<1>4. ASSUME NEW u \in User, Create(u) PROVE Keeps
  BY <1>4 DEF Create, Start, TreeHead
<1>5. ASSUME NEW u \in User, Retire(u) PROVE Keeps
  BY <1>5 DEF Retire, Start, TreeHead
<1>6. ASSUME NEW u \in User, Clean(u) PROVE Keeps
  BY <1>6 DEF Clean
<1>7. ASSUME NEW u \in User, Merged(u) PROVE Keeps
  BY <1>7 DEF Merged
<1>8. ASSUME NEW u \in User, StillThere(u) PROVE Keeps
  <2>1. Topic' = task[u].head /\ Pushed' = Pushed
    BY <1>8, BranchesMove
  <2> QED BY <1>8, <2>1 DEF StillThere
<1>9. ASSUME NEW u \in User, AddTree(u) PROVE Keeps
  <2>1. Topic' = Topic /\ Pushed' = Pushed
    BY <1>9, BranchesMove
  <2> QED BY <1>9, <2>1 DEF AddTree
<1>10. ASSUME NEW u \in User, Remove(u) PROVE Keeps
  BY <1>10 DEF Remove
<1>11. ASSUME NEW u \in User, DeleteBranch(u) PROVE Keeps
  <2>1. (Topic' = Topic \/ Topic' = {}) /\ Pushed' = Pushed
    BY <1>11, BranchesMove
  <2> QED BY <1>11, <2>1 DEF DeleteBranch
<1>12. ASSUME NEW u \in User, DeleteRemote(u) PROVE Keeps
  <2>1. Topic' = Topic /\ Pushed' = {} /\ Pushed = task[u].head
    BY <1>12, BranchesMove
  <2> QED BY <1>12, <2>1 DEF DeleteRemote, Leased
<1>13. ASSUME NEW u \in User, Land(u) PROVE Keeps
  BY <1>13 DEF Land
<1>14. CASE UNCHANGED worktreeVars
  BY <1>14 DEF worktreeVars
<1> QED
  BY WalksAre, <1>1, <1>2, <1>3, <1>4, <1>5, <1>6, <1>7, <1>8, <1>9, <1>10,
     <1>11, <1>12, <1>13, <1>14
  DEF WorktreeNext, Command

LEMMA DetachedReadStep ==
  WorktreeTypes /\ TreeInv /\ HeadMerged /\ TopicChecked /\ DetachedRead /\
  [WorktreeNext]_worktreeVars
  => DetachedRead'
<1> SUFFICES ASSUME WorktreeTypes, TreeInv, HeadMerged, TopicChecked,
                    DetachedRead, [WorktreeNext]_worktreeVars
             PROVE  DetachedRead'
  OBVIOUS
<1> USE DEF WorktreeTypes, Repo, Branch, TreeInv, DetachedRead, Goes, Reads,
            Runs, NoTask
<1>k. OnBranches \subseteq OnBranches' \cup late' /\ late \subseteq late'
  BY BranchesKeep DEF WorkInv, Keeps
<1> USE <1>k
<1>1. CASE Others
  <2>1. CASE Edit
    BY <1>1, <2>1, MoreWork DEF Others, Edit, Make, Past
  <2>2. CASE WriteIgnored
    BY <1>1, <2>2, MoreWork DEF Others, WriteIgnored, Make, Past
  <2>3. CASE CommitElsewhere
    <3>1. Topic' = Topic \cup {made + 1} /\ Pushed' = Pushed
      BY <2>3, BranchesMove
    <3> QED BY <1>1, <2>3, <3>1, MoreWork
           DEF Others, CommitElsewhere, Make, Past
  <2>4. CASE PushElsewhere
    <3>1. Topic' = Topic /\ Pushed' = Pushed \cup {made + 1}
      BY <2>4, BranchesMove
    <3> QED BY <1>1, <2>4, <3>1, MoreWork
           DEF Others, PushElsewhere, Make, Past
  <2>5. CASE CommitWork
    <3>1. /\ Topic' = IF repo.attached THEN Topic \cup repo.edits ELSE Topic
          /\ Pushed' = Pushed
      BY <2>5, BranchesMove
    <3> QED BY <1>1, <2>5, <3>1, MoreWork
           DEF Others, CommitWork, Past
  <2>6. CASE DetachHead
    <3>1. repo'.detached = Topic /\ OnBranches' = OnBranches
      BY <2>6 DEF DetachHead, OnBranches, Topic, Pushed
    <3>2. Topic \subseteq OnBranches
      BY DEF OnBranches
    <3> QED BY <1>1, <2>6, <3>1, <3>2 DEF Others, DetachHead
  <2>7. CASE PushWork
    <3>1. Topic' = Topic /\ Pushed' = Topic /\ Pushed \subseteq Topic
      BY <2>7, BranchesMove
    <3> QED BY <1>1, <2>7, <3>1, MoreWork
           DEF Others, PushWork
  <2>8. CASE MergeWork
    BY <1>1, <2>8, MoreWork DEF Others, MergeWork
  <2> QED BY <1>1, <2>1, <2>2, <2>3, <2>4, <2>5, <2>6, <2>7, <2>8 DEF Others
<1>2. ASSUME NEW u \in User, GoQuiet(u) PROVE DetachedRead'
  BY <1>2 DEF GoQuiet
<1>3. ASSUME NEW u \in User, Walks(u) PROVE DetachedRead'
  BY <1>3 DEF Walks
<1>4. ASSUME NEW u \in User, Create(u) PROVE DetachedRead'
  BY <1>4 DEF Create, Start, TreeHead
<1>5. ASSUME NEW u \in User, Retire(u) PROVE DetachedRead'
  BY <1>5 DEF Retire, Start, TreeHead
<1>6. ASSUME NEW u \in User, Clean(u) PROVE DetachedRead'
  BY <1>6 DEF Clean
<1>7. ASSUME NEW u \in User, Merged(u) PROVE DetachedRead'
  BY <1>7 DEF Merged
<1>8. ASSUME NEW u \in User, StillThere(u) PROVE DetachedRead'
  <2>1. Topic' = task[u].head /\ Pushed' = Pushed
    BY <1>8, BranchesMove
  <2> QED BY <1>8, <2>1 DEF StillThere
<1>9. ASSUME NEW u \in User, AddTree(u) PROVE DetachedRead'
  <2>1. Topic' = Topic /\ Pushed' = Pushed
    BY <1>9, BranchesMove
  <2> QED BY <1>9, <2>1 DEF AddTree
<1>10. ASSUME NEW u \in User, Remove(u) PROVE DetachedRead'
  BY <1>10 DEF Remove
<1>11. ASSUME NEW u \in User, DeleteBranch(u) PROVE DetachedRead'
  <2>1. (Topic' = Topic \/ Topic' = {}) /\ Pushed' = Pushed
    BY <1>11, BranchesMove
  <2> QED BY <1>11, <2>1 DEF DeleteBranch
<1>12. ASSUME NEW u \in User, DeleteRemote(u) PROVE DetachedRead'
  <2>1. Topic' = Topic /\ Pushed' = {} /\ Pushed = task[u].head
    BY <1>12, BranchesMove
  <2> QED BY <1>12, <2>1 DEF DeleteRemote, Leased
<1>13. ASSUME NEW u \in User, Land(u) PROVE DetachedRead'
  BY <1>13 DEF Land
<1>14. CASE UNCHANGED worktreeVars
  BY <1>14 DEF worktreeVars
<1> QED
  BY WalksAre, <1>1, <1>2, <1>3, <1>4, <1>5, <1>6, <1>7, <1>8, <1>9, <1>10,
     <1>11, <1>12, <1>13, <1>14
  DEF WorktreeNext, Command

LEMMA IgnoredLateStep ==
  WorktreeTypes /\ IgnoredLate /\ [WorktreeNext]_worktreeVars
  => IgnoredLate'
<1> SUFFICES ASSUME WorktreeTypes, IgnoredLate, [WorktreeNext]_worktreeVars
             PROVE  IgnoredLate'
  OBVIOUS
<1> USE DEF WorktreeTypes, Repo, Branch, Topic, Pushed, IgnoredLate, Goes,
            Reads, Runs, NoTask
<1>1. CASE Others
  <2>1. CASE Edit
    BY <1>1, <2>1, MoreWork DEF Others, Edit, Make, Past
  <2>2. CASE WriteIgnored
    BY <1>1, <2>2, MoreWork DEF Others, WriteIgnored, Make, Past
  <2>3. CASE CommitElsewhere
    <3>1. Topic' = Topic \cup {made + 1} /\ Pushed' = Pushed
      BY <2>3, BranchesMove
    <3> QED BY <1>1, <2>3, <3>1, MoreWork
           DEF Others, CommitElsewhere, Make, Past
  <2>4. CASE PushElsewhere
    <3>1. Topic' = Topic /\ Pushed' = Pushed \cup {made + 1}
      BY <2>4, BranchesMove
    <3> QED BY <1>1, <2>4, <3>1, MoreWork
           DEF Others, PushElsewhere, Make, Past
  <2>5. CASE CommitWork
    <3>1. /\ Topic' = IF repo.attached THEN Topic \cup repo.edits ELSE Topic
          /\ Pushed' = Pushed
      BY <2>5, BranchesMove
    <3> QED BY <1>1, <2>5, <3>1, MoreWork
           DEF Others, CommitWork, Past
  <2>6. CASE DetachHead
    BY <1>1, <2>6, MoreWork DEF Others, DetachHead
  <2>7. CASE PushWork
    <3>1. Topic' = Topic /\ Pushed' = Topic /\ Pushed \subseteq Topic
      BY <2>7, BranchesMove
    <3> QED BY <1>1, <2>7, <3>1, MoreWork
           DEF Others, PushWork
  <2>8. CASE MergeWork
    BY <1>1, <2>8, MoreWork DEF Others, MergeWork
  <2> QED BY <1>1, <2>1, <2>2, <2>3, <2>4, <2>5, <2>6, <2>7, <2>8 DEF Others
<1>2. ASSUME NEW u \in User, GoQuiet(u) PROVE IgnoredLate'
  BY <1>2 DEF GoQuiet
<1>3. ASSUME NEW u \in User, Walks(u) PROVE IgnoredLate'
  BY <1>3 DEF Walks
<1>4. ASSUME NEW u \in User, Create(u) PROVE IgnoredLate'
  BY <1>4 DEF Create, Start, TreeHead
<1>5. ASSUME NEW u \in User, Retire(u) PROVE IgnoredLate'
  BY <1>5 DEF Retire, Start, TreeHead
<1>6. ASSUME NEW u \in User, Clean(u) PROVE IgnoredLate'
  BY <1>6 DEF Clean
<1>7. ASSUME NEW u \in User, Merged(u) PROVE IgnoredLate'
  BY <1>7 DEF Merged
<1>8. ASSUME NEW u \in User, StillThere(u) PROVE IgnoredLate'
  <2>1. Topic' = task[u].head /\ Pushed' = Pushed
    BY <1>8, BranchesMove
  <2> QED BY <1>8, <2>1 DEF StillThere
<1>9. ASSUME NEW u \in User, AddTree(u) PROVE IgnoredLate'
  <2>1. Topic' = Topic /\ Pushed' = Pushed
    BY <1>9, BranchesMove
  <2> QED BY <1>9, <2>1 DEF AddTree
<1>10. ASSUME NEW u \in User, Remove(u) PROVE IgnoredLate'
  BY <1>10 DEF Remove
<1>11. ASSUME NEW u \in User, DeleteBranch(u) PROVE IgnoredLate'
  <2>1. (Topic' = Topic \/ Topic' = {}) /\ Pushed' = Pushed
    BY <1>11, BranchesMove
  <2> QED BY <1>11, <2>1 DEF DeleteBranch
<1>12. ASSUME NEW u \in User, DeleteRemote(u) PROVE IgnoredLate'
  <2>1. Topic' = Topic /\ Pushed' = {} /\ Pushed = task[u].head
    BY <1>12, BranchesMove
  <2> QED BY <1>12, <2>1 DEF DeleteRemote, Leased
<1>13. ASSUME NEW u \in User, Land(u) PROVE IgnoredLate'
  BY <1>13 DEF Land
<1>14. CASE UNCHANGED worktreeVars
  BY <1>14 DEF worktreeVars
<1> QED
  BY WalksAre, <1>1, <1>2, <1>3, <1>4, <1>5, <1>6, <1>7, <1>8, <1>9, <1>10,
     <1>11, <1>12, <1>13, <1>14
  DEF WorktreeNext, Command

LEMMA WorkKeptStep ==
  WorkInv /\ [WorktreeNext]_worktreeVars
  => WorkKept'
<1> SUFFICES ASSUME WorkInv, [WorktreeNext]_worktreeVars
             PROVE  WorkKept'
  OBVIOUS
<1> USE DEF WorktreeTypes, Repo, Branch, Topic, Pushed, WorkInv, TreeInv,
            HeadMerged, TopicChecked, DetachedRead, IgnoredLate, WorkKept,
            OnBranches, Goes, Reads, Runs, NoTask
<1>k. OnBranches \subseteq OnBranches' \cup late' /\ late \subseteq late'
  BY BranchesKeep DEF WorkInv, Keeps
<1> USE <1>k
<1>1. CASE Others
  <2>1. CASE Edit
    BY <1>1, <2>1, MoreWork DEF Others, Edit, Make, Past
  <2>2. CASE WriteIgnored
    BY <1>1, <2>2, MoreWork DEF Others, WriteIgnored, Make, Past
  <2>3. CASE CommitElsewhere
    <3>1. Topic' = Topic \cup {made + 1} /\ Pushed' = Pushed
      BY <2>3, BranchesMove
    <3>2. /\ repo'.edits = repo.edits /\ repo'.ignored = repo.ignored
          /\ repo'.detached = repo.detached
      BY <2>3 DEF CommitElsewhere
    <3>3. made' = made + 1 /\ made < MaxWork
      BY <2>3 DEF CommitElsewhere, Make
    <3> QED BY <3>1, <3>2, <3>3, MoreWork
  <2>4. CASE PushElsewhere
    <3>1. Topic' = Topic /\ Pushed' = Pushed \cup {made + 1}
      BY <2>4, BranchesMove
    <3> QED BY ZenonT(30), <1>1, <2>4, <3>1, MoreWork
           DEF Others, PushElsewhere, Make, Past
  <2>5. CASE CommitWork
    <3>1. /\ Topic' = IF repo.attached THEN Topic \cup repo.edits ELSE Topic
          /\ Pushed' = Pushed
      BY <2>5, BranchesMove
    <3> QED BY <1>1, <2>5, <3>1, MoreWork
           DEF Others, CommitWork, Past
  <2>6. CASE DetachHead
    BY <1>1, <2>6, MoreWork DEF Others, DetachHead
  <2>7. CASE PushWork
    <3>1. Topic' = Topic /\ Pushed' = Topic /\ Pushed \subseteq Topic
      BY <2>7, BranchesMove
    <3> QED BY <1>1, <2>7, <3>1, MoreWork
           DEF Others, PushWork
  <2>8. CASE MergeWork
    BY <1>1, <2>8, MoreWork DEF Others, MergeWork
  <2> QED BY <1>1, <2>1, <2>2, <2>3, <2>4, <2>5, <2>6, <2>7, <2>8 DEF Others
<1>2. ASSUME NEW u \in User, GoQuiet(u) PROVE WorkKept'
  BY <1>2 DEF GoQuiet
<1>3. ASSUME NEW u \in User, Walks(u) PROVE WorkKept'
  BY <1>3 DEF Walks
<1>4. ASSUME NEW u \in User, Create(u) PROVE WorkKept'
  BY <1>4 DEF Create, Start, TreeHead
<1>5. ASSUME NEW u \in User, Retire(u) PROVE WorkKept'
  BY <1>5 DEF Retire, Start, TreeHead
<1>6. ASSUME NEW u \in User, Clean(u) PROVE WorkKept'
  BY <1>6 DEF Clean
<1>7. ASSUME NEW u \in User, Merged(u) PROVE WorkKept'
  BY <1>7 DEF Merged
<1>8. ASSUME NEW u \in User, StillThere(u) PROVE WorkKept'
  <2>1. Topic' = task[u].head /\ Pushed' = Pushed
    BY <1>8, BranchesMove
  <2> QED BY <1>8, <2>1 DEF StillThere
<1>9. ASSUME NEW u \in User, AddTree(u) PROVE WorkKept'
  <2>1. Topic' = Topic /\ Pushed' = Pushed
    BY <1>9, BranchesMove
  <2> QED BY <1>9, <2>1 DEF AddTree
<1>10. ASSUME NEW u \in User, Remove(u) PROVE WorkKept'
  BY <1>10 DEF Remove
<1>11. ASSUME NEW u \in User, DeleteBranch(u) PROVE WorkKept'
  <2>1. (Topic' = Topic \/ Topic' = {}) /\ Pushed' = Pushed
    BY <1>11, BranchesMove
  <2> QED BY <1>11, <2>1 DEF DeleteBranch
<1>12. ASSUME NEW u \in User, DeleteRemote(u) PROVE WorkKept'
  <2>1. Topic' = Topic /\ Pushed' = {} /\ Pushed = task[u].head
    BY <1>12, BranchesMove
  <2> QED BY <1>12, <2>1 DEF DeleteRemote, Leased
<1>13. ASSUME NEW u \in User, Land(u) PROVE WorkKept'
  BY <1>13 DEF Land
<1>14. CASE UNCHANGED worktreeVars
  BY <1>14 DEF worktreeVars
<1> QED
  BY WalksAre, <1>1, <1>2, <1>3, <1>4, <1>5, <1>6, <1>7, <1>8, <1>9, <1>10,
     <1>11, <1>12, <1>13, <1>14
  DEF WorktreeNext, Command

LEMMA WorkStep == WorkInv /\ [WorktreeNext]_worktreeVars => WorkInv'
<1> SUFFICES ASSUME WorkInv, [WorktreeNext]_worktreeVars PROVE WorkInv'
  OBVIOUS
<1>1. WorktreeTypes'
  BY TypesStep, OwnersStep DEF WorkInv, WorktreeTypes, TaskTypes, Task
<1>2. TreeInv' /\ HeadMerged' /\ TopicChecked' /\ DetachedRead' /\ IgnoredLate'
  BY TreeStep, HeadMergedStep, TopicCheckedStep, DetachedReadStep,
     IgnoredLateStep DEF WorkInv
<1> QED BY <1>1, <1>2, WorkKeptStep DEF WorkInv

LEMMA WorkInit == WorktreeInit => WorkInv
BY WorktreeAssumption DEF WorktreeInit, WorkInv, WorktreeTypes, Repo, Branch,
   Work, NoTask, TreeInv, HeadMerged, TopicChecked, DetachedRead, IgnoredLate,
   WorkKept

\* The repository, the claim and what the commands have read keep their types.
THEOREM WorktreeTyped == WorktreeSpec => []WorktreeTypes
<1>1. WorkInv => WorktreeTypes
  BY DEF WorkInv
<1> QED BY <1>1, WorkInit, WorkStep, PTL DEF WorktreeSpec

\* However many sessions create, retire and land, and whoever is killed: no work
\* is lost but what came after the last look at its place.
THEOREM WorktreeWorkKept == WorktreeSpec => []WorkKept
<1>1. WorkInv => WorkKept
  BY DEF WorkInv
<1> QED BY <1>1, WorkInit, WorkStep, PTL DEF WorktreeSpec
-----------------------------------------------------------------------------
(* Autopilot plans                                                         *)

\* A command that has read the plan and will write it has read every entry
\* that was made before it read; the later ones are behind it.
ReadsAll ==
  \A s \in Owner : command[s].at \in {"release", "claim", "write"} =>
    1..entries \ behindIt \subseteq command[s].read.has

\* The session has the claim, or lost it while it was silent or by a takeover.
Covered(o) == o \in {holds} \cup robbed

\* What a command is about to write about a running plan is right: it has the
\* claim that it names, or writes back the owner and the status it has read,
\* which are still right or no longer running.
WritesRight ==
  \A s \in Owner : command[s].at = "write" =>
    /\ command[s].kind \in {"engage", "takeover"} => Covered(s)
    /\ command[s].kind = "cycle" /\ command[s].read.status = "running"
         => Covered(command[s].read.owner)

\* A plan that a session's close has closed is no longer running under it.
ClosedFirst ==
  \A s \in Owner : command[s].kind = "close" /\ command[s].at = "drop" =>
    text.owner # s \/ text.status # "running"

\* The kinds of commands and the steps they come to, and whose plan they read;
\* a running plan has an owner.
Steps ==
  /\ text.status = "running" => text.owner \in Owner
  /\ \A s \in Owner :
       /\ command[s].at = "release" => command[s].kind = "takeover"
       /\ command[s].kind = "takeover" /\ command[s].at # "idle"
            => command[s].read.owner \in Owner
       /\ command[s].at = "drop" => command[s].kind = "close"
       /\ command[s].kind \in {"cycle", "close"} /\ command[s].at = "write"
            => command[s].read.owner = s

PlanInv ==
  /\ PlanTypes /\ Steps /\ ReadsAll /\ WritesRight /\ ClosedFirst /\ PlanKept

LEMMA PlanTypesStep ==
  PlanTypes /\ Steps /\ [PlanNext]_planVars
  => PlanTypes'
<1> SUFFICES ASSUME PlanTypes, Steps, [PlanNext]_planVars
             PROVE  PlanTypes'
  OBVIOUS
<1> USE DEF PlanTypes, Text, Blank, Entry, Steps, OnStep, Then, Files, Busy,
            NoCommand
<1>1. ASSUME NEW s \in Owner, EditPlan(s) PROVE PlanTypes'
  <2>1. entries' \in 0..MaxEntries /\ entries' \in Entry
    BY <1>1, PlanAssumption DEF EditPlan, WriteText
  <2>2. text \in Text
    OBVIOUS
  <2>3. text' \in Text
    BY <1>1, <2>1, <2>2 DEF EditPlan, WriteText
  <2>4. behindIt' \subseteq Entry
    BY <1>1, <2>1 DEF EditPlan, WriteText
  <2> QED BY <1>1, <2>1, <2>3, <2>4 DEF EditPlan
<1>2. ASSUME NEW s \in Owner, GoSilent(s) PROVE PlanTypes'
  BY <1>2 DEF GoSilent
<1>3. ASSUME NEW s \in Owner, Engage(s) PROVE PlanTypes'
  BY <1>3 DEF Engage, Load
<1>4. ASSUME NEW s \in Owner, Takeover(s) PROVE PlanTypes'
  BY <1>4 DEF Takeover, Load
<1>5. ASSUME NEW s \in Owner, Cycle(s) PROVE PlanTypes'
  BY <1>5 DEF Cycle, Load
<1>6. ASSUME NEW s \in Owner, Close(s) PROVE PlanTypes'
  BY <1>6 DEF Close, Load
<1>7. ASSUME NEW s \in Owner, ReleaseOwner(s) PROVE PlanTypes'
  BY <1>7 DEF ReleaseOwner
<1>8. ASSUME NEW s \in Owner, ClaimPlan(s) PROVE PlanTypes'
  BY <1>8 DEF ClaimPlan, Claimable
<1>9. ASSUME NEW s \in Owner, ClaimConflict(s) PROVE PlanTypes'
  BY <1>9 DEF ClaimConflict, Claimable
<1>10. ASSUME NEW s \in Owner, Write(s) PROVE PlanTypes'
  <2>1. entries' \in 0..MaxEntries /\ entries' \in Entry
    BY <1>10, PlanAssumption DEF Write, WriteText
  <2>2. NewText(s) \in Text
    BY ZenonT(30), <1>10 DEF Write, NewText
  <2>3. text' \in Text
    BY <1>10, <2>1, <2>2 DEF Write, WriteText
  <2>4. behindIt' \subseteq Entry
    BY <1>10, <2>1 DEF Write, WriteText
  <2> QED BY <1>10, <2>1, <2>3, <2>4 DEF Write
<1>11. ASSUME NEW s \in Owner, Point(s) PROVE PlanTypes'
  BY <1>11 DEF Point
<1>12. ASSUME NEW s \in Owner, DropClaim(s) PROVE PlanTypes'
  BY <1>12 DEF DropClaim
<1>13. ASSUME NEW s \in Owner, Unpoint(s) PROVE PlanTypes'
  BY <1>13 DEF Unpoint
<1>14. ASSUME NEW s \in Owner, CommandDies(s) PROVE PlanTypes'
  BY <1>14 DEF CommandDies
<1>15. CASE UNCHANGED planVars
  BY <1>15 DEF planVars
<1> QED
  BY <1>1, <1>2, <1>3, <1>4, <1>5, <1>6, <1>7, <1>8, <1>9, <1>10, <1>11,
     <1>12, <1>13, <1>14, <1>15
  DEF PlanNext

LEMMA StepsStep ==
  PlanTypes /\ Steps /\ [PlanNext]_planVars
  => Steps'
<1> SUFFICES ASSUME PlanTypes, Steps, [PlanNext]_planVars
             PROVE  Steps'
  OBVIOUS
<1> USE DEF PlanTypes, Steps, OnStep, Then, Files, Busy, NoCommand
<1>1. ASSUME NEW s \in Owner, EditPlan(s) PROVE Steps'
  BY <1>1 DEF EditPlan, WriteText
<1>2. ASSUME NEW s \in Owner, GoSilent(s) PROVE Steps'
  BY <1>2 DEF GoSilent
<1>3. ASSUME NEW s \in Owner, Engage(s) PROVE Steps'
  BY <1>3 DEF Engage, Load
<1>4. ASSUME NEW s \in Owner, Takeover(s) PROVE Steps'
  BY <1>4 DEF Takeover, Load
<1>5. ASSUME NEW s \in Owner, Cycle(s) PROVE Steps'
  BY <1>5 DEF Cycle, Load
<1>6. ASSUME NEW s \in Owner, Close(s) PROVE Steps'
  BY <1>6 DEF Close, Load
<1>7. ASSUME NEW s \in Owner, ReleaseOwner(s) PROVE Steps'
  BY <1>7 DEF ReleaseOwner
<1>8. ASSUME NEW s \in Owner, ClaimPlan(s) PROVE Steps'
  BY <1>8 DEF ClaimPlan, Claimable
<1>9. ASSUME NEW s \in Owner, ClaimConflict(s) PROVE Steps'
  BY <1>9 DEF ClaimConflict, Claimable
<1>10. ASSUME NEW s \in Owner, Write(s) PROVE Steps'
  BY <1>10 DEF Write, WriteText, NewText
<1>11. ASSUME NEW s \in Owner, Point(s) PROVE Steps'
  BY <1>11 DEF Point
<1>12. ASSUME NEW s \in Owner, DropClaim(s) PROVE Steps'
  BY <1>12 DEF DropClaim
<1>13. ASSUME NEW s \in Owner, Unpoint(s) PROVE Steps'
  BY <1>13 DEF Unpoint
<1>14. ASSUME NEW s \in Owner, CommandDies(s) PROVE Steps'
  BY <1>14 DEF CommandDies
<1>15. CASE UNCHANGED planVars
  BY <1>15 DEF planVars
<1> QED
  BY <1>1, <1>2, <1>3, <1>4, <1>5, <1>6, <1>7, <1>8, <1>9, <1>10, <1>11,
     <1>12, <1>13, <1>14, <1>15
  DEF PlanNext

LEMMA ReadsAllStep ==
  PlanTypes /\ Steps /\ ReadsAll /\ EntriesKept /\ [PlanNext]_planVars
  => ReadsAll'
<1> SUFFICES ASSUME PlanTypes, Steps, ReadsAll, EntriesKept,
                    [PlanNext]_planVars
             PROVE  ReadsAll'
  OBVIOUS
<1> USE DEF PlanTypes, ReadsAll, EntriesKept, OnStep, Then, Files, Busy,
            NoCommand
<1>1. ASSUME NEW s \in Owner, EditPlan(s) PROVE ReadsAll'
  BY <1>1 DEF EditPlan, WriteText
<1>2. ASSUME NEW s \in Owner, GoSilent(s) PROVE ReadsAll'
  BY <1>2 DEF GoSilent
<1>3. ASSUME NEW s \in Owner, Engage(s) PROVE ReadsAll'
  BY <1>3 DEF Engage, Load
<1>4. ASSUME NEW s \in Owner, Takeover(s) PROVE ReadsAll'
  BY <1>4 DEF Takeover, Load
<1>5. ASSUME NEW s \in Owner, Cycle(s) PROVE ReadsAll'
  BY <1>5 DEF Cycle, Load
<1>6. ASSUME NEW s \in Owner, Close(s) PROVE ReadsAll'
  BY <1>6 DEF Close, Load
<1>7. ASSUME NEW s \in Owner, ReleaseOwner(s) PROVE ReadsAll'
  BY <1>7 DEF ReleaseOwner
<1>8. ASSUME NEW s \in Owner, ClaimPlan(s) PROVE ReadsAll'
  BY <1>8 DEF ClaimPlan, Claimable
<1>9. ASSUME NEW s \in Owner, ClaimConflict(s) PROVE ReadsAll'
  BY <1>9 DEF ClaimConflict, Claimable
<1>10. ASSUME NEW s \in Owner, Write(s) PROVE ReadsAll'
  BY <1>10 DEF Write, WriteText, NewText
<1>11. ASSUME NEW s \in Owner, Point(s) PROVE ReadsAll'
  BY <1>11 DEF Point
<1>12. ASSUME NEW s \in Owner, DropClaim(s) PROVE ReadsAll'
  BY <1>12 DEF DropClaim
<1>13. ASSUME NEW s \in Owner, Unpoint(s) PROVE ReadsAll'
  BY <1>13 DEF Unpoint
<1>14. ASSUME NEW s \in Owner, CommandDies(s) PROVE ReadsAll'
  BY <1>14 DEF CommandDies
<1>15. CASE UNCHANGED planVars
  BY <1>15 DEF planVars
<1> QED
  BY <1>1, <1>2, <1>3, <1>4, <1>5, <1>6, <1>7, <1>8, <1>9, <1>10, <1>11,
     <1>12, <1>13, <1>14, <1>15
  DEF PlanNext

LEMMA EntriesKeptStep ==
  PlanTypes /\ ReadsAll /\ EntriesKept /\ [PlanNext]_planVars
  => EntriesKept'
<1> SUFFICES ASSUME PlanTypes, ReadsAll, EntriesKept, [PlanNext]_planVars
             PROVE  EntriesKept'
  OBVIOUS
<1> USE DEF PlanTypes, ReadsAll, EntriesKept, OnStep, Then, Files, Busy,
            NoCommand
<1>1. ASSUME NEW s \in Owner, EditPlan(s) PROVE EntriesKept'
  BY <1>1 DEF EditPlan, WriteText
<1>2. ASSUME NEW s \in Owner, GoSilent(s) PROVE EntriesKept'
  BY <1>2 DEF GoSilent
<1>3. ASSUME NEW s \in Owner, Engage(s) PROVE EntriesKept'
  BY <1>3 DEF Engage, Load
<1>4. ASSUME NEW s \in Owner, Takeover(s) PROVE EntriesKept'
  BY <1>4 DEF Takeover, Load
<1>5. ASSUME NEW s \in Owner, Cycle(s) PROVE EntriesKept'
  BY <1>5 DEF Cycle, Load
<1>6. ASSUME NEW s \in Owner, Close(s) PROVE EntriesKept'
  BY <1>6 DEF Close, Load
<1>7. ASSUME NEW s \in Owner, ReleaseOwner(s) PROVE EntriesKept'
  BY <1>7 DEF ReleaseOwner
<1>8. ASSUME NEW s \in Owner, ClaimPlan(s) PROVE EntriesKept'
  BY <1>8 DEF ClaimPlan, Claimable
<1>9. ASSUME NEW s \in Owner, ClaimConflict(s) PROVE EntriesKept'
  BY <1>9 DEF ClaimConflict, Claimable
<1>10. ASSUME NEW s \in Owner, Write(s) PROVE EntriesKept'
  BY <1>10 DEF Write, WriteText, NewText
<1>11. ASSUME NEW s \in Owner, Point(s) PROVE EntriesKept'
  BY <1>11 DEF Point
<1>12. ASSUME NEW s \in Owner, DropClaim(s) PROVE EntriesKept'
  BY <1>12 DEF DropClaim
<1>13. ASSUME NEW s \in Owner, Unpoint(s) PROVE EntriesKept'
  BY <1>13 DEF Unpoint
<1>14. ASSUME NEW s \in Owner, CommandDies(s) PROVE EntriesKept'
  BY <1>14 DEF CommandDies
<1>15. CASE UNCHANGED planVars
  BY <1>15 DEF planVars
<1> QED
  BY <1>1, <1>2, <1>3, <1>4, <1>5, <1>6, <1>7, <1>8, <1>9, <1>10, <1>11,
     <1>12, <1>13, <1>14, <1>15
  DEF PlanNext

LEMMA WritesRightStep ==
  PlanTypes /\ Steps /\ WritesRight /\ OwnerHoldsClaim /\ [PlanNext]_planVars
  => WritesRight'
<1> SUFFICES ASSUME PlanTypes, Steps, WritesRight, OwnerHoldsClaim,
                    [PlanNext]_planVars
             PROVE  WritesRight'
  OBVIOUS
<1> USE DEF PlanTypes, Steps, WritesRight, OwnerHoldsClaim, Covered, OnStep,
            Then, Files, Busy, NoCommand
<1>1. ASSUME NEW s \in Owner, EditPlan(s) PROVE WritesRight'
  BY <1>1 DEF EditPlan, WriteText
<1>2. ASSUME NEW s \in Owner, GoSilent(s) PROVE WritesRight'
  BY <1>2 DEF GoSilent
<1>3. ASSUME NEW s \in Owner, Engage(s) PROVE WritesRight'
  BY <1>3 DEF Engage, Load
<1>4. ASSUME NEW s \in Owner, Takeover(s) PROVE WritesRight'
  BY <1>4 DEF Takeover, Load
<1>5. ASSUME NEW s \in Owner, Cycle(s) PROVE WritesRight'
  BY <1>5 DEF Cycle, Load
<1>6. ASSUME NEW s \in Owner, Close(s) PROVE WritesRight'
  BY <1>6 DEF Close, Load
<1>7. ASSUME NEW s \in Owner, ReleaseOwner(s) PROVE WritesRight'
  BY <1>7 DEF ReleaseOwner
<1>8. ASSUME NEW s \in Owner, ClaimPlan(s) PROVE WritesRight'
  BY <1>8, PlanAssumption DEF ClaimPlan, Claimable
<1>9. ASSUME NEW s \in Owner, ClaimConflict(s) PROVE WritesRight'
  BY <1>9 DEF ClaimConflict, Claimable
<1>10. ASSUME NEW s \in Owner, Write(s) PROVE WritesRight'
  BY <1>10 DEF Write, WriteText, NewText
<1>11. ASSUME NEW s \in Owner, Point(s) PROVE WritesRight'
  BY <1>11 DEF Point
<1>12. ASSUME NEW s \in Owner, DropClaim(s) PROVE WritesRight'
  BY <1>12 DEF DropClaim
<1>13. ASSUME NEW s \in Owner, Unpoint(s) PROVE WritesRight'
  BY <1>13 DEF Unpoint
<1>14. ASSUME NEW s \in Owner, CommandDies(s) PROVE WritesRight'
  BY <1>14 DEF CommandDies
<1>15. CASE UNCHANGED planVars
  BY <1>15 DEF planVars
<1> QED
  BY <1>1, <1>2, <1>3, <1>4, <1>5, <1>6, <1>7, <1>8, <1>9, <1>10, <1>11,
     <1>12, <1>13, <1>14, <1>15
  DEF PlanNext

LEMMA ClosedFirstStep ==
  PlanTypes /\ Steps /\ ClosedFirst /\ [PlanNext]_planVars
  => ClosedFirst'
<1> SUFFICES ASSUME PlanTypes, Steps, ClosedFirst, [PlanNext]_planVars
             PROVE  ClosedFirst'
  OBVIOUS
<1> USE DEF PlanTypes, Steps, ClosedFirst, OnStep, Then, Files, Busy,
            NoCommand
<1>1. ASSUME NEW s \in Owner, EditPlan(s) PROVE ClosedFirst'
  BY <1>1 DEF EditPlan, WriteText
<1>2. ASSUME NEW s \in Owner, GoSilent(s) PROVE ClosedFirst'
  BY <1>2 DEF GoSilent
<1>3. ASSUME NEW s \in Owner, Engage(s) PROVE ClosedFirst'
  BY <1>3 DEF Engage, Load
<1>4. ASSUME NEW s \in Owner, Takeover(s) PROVE ClosedFirst'
  BY <1>4 DEF Takeover, Load
<1>5. ASSUME NEW s \in Owner, Cycle(s) PROVE ClosedFirst'
  BY <1>5 DEF Cycle, Load
<1>6. ASSUME NEW s \in Owner, Close(s) PROVE ClosedFirst'
  BY <1>6 DEF Close, Load
<1>7. ASSUME NEW s \in Owner, ReleaseOwner(s) PROVE ClosedFirst'
  BY <1>7 DEF ReleaseOwner
<1>8. ASSUME NEW s \in Owner, ClaimPlan(s) PROVE ClosedFirst'
  BY <1>8 DEF ClaimPlan, Claimable
<1>9. ASSUME NEW s \in Owner, ClaimConflict(s) PROVE ClosedFirst'
  BY <1>9 DEF ClaimConflict, Claimable
<1>10. ASSUME NEW s \in Owner, Write(s) PROVE ClosedFirst'
  BY <1>10 DEF Write, WriteText, NewText
<1>11. ASSUME NEW s \in Owner, Point(s) PROVE ClosedFirst'
  BY <1>11 DEF Point
<1>12. ASSUME NEW s \in Owner, DropClaim(s) PROVE ClosedFirst'
  BY <1>12 DEF DropClaim
<1>13. ASSUME NEW s \in Owner, Unpoint(s) PROVE ClosedFirst'
  BY <1>13 DEF Unpoint
<1>14. ASSUME NEW s \in Owner, CommandDies(s) PROVE ClosedFirst'
  BY <1>14 DEF CommandDies
<1>15. CASE UNCHANGED planVars
  BY <1>15 DEF planVars
<1> QED
  BY <1>1, <1>2, <1>3, <1>4, <1>5, <1>6, <1>7, <1>8, <1>9, <1>10, <1>11,
     <1>12, <1>13, <1>14, <1>15
  DEF PlanNext

LEMMA OwnerHoldsStep ==
  PlanTypes /\ Steps /\ WritesRight /\ ClosedFirst /\ OwnerHoldsClaim /\
  [PlanNext]_planVars
  => OwnerHoldsClaim'
<1> SUFFICES ASSUME PlanTypes, Steps, WritesRight, ClosedFirst,
                    OwnerHoldsClaim, [PlanNext]_planVars
             PROVE  OwnerHoldsClaim'
  OBVIOUS
<1> USE DEF PlanTypes, Steps, WritesRight, ClosedFirst, OwnerHoldsClaim,
            Covered, OnStep, Then, Files, Busy, NoCommand
<1>1. ASSUME NEW s \in Owner, EditPlan(s) PROVE OwnerHoldsClaim'
  BY <1>1 DEF EditPlan, WriteText
<1>2. ASSUME NEW s \in Owner, GoSilent(s) PROVE OwnerHoldsClaim'
  BY <1>2 DEF GoSilent
<1>3. ASSUME NEW s \in Owner, Engage(s) PROVE OwnerHoldsClaim'
  BY <1>3 DEF Engage, Load
<1>4. ASSUME NEW s \in Owner, Takeover(s) PROVE OwnerHoldsClaim'
  BY <1>4 DEF Takeover, Load
<1>5. ASSUME NEW s \in Owner, Cycle(s) PROVE OwnerHoldsClaim'
  BY <1>5 DEF Cycle, Load
<1>6. ASSUME NEW s \in Owner, Close(s) PROVE OwnerHoldsClaim'
  BY <1>6 DEF Close, Load
<1>7. ASSUME NEW s \in Owner, ReleaseOwner(s) PROVE OwnerHoldsClaim'
  BY <1>7 DEF ReleaseOwner
<1>8. ASSUME NEW s \in Owner, ClaimPlan(s) PROVE OwnerHoldsClaim'
  BY <1>8, PlanAssumption DEF ClaimPlan, Claimable
<1>9. ASSUME NEW s \in Owner, ClaimConflict(s) PROVE OwnerHoldsClaim'
  BY <1>9 DEF ClaimConflict, Claimable
<1>10. ASSUME NEW s \in Owner, Write(s) PROVE OwnerHoldsClaim'
  BY <1>10 DEF Write, WriteText, NewText
<1>11. ASSUME NEW s \in Owner, Point(s) PROVE OwnerHoldsClaim'
  BY <1>11 DEF Point
<1>12. ASSUME NEW s \in Owner, DropClaim(s) PROVE OwnerHoldsClaim'
  BY <1>12 DEF DropClaim
<1>13. ASSUME NEW s \in Owner, Unpoint(s) PROVE OwnerHoldsClaim'
  BY <1>13 DEF Unpoint
<1>14. ASSUME NEW s \in Owner, CommandDies(s) PROVE OwnerHoldsClaim'
  BY <1>14 DEF CommandDies
<1>15. CASE UNCHANGED planVars
  BY <1>15 DEF planVars
<1> QED
  BY <1>1, <1>2, <1>3, <1>4, <1>5, <1>6, <1>7, <1>8, <1>9, <1>10, <1>11,
     <1>12, <1>13, <1>14, <1>15
  DEF PlanNext

LEMMA PlanStep == PlanInv /\ [PlanNext]_planVars => PlanInv'
BY PlanTypesStep, StepsStep, ReadsAllStep, EntriesKeptStep, WritesRightStep,
   ClosedFirstStep, OwnerHoldsStep DEF PlanInv, PlanKept

LEMMA PlanInitially == PlanInit => PlanInv
BY PlanAssumption DEF PlanInit, PlanInv, PlanTypes, Steps, ReadsAll,
   WritesRight, ClosedFirst, PlanKept, EntriesKept, OwnerHoldsClaim, NoCommand,
   Blank, Text, Entry

\* The plan file, its claim and what the commands have read keep their types.
THEOREM PlanTyped == PlanSpec => []PlanTypes
<1>1. PlanInv => PlanTypes
  BY DEF PlanInv
<1> QED BY <1>1, PlanInitially, PlanStep, PTL DEF PlanSpec

\* However many sessions run commands on a plan and edit it: no entry is undone
\* but one made behind a command's back, and no plan runs past its claim.
THEOREM PlanIsKept == PlanSpec => []PlanKept
<1>1. PlanInv => PlanKept
  BY DEF PlanInv
<1> QED BY <1>1, PlanInitially, PlanStep, PTL DEF PlanSpec
-----------------------------------------------------------------------------
(* The project index                                                       *)

Reading ==
  [at : {"start", "read", "show", "blob", "staged", "tree", "commit", "along",
         "compare", "replace", "end"},
   field : Field \cup {Rest}, want : Value, before : File, shown : File,
   old : File, along : BOOLEAN, rest : Value, late : SUBSET Field]

GoesOn == {"read", "show", "blob", "staged", "tree", "commit", "along",
           "compare", "replace", "end"}

Key == Field \cup {Rest}

FilesTyped ==
  /\ head \in [Key -> Value] /\ index \in File /\ staged \in File
  /\ fresh \in Value /\ was \in [Key -> SUBSET Value]
  /\ setter \in [Setter -> Reading]

\* What a run has read of HEAD, HEAD has held.
SeenHeld(r, held) ==
  r.rest \in held[Rest] /\ \A f \in Field : r.shown[f] \in held[f]

\* The run that is about to replace the file has noted what changed since it
\* compared.
NotesLate(r) ==
  r.at = "replace" => \A f \in Field : index[f] # r.before[f] => f \in r.late

IndexInv ==
  /\ FilesTyped
  /\ \A k \in Key : {0, head[k]} \subseteq was[k]
  /\ \A p \in Setter : SeenHeld(setter[p], was) /\ NotesLate(setter[p])

LEMMA IndexFacts ==
  /\ Rest \notin Field /\ Rest \in Key /\ Field \subseteq Key /\ 0 \in Value
  /\ Empty \in File /\ \A f \in Field : Empty[f] = 0
  /\ Ended \in Reading /\ Ended.at = "end" /\ Ended.shown = Empty
  /\ Ended.rest = 0
BY IndexAssumption DEF Key, Value, File, Empty, Ended, Reading

\* What the parts of a run are, and what a change of one makes of it.
LEMMA ReadingParts ==
  ASSUME NEW r \in Reading
  PROVE  /\ r.field \in Key /\ r.want \in Value
         /\ r.before \in File /\ r.shown \in File /\ r.old \in File
         /\ r.rest \in Value /\ r.late \subseteq Field /\ r.along \in BOOLEAN
BY DEF Reading, Key

LEMMA AtStep ==
  ASSUME NEW r \in Reading, NEW step \in GoesOn
  PROVE  \E q \in Reading :
            /\ q = [r EXCEPT !.at = step]
            /\ q.at = step
            /\ q.shown = r.shown
            /\ q.rest = r.rest
            /\ q.before = r.before
<1> /\ [r EXCEPT !.at = step] \in Reading
      /\ [r EXCEPT !.at = step].at = step
      /\ [r EXCEPT !.at = step].shown = r.shown
      /\ [r EXCEPT !.at = step].rest = r.rest
      /\ [r EXCEPT !.at = step].before = r.before
  BY DEF Reading, Key, GoesOn
<1> WITNESS [r EXCEPT !.at = step] \in Reading
<1> QED OBVIOUS

LEMMA ReadsBefore ==
  ASSUME NEW r \in Reading, NEW file \in File
  PROVE  \E q \in Reading :
            /\ q = [r EXCEPT !.before = file]
            /\ q.shown = r.shown
            /\ q.rest = r.rest
<1> /\ [r EXCEPT !.before = file] \in Reading
      /\ [r EXCEPT !.before = file].shown = r.shown
      /\ [r EXCEPT !.before = file].rest = r.rest
  BY DEF Reading, Key
<1> WITNESS [r EXCEPT !.before = file] \in Reading
<1> QED OBVIOUS

LEMMA ReadsShown ==
  ASSUME NEW r \in Reading, NEW file \in File
  PROVE  \E q \in Reading :
            /\ q = [r EXCEPT !.shown = file]
            /\ q.shown = file
            /\ q.rest = r.rest
<1> /\ [r EXCEPT !.shown = file] \in Reading
      /\ [r EXCEPT !.shown = file].shown = file
      /\ [r EXCEPT !.shown = file].rest = r.rest
  BY DEF Reading, Key
<1> WITNESS [r EXCEPT !.shown = file] \in Reading
<1> QED OBVIOUS

LEMMA ReadsOld ==
  ASSUME NEW r \in Reading, NEW file \in File
  PROVE  \E q \in Reading :
            /\ q = [r EXCEPT !.old = file]
            /\ q.shown = r.shown
            /\ q.rest = r.rest
<1> /\ [r EXCEPT !.old = file] \in Reading
      /\ [r EXCEPT !.old = file].shown = r.shown
      /\ [r EXCEPT !.old = file].rest = r.rest
  BY DEF Reading, Key
<1> WITNESS [r EXCEPT !.old = file] \in Reading
<1> QED OBVIOUS

LEMMA ReadsStaged ==
  ASSUME NEW r \in Reading, NEW b \in BOOLEAN
  PROVE  \E q \in Reading :
            /\ q = [r EXCEPT !.along = b]
            /\ q.shown = r.shown
            /\ q.rest = r.rest
<1> /\ [r EXCEPT !.along = b] \in Reading
      /\ [r EXCEPT !.along = b].shown = r.shown
      /\ [r EXCEPT !.along = b].rest = r.rest
  BY DEF Reading, Key
<1> WITNESS [r EXCEPT !.along = b] \in Reading
<1> QED OBVIOUS

LEMMA ReadsRest ==
  ASSUME NEW r \in Reading, NEW v \in Value
  PROVE  \E q \in Reading :
            /\ q = [r EXCEPT !.rest = v]
            /\ q.shown = r.shown
            /\ q.rest = v
<1> /\ [r EXCEPT !.rest = v] \in Reading
      /\ [r EXCEPT !.rest = v].shown = r.shown
      /\ [r EXCEPT !.rest = v].rest = v
  BY DEF Reading, Key
<1> WITNESS [r EXCEPT !.rest = v] \in Reading
<1> QED OBVIOUS

LEMMA Begins ==
  \E q \in Reading : /\ q = [Ended EXCEPT !.at = "start"] /\ q.at = "start"
                      /\ q.shown = Ended.shown /\ q.rest = Ended.rest
<1> /\ [Ended EXCEPT !.at = "start"] \in Reading
      /\ [Ended EXCEPT !.at = "start"].at = "start"
      /\ [Ended EXCEPT !.at = "start"].shown = Ended.shown
      /\ [Ended EXCEPT !.at = "start"].rest = Ended.rest
  BY IndexFacts DEF Reading
<1> WITNESS [Ended EXCEPT !.at = "start"] \in Reading
<1> QED OBVIOUS

LEMMA TreeTyped ==
  ASSUME NEW file \in File, NEW v \in Value
  PROVE  Tree(file, v) \in [Key -> Value]
BY DEF Tree, File, Key

LEMMA LateTyped ==
  ASSUME NEW r \in Reading
  PROVE  SeesLate(r) \in Reading
<1>1. r.late \cup {f \in Field : index'[f] # index[f]} \in SUBSET Field
  BY ReadingParts
<1> QED BY <1>1 DEF SeesLate, Reading

LEMMA IndexBegins == IndexInit => IndexInv
<1> SUFFICES ASSUME IndexInit PROVE IndexInv
  OBVIOUS
<1>1. PICK q \in Reading :
        /\ q = [Ended EXCEPT !.at = "start"] /\ q.at = "start"
        /\ q.shown = Empty /\ q.rest = 0
  BY IndexFacts, Begins
<1>2. head \in [Key -> Value] /\ \A k \in Key : head[k] = 0
  BY IndexFacts DEF IndexInit, Tree, Key
<1>3. was \in [Key -> SUBSET Value] /\ \A k \in Key : was[k] = {0}
  BY <1>2, IndexFacts DEF IndexInit
<1>4. FilesTyped
  BY <1>1, <1>2, <1>3, IndexFacts DEF IndexInit, FilesTyped
<1>5. \A p \in Setter : setter[p] = q
  BY <1>1 DEF IndexInit
<1>6. SeenHeld(q, was) /\ NotesLate(q)
  <2>1. q.rest \in was[Rest]
    BY <1>1, <1>3, IndexFacts
  <2>2. \A f \in Field : q.shown[f] = 0 /\ 0 \in was[f]
    BY <1>1, <1>3, IndexFacts
  <2>3. SeenHeld(q, was)
    BY <2>1, <2>2 DEF SeenHeld
  <2>4. q.at # "replace"
    BY <1>1
  <2> QED BY <2>3, <2>4 DEF NotesLate
<1>7. \A k \in Key : {0, head[k]} \subseteq was[k]
  BY <1>2, <1>3
<1> QED BY <1>4, <1>5, <1>6, <1>7 DEF IndexInv

\* HEAD only gains values it has held.
LEMMA CommitsGrow ==
  ASSUME IndexInv, NEW new \in [Key -> Value], CommitTo(new)
  PROVE  /\ head' = new /\ was' \in [Key -> SUBSET Value]
         /\ \A k \in Key : was[k] \subseteq was'[k] /\ new[k] \in was'[k]
BY DEF CommitTo, IndexInv, FilesTyped

\* A step that leaves the working file alone, of no run or of one.
LEMMA FileLeftAlone ==
  ASSUME IndexInv, FilesTyped', index' = index,
         \A k \in Key : /\ was[k] \subseteq was'[k]
                        /\ {0, head'[k]} \subseteq was'[k],
         \A p \in Setter :
           \/ setter'[p] = setter[p]
           \/ /\ SeenHeld(setter'[p], was')
              /\ setter'[p].at = "replace" => index = setter'[p].before
  PROVE  IndexInv'
<1>1. ASSUME NEW p \in Setter, setter'[p] = setter[p]
      PROVE  SeenHeld(setter'[p], was') /\ NotesLate(setter[p])'
  <2>1. SeenHeld(setter[p], was) /\ NotesLate(setter[p])
    BY DEF IndexInv
  <2> QED BY <1>1, <2>1, IndexFacts DEF SeenHeld, NotesLate
<1>2. ASSUME NEW p \in Setter, SeenHeld(setter'[p], was'),
             setter'[p].at = "replace" => index = setter'[p].before
      PROVE  SeenHeld(setter'[p], was') /\ NotesLate(setter[p])'
  BY <1>2 DEF SeenHeld, NotesLate
<1> QED BY <1>1, <1>2 DEF IndexInv

\* A step that changes the working file is noted by those about to replace it.
LEMMA FileChanges ==
  ASSUME IndexInv, index' \in File, fresh' \in Value,
         UNCHANGED <<head, staged, was>>,
         setter' \in [Setter -> Reading],
         \A p \in Setter : setter'[p] \in {Ended, SeesLate(setter[p])}
  PROVE  IndexInv'
<1>1. FilesTyped'
  BY DEF IndexInv, FilesTyped
<1>2. ASSUME NEW p \in Setter, setter'[p] = Ended
      PROVE  SeenHeld(setter'[p], was') /\ NotesLate(setter[p])'
  <2>1. \A k \in Key : 0 \in was[k]
    BY DEF IndexInv
  <2> QED BY <1>2, <2>1, IndexFacts DEF SeenHeld, NotesLate
<1>3. ASSUME NEW p \in Setter, setter'[p] = SeesLate(setter[p])
      PROVE  SeenHeld(setter'[p], was') /\ NotesLate(setter[p])'
  <2>1. /\ SeenHeld(setter[p], was) /\ NotesLate(setter[p])
        /\ setter[p] \in Reading
    BY DEF IndexInv, FilesTyped
  <2>2. CASE setter[p].at # "replace"
    BY <1>3, <2>1, <2>2 DEF SeenHeld, NotesLate, SeesLate
  <2>3. CASE setter[p].at = "replace"
    <3>1. /\ setter[p].late \cup {f \in Field : index'[f] # index[f]}
               \in SUBSET Field
          /\ setter'[p] = [setter[p] EXCEPT !.late =
               setter[p].late \cup {f \in Field : index'[f] # index[f]}]
      BY <1>3, <2>1, <2>3, ReadingParts DEF SeesLate
    <3>2. /\ setter'[p].late =
               setter[p].late \cup {f \in Field : index'[f] # index[f]}
          /\ setter'[p].shown = setter[p].shown
          /\ setter'[p].rest = setter[p].rest
          /\ setter'[p].before = setter[p].before
      BY <2>1, <3>1 DEF Reading
    <3> QED BY <2>1, <2>3, <3>2 DEF SeenHeld, NotesLate
  <2> QED BY <2>2, <2>3
<1> QED BY <1>1, <1>2, <1>3 DEF IndexInv

LEMMA OthersEdit ==
  ASSUME IndexInv,
         \/ \E f \in Field : EditIndex(f)
         \/ StageIndex \/ CommitStaged \/ CommitRest
  PROVE  IndexInv'
<1>0. FilesTyped /\ head \in [Key -> Value] /\ fresh \in Value
  BY DEF IndexInv, FilesTyped
<1>1. ASSUME NEW f \in Field, EditIndex(f) PROVE IndexInv'
  <2>1. fresh' \in Value /\ index' \in File
    BY <1>0, <1>1, IndexAssumption DEF EditIndex, Fresh, FilesTyped, Value, File
  <2>2. /\ UNCHANGED <<head, staged, was>>
        /\ setter' = [p \in Setter |-> SeesLate(setter[p])]
    BY <1>1 DEF EditIndex
  <2>3. \A p \in Setter : SeesLate(setter[p]) \in Reading
    <3> SUFFICES ASSUME NEW p \in Setter PROVE SeesLate(setter[p]) \in Reading
      OBVIOUS
    <3>1. setter[p] \in Reading
      BY <1>0 DEF FilesTyped
    <3> QED BY <3>1, LateTyped
  <2>4. /\ setter' \in [Setter -> Reading]
        /\ \A p \in Setter : setter'[p] = SeesLate(setter[p])
    BY <2>2, <2>3
  <2> QED BY <2>1, <2>2, <2>4, FileChanges
<1>2. CASE StageIndex
  <2>1. /\ staged' = index /\ UNCHANGED <<head, index, fresh, was, setter>>
    BY <1>2 DEF StageIndex
  <2>2. FilesTyped'
    BY <1>0, <2>1 DEF FilesTyped
  <2>3. \A k \in Key : {0, head'[k]} \subseteq was'[k]
    BY <2>1 DEF IndexInv
  <2> QED BY <2>1, <2>2, <2>3, FileLeftAlone
<1>3. ASSUME NEW new \in [Key -> Value], CommitTo(new), fresh' \in Value,
             UNCHANGED <<index, staged, setter>>
      PROVE  IndexInv'
  <2>1. /\ head' = new /\ was' \in [Key -> SUBSET Value]
        /\ \A k \in Key : was[k] \subseteq was'[k] /\ new[k] \in was'[k]
    BY <1>3, CommitsGrow
  <2>2. FilesTyped'
    BY <1>0, <1>3, <2>1 DEF FilesTyped
  <2>3. \A k \in Key : {0, head'[k]} \subseteq was'[k]
    BY <2>1 DEF IndexInv
  <2> QED BY <1>3, <2>1, <2>2, <2>3, FileLeftAlone
<1>4. CASE CommitStaged
  <2>1. Tree(staged, head[Rest]) \in [Key -> Value]
    BY <1>0, TreeTyped, IndexFacts DEF FilesTyped
  <2> QED BY <1>0, <1>3, <1>4, <2>1 DEF CommitStaged
<1>5. CASE CommitRest
  <2>1. fresh' \in Value
    BY <1>0, <1>5, IndexAssumption DEF CommitRest, Fresh, Value
  <2>2. [head EXCEPT ![Rest] = fresh'] \in [Key -> Value]
    BY <1>0, <2>1
  <2> QED BY <1>3, <1>5, <2>1, <2>2 DEF CommitRest
<1> QED BY <1>1, <1>2, <1>4, <1>5

\* A step of the run p that only reads.
LEMMA RunReads ==
  ASSUME IndexInv, NEW p \in Setter, NEW noted \in Reading,
         NEW step \in {"show", "blob", "staged", "tree", "commit", "replace",
                       "end"},
         Note(p, step, noted), SeenHeld(noted, was),
         step = "replace" => index = noted.before
  PROVE  IndexInv'
<1>1. /\ setter' = [setter EXCEPT ![p] = [noted EXCEPT !.at = step]]
      /\ UNCHANGED <<head, index, staged, fresh, was>>
  BY DEF Note
<1>2. PICK q \in Reading :
        /\ q = [noted EXCEPT !.at = step] /\ q.at = step
        /\ q.shown = noted.shown /\ q.rest = noted.rest
        /\ q.before = noted.before
  <2>1. step \in GoesOn
    BY DEF GoesOn
  <2> QED BY <2>1, AtStep
<1>3. setter' = [setter EXCEPT ![p] = q]
  BY <1>1, <1>2
<1>4. FilesTyped'
  BY <1>1, <1>3 DEF IndexInv, FilesTyped
<1>5. setter'[p] = q /\ \A o \in Setter : o # p => setter'[o] = setter[o]
  BY <1>3 DEF IndexInv, FilesTyped
<1>6. SeenHeld(q, was')
  BY <1>1, <1>2 DEF SeenHeld
<1>7. \A k \in Key : was[k] \subseteq was'[k] /\ {0, head'[k]} \subseteq was'[k]
  BY <1>1 DEF IndexInv
<1> QED BY <1>1, <1>2, <1>4, <1>5, <1>6, <1>7, FileLeftAlone

LEMMA RunStep ==
  ASSUME IndexInv, NEW p \in Setter, SetterStep(p)
  PROVE  IndexInv'
<1>0. /\ FilesTyped /\ setter[p] \in Reading /\ index \in File
      /\ head \in [Key -> Value]
      /\ SeenHeld(setter[p], was) /\ setter \in [Setter -> Reading]
  BY DEF IndexInv, FilesTyped
<1>1. InHead \in File /\ \A f \in Field : InHead[f] = head[f]
  BY <1>0 DEF InHead, File, Key
<1>2. ASSUME NEW noted \in Reading,
             noted.shown = setter[p].shown, noted.rest = setter[p].rest
      PROVE  SeenHeld(noted, was)
  BY <1>0, <1>2 DEF SeenHeld
<1>3. ASSUME NEW f \in Field, SetIndex(p, f) PROVE IndexInv'
  <2>1. fresh' \in Value /\ f \in Key
    BY <1>3, IndexAssumption DEF SetIndex, Fresh, IndexInv, FilesTyped, Value,
       Key
  <2>0. PICK v \in Value : v = fresh'
    BY <2>1
  <2>2. PICK q \in Reading :
          /\ q = [setter[p] EXCEPT !.at = "read", !.field = f, !.want = v]
          /\ q.at = "read"
          /\ q.shown = setter[p].shown /\ q.rest = setter[p].rest
    <3> DEFINE q == [setter[p] EXCEPT !.at = "read", !.field = f, !.want = v]
    <3>1. setter[p] \in Reading /\ f \in Key /\ v \in Value
      BY <1>0, <2>1
    <3> /\ q \in Reading /\ q.at = "read"
        /\ q.shown = setter[p].shown /\ q.rest = setter[p].rest
      BY <3>1 DEF Reading, Key
    <3> WITNESS q \in Reading
    <3> QED OBVIOUS
  <2>3. /\ setter' = [setter EXCEPT ![p] = q]
        /\ UNCHANGED <<head, index, staged, was>>
    BY <1>3, <2>0, <2>2 DEF SetIndex
  <2>4. FilesTyped'
    BY <1>0, <2>1, <2>3 DEF FilesTyped
  <2>5. setter'[p] = q /\ \A o \in Setter : o # p => setter'[o] = setter[o]
    BY <1>0, <2>3
  <2>6. SeenHeld(q, was')
    BY <1>2, <2>2, <2>3
  <2>7. \A k \in Key :
          was[k] \subseteq was'[k] /\ {0, head'[k]} \subseteq was'[k]
    BY <2>3 DEF IndexInv
  <2> QED BY <2>2, <2>3, <2>4, <2>5, <2>6, <2>7, FileLeftAlone
<1>4. SeenHeld(Ended, was)
  BY IndexFacts DEF IndexInv, SeenHeld
<1>5. ASSUME Stop(p) PROVE IndexInv'
  BY <1>4, <1>5, IndexFacts, RunReads DEF Stop
<1>6. CASE ReadIndex(p)
  <2>1. PICK q \in Reading :
          /\ q = [setter[p] EXCEPT !.before = index]
          /\ q.shown = setter[p].shown /\ q.rest = setter[p].rest
    BY <1>0, ReadsBefore
  <2> QED BY <1>2, <1>6, <2>1, RunReads DEF ReadIndex
<1>7. CASE ShowHead(p)
  <2>1. PICK q \in Reading :
          /\ q = [setter[p] EXCEPT !.shown = InHead] /\ q.shown = InHead
          /\ q.rest = setter[p].rest
    BY <1>0, <1>1, ReadsShown
  <2>2. SeenHeld(q, was)
    BY <1>0, <1>1, <2>1, IndexFacts DEF SeenHeld, IndexInv
  <2> QED BY <1>7, <2>1, <2>2, RunReads DEF ShowHead
<1>8. CASE HeadBlob(p)
  <2>1. PICK q \in Reading :
          /\ q = [setter[p] EXCEPT !.old = InHead]
          /\ q.shown = setter[p].shown /\ q.rest = setter[p].rest
    BY <1>0, <1>1, ReadsOld
  <2> QED BY <1>2, <1>8, <2>1, RunReads DEF HeadBlob
<1>9. CASE StagedBlob(p)
  <2>1. (staged = setter[p].old) \in BOOLEAN
    OBVIOUS
  <2>2. PICK q \in Reading :
          /\ q = [setter[p] EXCEPT !.along = (staged = setter[p].old)]
          /\ q.shown = setter[p].shown /\ q.rest = setter[p].rest
    BY <1>0, <2>1, ReadsStaged
  <2> QED BY <1>2, <1>9, <2>2, RunReads DEF StagedBlob
<1>10. CASE ReadTree(p)
  <2>1. head[Rest] \in Value
    BY <1>0, IndexFacts
  <2>2. PICK q \in Reading :
          /\ q = [setter[p] EXCEPT !.rest = head[Rest]] /\ q.rest = head[Rest]
          /\ q.shown = setter[p].shown
    BY <1>0, <2>1, ReadsRest
  <2>3. SeenHeld(q, was)
    BY <1>0, <2>2, IndexFacts DEF SeenHeld, IndexInv
  <2> QED BY <1>10, <2>2, <2>3, RunReads DEF ReadTree
<1>11. ASSUME NEW step \in {"along", "compare"},
              setter' = [setter EXCEPT ![p].at = step], index' = index,
              head' \in [Key -> Value], staged' \in File, fresh' = fresh,
              was' \in [Key -> SUBSET Value],
              \A k \in Key : was[k] \subseteq was'[k] /\ head'[k] \in was'[k]
       PROVE  IndexInv'
  <2>1. PICK q \in Reading :
          /\ q = [setter[p] EXCEPT !.at = step] /\ q.at = step
          /\ q.shown = setter[p].shown /\ q.rest = setter[p].rest
          /\ q.before = setter[p].before
    <3>1. step \in GoesOn
      BY DEF GoesOn
    <3> QED BY <1>0, <3>1, AtStep
  <2>2. setter' = [setter EXCEPT ![p] = q]
    BY <1>0, <1>11, <2>1
  <2>3. FilesTyped'
    BY <1>0, <1>11, <2>2 DEF FilesTyped
  <2>4. setter'[p] = q /\ \A o \in Setter : o # p => setter'[o] = setter[o]
    BY <1>0, <2>2
  <2>5. SeenHeld(q, was')
    BY <1>0, <1>11, <2>1, IndexFacts DEF SeenHeld
  <2>6. \A k \in Key :
          was[k] \subseteq was'[k] /\ {0, head'[k]} \subseteq was'[k]
    BY <1>11 DEF IndexInv
  <2> QED BY <1>11, <2>1, <2>3, <2>4, <2>5, <2>6, FileLeftAlone
<1>12. /\ Edited(p, setter[p].shown) \in File
       /\ Edited(p, setter[p].before) \in File
  BY <1>0, ReadingParts DEF Edited, File
<1>13. CASE CommitField(p)
  <2>1. Committed(p) \in [Key -> Value]
    BY <1>0, <1>12, ReadingParts, TreeTyped DEF Committed
  <2>2. /\ CommitTo(Committed(p)) /\ UNCHANGED <<index, staged, fresh>>
        /\ setter' = [setter EXCEPT ![p].at =
                        IF setter[p].along THEN "along" ELSE "compare"]
    BY <1>13 DEF CommitField
  <2>3. /\ head' = Committed(p) /\ was' \in [Key -> SUBSET Value]
        /\ \A k \in Key : was[k] \subseteq was'[k] /\ head'[k] \in was'[k]
    BY <2>1, <2>2, CommitsGrow
  <2>4. staged' \in File /\ head' \in [Key -> Value]
    BY <1>0, <2>1, <2>2, <2>3 DEF FilesTyped
  <2>5. CASE setter[p].along
    BY <1>11, <2>2, <2>3, <2>4, <2>5
  <2>6. CASE ~setter[p].along
    BY <1>11, <2>2, <2>3, <2>4, <2>6
  <2> QED BY <2>5, <2>6
<1>14. CASE MoveAlong(p)
  <2>1. /\ staged' \in File /\ UNCHANGED <<head, index, fresh, was>>
        /\ setter' = [setter EXCEPT ![p].at = "compare"]
    BY <1>12, <1>14 DEF MoveAlong
  <2>2. /\ head' \in [Key -> Value] /\ was' \in [Key -> SUBSET Value]
        /\ \A k \in Key : was[k] \subseteq was'[k] /\ head'[k] \in was'[k]
    BY <1>0, <2>1 DEF FilesTyped, IndexInv
  <2> QED BY <1>11, <2>1, <2>2
<1>15. CASE Unchanged(p)
  BY <1>0, <1>15, RunReads DEF Unchanged
<1>16. CASE Replace(p)
  <2>1. /\ index' \in File /\ UNCHANGED <<head, staged, fresh, was>>
        /\ setter' = [o \in Setter |->
                        IF o = p THEN Ended ELSE SeesLate(setter[o])]
    BY <1>12, <1>16 DEF Replace
  <2>2. \A o \in Setter : SeesLate(setter[o]) \in Reading
    BY <1>0, LateTyped
  <2>3. /\ setter' \in [Setter -> Reading]
        /\ \A o \in Setter : setter'[o] \in {Ended, SeesLate(setter[o])}
    BY <2>1, <2>2, IndexFacts
  <2>4. fresh' \in Value
    BY <1>0, <2>1 DEF FilesTyped
  <2> QED BY <2>1, <2>3, <2>4, FileChanges
<1> QED
  BY <1>3, <1>5, <1>6, <1>7, <1>8, <1>9, <1>10, <1>13, <1>14, <1>15, <1>16
  DEF SetterStep, AskThemFirst, CommitRefused, ChangedMeanwhile

LEMMA IndexStep == IndexInv /\ [IndexNext]_indexVars => IndexInv'
<1> SUFFICES ASSUME IndexInv, [IndexNext]_indexVars PROVE IndexInv'
  OBVIOUS
<1>1. CASE UNCHANGED indexVars
  BY <1>1 DEF indexVars, IndexInv, FilesTyped, SeenHeld, NotesLate
<1> QED BY <1>1, RunStep, OthersEdit DEF IndexNext

\* HEAD, the file, the git index and the runs keep their types.
THEOREM IndexTyped == IndexSpec => []IndexTypes
<1>1. IndexInv => IndexTypes
  BY DEF IndexInv, FilesTyped, IndexTypes, Reading, Key
<1> QED BY <1>1, IndexBegins, IndexStep, PTL DEF IndexSpec

\* For any number of runs, fields and other sessions' edits, in any order: a
\* run commits nothing but its own field that HEAD did not hold before, and the
\* file loses only an edit made after the run compared it.
THEOREM IndexKeepsEdits == IndexSpec => OthersEditsKept
<1> DEFINE Kept ==
      \A p \in Setter :
        /\ CommitField(p) =>
             \A k \in DOMAIN head \ {setter[p].field} : head'[k] \in was[k]
        /\ Replace(p) =>
             \A f \in Field \ {setter[p].field} :
               index'[f] # index[f] => f \in setter[p].late
<1>1. IndexInv => Kept
  <2> SUFFICES ASSUME IndexInv, NEW p \in Setter
               PROVE  /\ CommitField(p) =>
                           \A k \in DOMAIN head \ {setter[p].field} :
                             head'[k] \in was[k]
                      /\ Replace(p) =>
                           \A f \in Field \ {setter[p].field} :
                             index'[f] # index[f] => f \in setter[p].late
    OBVIOUS
  <2>0. /\ setter[p] \in Reading /\ DOMAIN head = Key
        /\ SeenHeld(setter[p], was) /\ NotesLate(setter[p])
        /\ setter[p].shown \in File /\ setter[p].before \in File
    BY ReadingParts DEF IndexInv, FilesTyped
  <2>1. \A f \in Field \ {setter[p].field} :
          /\ Edited(p, setter[p].shown)[f] = setter[p].shown[f]
          /\ Edited(p, setter[p].before)[f] = setter[p].before[f]
    BY <2>0 DEF Edited, File
  <2>2. ASSUME CommitField(p), NEW k \in Key \ {setter[p].field}
        PROVE  head'[k] \in was[k]
    <3>1. head' = Tree(Edited(p, setter[p].shown), setter[p].rest)
      BY <2>2 DEF CommitField, CommitTo, Committed
    <3>2. CASE k = Rest
      BY <2>0, <3>1, <3>2 DEF Tree, SeenHeld, Key
    <3>3. CASE k # Rest
      BY <2>0, <2>1, <2>2, <3>1, <3>3 DEF Tree, SeenHeld, Key
    <3> QED BY <3>2, <3>3
  <2>3. ASSUME Replace(p), NEW f \in Field \ {setter[p].field},
               index'[f] # index[f]
        PROVE  f \in setter[p].late
    BY <2>0, <2>1, <2>3 DEF Replace, At, NotesLate
  <2> QED BY <2>0, <2>2, <2>3
<1>2. IndexInv /\ [IndexNext]_indexVars => IndexInv' /\ [Kept]_indexVars
  BY <1>1, IndexStep
<1> HIDE DEF Kept
<1>3. IndexSpec => [][Kept]_indexVars
  BY <1>2, IndexBegins, PTL DEF IndexSpec
<1> QED BY <1>3 DEF OthersEditsKept, Kept
-----------------------------------------------------------------------------
(* Handoff                                                                 *)

Handing ==
  [at : {"idle", "look", "commit", "verify", "fetch", "push", "pushed",
         "receipt"},
   on : Line, mine : SUBSET Doc, docs : SUBSET Doc, before : SUBSET Piece,
   due : SUBSET Piece, switched : BOOLEAN]

CheckoutTyped ==
  /\ docOf \in Seq(Doc) /\ Len(docOf) <= MaxPieces
  /\ desk \in Desk /\ desk.changed \subseteq 1..Len(docOf)
  /\ origin \in [Line -> SUBSET Piece]
  /\ holder \in [Doc -> Agent \cup {Outsider}]
  /\ handoff \in [Agent -> Handing]

\* Where what the handoff h must send is, as far as h has come, if nobody has
\* switched the checkout to another branch.
Underway(h) ==
  /\ h.on = desk.on
  /\ h.at = "look" => h.due \subseteq Tip \cup ChangedIn(h.mine)
  /\ h.at \in {"commit", "verify"} =>
       h.due \subseteq Tip \cup ChangedIn(h.docs)
  /\ h.at \in {"fetch", "push", "pushed"} => h.due \subseteq Tip
  /\ h.at = "receipt" => h.due \subseteq origin[h.on]

NothingAside(h) ==
  /\ h.docs \subseteq h.mine
  /\ h.at # "idle" /\ ~h.switched => Underway(h)

HandoffInv == CheckoutTyped /\ \A a \in Agent : NothingAside(handoff[a])

\* A step of anybody's that stays on the branch: what was in a branch or at the
\* remote still is, and what was changed is as it was or committed.
NothingLost ==
  /\ desk'.on = desk.on /\ Tip \subseteq Tip'
  /\ \A n \in desk.changed :
       n \in Tip' \/ (n \in desk'.changed /\ docOf'[n] = docOf[n])
  /\ \A l \in Line : origin[l] \subseteq origin'[l]

LEMMA NoHandoffTyped ==
  /\ NoHandoff \in Handing /\ NoHandoff.at = "idle" /\ NoHandoff.docs = {}
  /\ NoHandoff.mine = {}
BY HandoffAssumption DEF NoHandoff, Handing

LEMMA HandoffBegins == HandoffInit => HandoffInv
<1> SUFFICES ASSUME HandoffInit PROVE HandoffInv
  OBVIOUS
<1>1. docOf \in Seq(Doc) /\ Len(docOf) = 0 /\ Len(docOf) <= MaxPieces
  BY HandoffAssumption DEF HandoffInit
<1>2. desk \in Desk /\ desk.changed = {} /\ origin \in [Line -> SUBSET Piece]
  BY HandoffAssumption DEF HandoffInit, Desk
<1>3. /\ holder \in [Doc -> Agent \cup {Outsider}]
      /\ handoff \in [Agent -> Handing]
      /\ \A a \in Agent : handoff[a] = NoHandoff
  BY NoHandoffTyped DEF HandoffInit
<1> QED BY <1>1, <1>2, <1>3, NoHandoffTyped
     DEF HandoffInv, CheckoutTyped, NothingAside

\* A handoff that is where it was is still right after such a step.
LEMMA StaysUnderway ==
  ASSUME HandoffInv, NothingLost, NEW h \in Handing, NothingAside(h)
  PROVE  NothingAside(h)'
<1>1. ASSUME h.at # "idle", ~h.switched PROVE Underway(h)'
  <2>1. Underway(h) /\ h.on \in Line
    BY <1>1 DEF NothingAside, Handing
  <2>2. \A docs : Tip \cup ChangedIn(docs) \subseteq (Tip \cup ChangedIn(docs))'
    BY DEF NothingLost, ChangedIn
  <2>3. h.on = desk'.on
    BY <2>1 DEF Underway, NothingLost
  <2>4. h.at = "look" => h.due \subseteq (Tip \cup ChangedIn(h.mine))'
    BY <2>1, <2>2 DEF Underway
  <2>5. h.at \in {"commit", "verify"} =>
          h.due \subseteq (Tip \cup ChangedIn(h.docs))'
    BY <2>1, <2>2 DEF Underway
  <2>6. h.at \in {"fetch", "push", "pushed"} => h.due \subseteq Tip'
    BY <2>1 DEF Underway, NothingLost
  <2>7. h.at = "receipt" => h.due \subseteq origin'[h.on]
    BY <2>1 DEF Underway, NothingLost
  <2> QED BY <2>3, <2>4, <2>5, <2>6, <2>7 DEF Underway
<1> QED BY <1>1 DEF NothingAside

\* The other sessions go on, and leave the handoffs alone.
LEMMA OthersGoOn ==
  ASSUME HandoffInv, NothingLost, handoff' = handoff, CheckoutTyped'
  PROVE  HandoffInv'
<1> SUFFICES ASSUME NEW a \in Agent PROVE NothingAside(handoff[a])'
  BY DEF HandoffInv
<1>1. PICK h \in Handing : h = handoff[a] /\ NothingAside(h)
  BY DEF HandoffInv, CheckoutTyped
<1>2. NothingAside(h)'
  BY <1>1, StaysUnderway
<1> QED BY <1>1, <1>2

\* The handoff of one session goes on.
LEMMA HandoffGoesOn ==
  ASSUME HandoffInv, NothingLost, NEW a \in Agent, NEW q \in Handing,
         handoff' = [handoff EXCEPT ![a] = q], NothingAside(q)',
         CheckoutTyped'
  PROVE  HandoffInv'
<1> SUFFICES ASSUME NEW b \in Agent PROVE NothingAside(handoff[b])'
  BY DEF HandoffInv
<1>1. handoff'[a] = q /\ (b # a => handoff'[b] = handoff[b])
  BY DEF HandoffInv, CheckoutTyped
<1>2. CASE b = a
  BY <1>1, <1>2
<1>3. CASE b # a
  <2>1. PICK h \in Handing : h = handoff[b] /\ NothingAside(h)
    BY DEF HandoffInv, CheckoutTyped
  <2>2. NothingAside(h)'
    BY <2>1, StaysUnderway
  <2> QED BY <1>1, <1>3, <2>1, <2>2
<1> QED BY <1>2, <1>3

\* A commit of the changes `new`, by anybody.
LEMMA CommitsChanges ==
  ASSUME HandoffInv, NEW new \in SUBSET desk.changed,
         desk' = [desk EXCEPT !.line[desk.on] = desk.line[desk.on] \cup new,
                              !.changed = desk.changed \ new],
         UNCHANGED <<docOf, origin>>
  PROVE  /\ NothingLost /\ desk' \in Desk /\ Tip' = Tip \cup new
         /\ desk'.changed = desk.changed \ new
         /\ \A docs : ChangedIn(docs)' = ChangedIn(docs) \ new
<1>1. /\ desk \in Desk /\ desk.on \in Line /\ desk.changed \subseteq Piece
      /\ desk.line \in [Line -> SUBSET Piece]
  BY DEF HandoffInv, CheckoutTyped, Desk
<1>2. /\ desk'.on = desk.on /\ desk'.changed = desk.changed \ new
      /\ desk'.line =
           [desk.line EXCEPT ![desk.on] = desk.line[desk.on] \cup new]
      /\ desk' = [on |-> desk.on, changed |-> desk.changed \ new,
                  line |-> [desk.line EXCEPT ![desk.on] =
                              desk.line[desk.on] \cup new]]
  BY <1>1 DEF Desk
<1>3. desk' \in Desk
  BY <1>1, <1>2 DEF Desk
<1>4. Tip' = Tip \cup new
  BY <1>1, <1>2 DEF Tip
<1>5. \A docs : ChangedIn(docs)' = ChangedIn(docs) \ new
  BY <1>2 DEF ChangedIn
<1>6. NothingLost
  BY <1>2, <1>4 DEF NothingLost
<1> QED BY <1>2, <1>3, <1>4, <1>5, <1>6

\* A new piece of work is the next one.
LEMMA NewPieces ==
  ASSUME HandoffInv, NEW d \in Doc, NewPiece(d)
  PROVE  /\ docOf' \in Seq(Doc) /\ Len(docOf') \in Piece
         /\ Len(docOf') = Len(docOf) + 1 /\ Len(docOf') <= MaxPieces
         /\ \A n \in 1..Len(docOf) : docOf'[n] = docOf[n]
         /\ 1..Len(docOf) \subseteq 1..Len(docOf')
         /\ Len(docOf') \in 1..Len(docOf')
<1>1. /\ docOf \in Seq(Doc) /\ Len(docOf) < MaxPieces
      /\ docOf' = Append(docOf, d) /\ Len(docOf) \in Nat
  BY DEF NewPiece, HandoffInv, CheckoutTyped
<1>2. /\ docOf' \in Seq(Doc) /\ Len(docOf') = Len(docOf) + 1
      /\ \A n \in 1..Len(docOf) : docOf'[n] = docOf[n]
  BY <1>1, AppendProperties
<1> QED BY <1>1, <1>2, HandoffAssumption DEF Piece

LEMMA BesideStep ==
  ASSUME HandoffInv, Beside
  PROVE  HandoffInv'
<1>0. /\ CheckoutTyped /\ desk \in Desk /\ desk.on \in Line
      /\ desk.line \in [Line -> SUBSET Piece]
      /\ desk.changed \in SUBSET Piece
      /\ desk.changed \subseteq 1..Len(docOf)
      /\ origin \in [Line -> SUBSET Piece]
      /\ handoff \in [Agent -> Handing]
      /\ docOf \in Seq(Doc) /\ Len(docOf) \in Nat
  BY DEF HandoffInv, CheckoutTyped, Desk
<1>1. ASSUME NEW d \in Doc, EditDoc(d), UNCHANGED holder PROVE HandoffInv'
  <2>1. /\ docOf' \in Seq(Doc) /\ Len(docOf') \in Piece
        /\ Len(docOf') <= MaxPieces
        /\ \A n \in 1..Len(docOf) : docOf'[n] = docOf[n]
        /\ 1..Len(docOf) \subseteq 1..Len(docOf')
        /\ Len(docOf') \in 1..Len(docOf')
    BY <1>1, NewPieces DEF EditDoc
  <2>2. /\ desk' = [desk EXCEPT !.changed = desk.changed \cup {Len(docOf')}]
        /\ UNCHANGED <<origin, handoff>>
    BY <1>1 DEF EditDoc
  <2>3. /\ desk' \in Desk /\ desk'.on = desk.on /\ desk'.line = desk.line
        /\ desk'.changed = desk.changed \cup {Len(docOf')}
    BY <1>0, <2>1, <2>2 DEF Desk
  <2>4. desk'.changed \subseteq 1..Len(docOf')
    BY <1>0, <2>1, <2>3
  <2>5. CheckoutTyped'
    BY <1>0, <1>1, <2>1, <2>2, <2>3, <2>4 DEF CheckoutTyped
  <2>6. NothingLost
    BY <1>0, <2>1, <2>2, <2>3 DEF NothingLost, Tip
  <2> QED BY <2>2, <2>5, <2>6, OthersGoOn
<1>2. ASSUME NEW d \in Doc, CommitDoc(d), UNCHANGED holder PROVE HandoffInv'
  <2>1. ChangedIn({d}) \in SUBSET desk.changed
    BY DEF ChangedIn
  <2>2. /\ desk' = [desk EXCEPT
                      !.line[desk.on] = desk.line[desk.on] \cup ChangedIn({d}),
                      !.changed = desk.changed \ ChangedIn({d})]
        /\ UNCHANGED <<docOf, origin, handoff>>
    BY <1>2 DEF CommitDoc
  <2>3. /\ NothingLost /\ desk' \in Desk
        /\ desk'.changed = desk.changed \ ChangedIn({d})
    BY <2>1, <2>2, CommitsChanges
  <2>4. CheckoutTyped'
    BY <1>0, <1>2, <2>2, <2>3 DEF CheckoutTyped
  <2> QED BY <2>2, <2>3, <2>4, OthersGoOn
<1>3. ASSUME NEW d \in Doc, NEW l \in Line, PushFromOther(d, l),
             UNCHANGED holder
      PROVE  HandoffInv'
  <2>1. /\ docOf' \in Seq(Doc) /\ Len(docOf') \in Piece
        /\ Len(docOf') <= MaxPieces
        /\ \A n \in 1..Len(docOf) : docOf'[n] = docOf[n]
        /\ 1..Len(docOf) \subseteq 1..Len(docOf')
    BY <1>3, NewPieces DEF PushFromOther
  <2>2. /\ origin' = [origin EXCEPT ![l] = origin[l] \cup {Len(docOf')}]
        /\ UNCHANGED <<desk, handoff>>
    BY <1>3 DEF PushFromOther
  <2>3. /\ origin' \in [Line -> SUBSET Piece]
        /\ \A k \in Line : origin[k] \subseteq origin'[k]
    BY <1>0, <2>1, <2>2
  <2>4. CheckoutTyped'
    BY <1>0, <1>3, <2>1, <2>2, <2>3 DEF CheckoutTyped
  <2>5. NothingLost
    BY <1>0, <2>1, <2>2, <2>3 DEF NothingLost, Tip
  <2> QED BY <2>2, <2>4, <2>5, OthersGoOn
<1>4. ASSUME NEW l \in Line, SwitchTo(l), UNCHANGED holder PROVE HandoffInv'
  <2>1. /\ desk' = [desk EXCEPT !.on = l] /\ UNCHANGED <<docOf, origin>>
        /\ handoff' = [a \in Agent |->
                         IF handoff[a].at = "idle" THEN handoff[a]
                         ELSE [handoff[a] EXCEPT !.switched = TRUE]]
    BY <1>4 DEF SwitchTo
  <2>2. desk' \in Desk /\ desk'.changed = desk.changed
    BY <1>0, <2>1 DEF Desk
  <2>3. ASSUME NEW a \in Agent
        PROVE  handoff'[a] \in Handing /\ NothingAside(handoff[a])'
    <3>1. handoff[a] \in Handing /\ handoff[a].docs \subseteq handoff[a].mine
      BY <1>0 DEF HandoffInv, NothingAside
    <3>2. CASE handoff[a].at = "idle"
      BY <2>1, <3>1, <3>2 DEF NothingAside
    <3>3. CASE handoff[a].at # "idle"
      <4>1. handoff'[a] = [handoff[a] EXCEPT !.switched = TRUE]
        BY <2>1, <3>3
      <4>2. /\ handoff'[a] \in Handing /\ handoff'[a].switched
            /\ handoff'[a].docs = handoff[a].docs
            /\ handoff'[a].mine = handoff[a].mine
        BY <3>1, <4>1 DEF Handing
      <4> QED BY <3>1, <4>2 DEF NothingAside
    <3> QED BY <3>2, <3>3
  <2>4. handoff' \in [Agent -> Handing]
    BY <2>1, <2>3
  <2>5. CheckoutTyped'
    BY <1>0, <1>4, <2>1, <2>2, <2>4 DEF CheckoutTyped
  <2> QED BY <2>3, <2>5 DEF HandoffInv
<1>5. CASE Pull /\ UNCHANGED holder
  <2>1. /\ Tip \subseteq origin[desk.on]
        /\ desk' = [desk EXCEPT !.line[desk.on] = origin[desk.on]]
        /\ UNCHANGED <<docOf, origin, handoff>>
    BY <1>5 DEF Pull
  <2>2. /\ desk' \in Desk /\ desk'.on = desk.on
        /\ desk'.changed = desk.changed
        /\ desk'.line = [desk.line EXCEPT ![desk.on] = origin[desk.on]]
    BY <1>0, <2>1 DEF Desk
  <2>3. CheckoutTyped'
    BY <1>0, <1>5, <2>1, <2>2 DEF CheckoutTyped
  <2>4. NothingLost
    BY <1>0, <2>1, <2>2 DEF NothingLost, Tip
  <2> QED BY <2>1, <2>3, <2>4, OthersGoOn
<1>6. CASE PushTip /\ UNCHANGED holder
  <2>1. /\ origin[desk.on] \subseteq Tip
        /\ origin' = [origin EXCEPT ![desk.on] = Tip]
        /\ UNCHANGED <<docOf, desk, handoff>>
    BY <1>6 DEF PushTip
  <2>2. /\ origin' \in [Line -> SUBSET Piece]
        /\ \A k \in Line : origin[k] \subseteq origin'[k]
    BY <1>0, <2>1 DEF Tip
  <2>3. CheckoutTyped'
    BY <1>0, <1>6, <2>1, <2>2 DEF CheckoutTyped
  <2>4. NothingLost
    BY <1>0, <2>1, <2>2 DEF NothingLost, Tip
  <2> QED BY <2>1, <2>3, <2>4, OthersGoOn
<1>7. ASSUME NEW d \in Doc, NEW a \in Agent \cup {Outsider}, TakeOver(d, a)
      PROVE  HandoffInv'
  <2>1. /\ holder' = [holder EXCEPT ![d] = a]
        /\ UNCHANGED <<docOf, desk, origin, handoff>>
    BY <1>7 DEF TakeOver
  <2>2. CheckoutTyped'
    BY <1>0, <2>1 DEF CheckoutTyped
  <2>3. NothingLost
    BY <2>1 DEF NothingLost, Tip
  <2> QED BY <2>1, <2>2, <2>3, OthersGoOn
<1> QED BY <1>1, <1>2, <1>3, <1>4, <1>5, <1>6, <1>7 DEF Beside

LEMMA HandoffGoes ==
  ASSUME HandoffInv, NEW a \in Agent, HandoffStep(a)
  PROVE  HandoffInv'
<1>0. /\ CheckoutTyped /\ desk \in Desk /\ desk.on \in Line
      /\ desk.line \in [Line -> SUBSET Piece]
      /\ desk.changed \in SUBSET Piece
      /\ desk.changed \subseteq 1..Len(docOf)
      /\ origin \in [Line -> SUBSET Piece]
      /\ handoff \in [Agent -> Handing]
      /\ docOf \in Seq(Doc) /\ Len(docOf) \in Nat
      /\ Tip \in SUBSET Piece
  BY DEF HandoffInv, CheckoutTyped, Desk, Tip
<1>1. PICK h \in Handing : h = handoff[a] /\ NothingAside(h)
  BY <1>0 DEF HandoffInv
<1>2. ASSUME NEW q \in Handing, handoff' = [handoff EXCEPT ![a] = q],
             UNCHANGED <<docOf, desk, origin, holder>>, NothingAside(q)
      PROVE  HandoffInv'
  <2>1. CheckoutTyped'
    BY <1>0, <1>2 DEF CheckoutTyped
  <2>2. NothingLost
    BY <1>2 DEF NothingLost, Tip
  <2>3. NothingAside(q)'
    BY <1>2, <2>2, StaysUnderway
  <2> QED BY <1>2, <2>1, <2>2, <2>3, HandoffGoesOn
<1>3. ASSUME NEW step, Sees(a, step, "idle") PROVE HandoffInv'
  <2>1. NothingAside(NoHandoff)
    BY NoHandoffTyped DEF NothingAside
  <2> QED BY <1>2, <1>3, <2>1, NoHandoffTyped DEF Sees, Turns
<1>4. ASSUME NEW step \in {"commit", "verify", "fetch", "push", "pushed"},
             NEW next \in {"verify", "fetch", "push", "pushed", "receipt"},
             Sees(a, step, next),
             h.at = step /\ ~h.switched /\ Underway(h) =>
               /\ next = "verify" => h.due \subseteq Tip \cup ChangedIn(h.docs)
               /\ next \in {"fetch", "push", "pushed"} => h.due \subseteq Tip
               /\ next = "receipt" => h.due \subseteq origin[h.on]
      PROVE  HandoffInv'
  <2>1. /\ handoff' = [handoff EXCEPT ![a] = [h EXCEPT !.at = next]]
        /\ UNCHANGED <<docOf, desk, origin, holder>> /\ h.at = step
    BY <1>1, <1>4 DEF Sees, Turns
  <2>2. PICK q : q = [h EXCEPT !.at = next]
    OBVIOUS
  <2>3. /\ q \in Handing /\ q.at = next /\ q.on = h.on /\ q.mine = h.mine
        /\ q.docs = h.docs /\ q.due = h.due /\ q.switched = h.switched
    BY <2>2 DEF Handing
  <2>4. h.docs \subseteq h.mine /\ (~h.switched => Underway(h))
    BY <1>1, <2>1 DEF NothingAside
  <2>5. ASSUME ~q.switched PROVE Underway(q)
    <3>1. h.at = step /\ ~h.switched /\ Underway(h) /\ h.on = desk.on
      BY <2>1, <2>3, <2>4, <2>5 DEF Underway
    <3> QED BY <1>4, <2>3, <3>1 DEF Underway
  <2>6. NothingAside(q)
    BY <2>3, <2>4, <2>5 DEF NothingAside
  <2> QED BY <1>2, <2>1, <2>2, <2>3, <2>6
<1>5. CASE Begin(a)
  <2>1. PICK mine \in SUBSET Doc :
          /\ mine = {d \in Doc : holder[d] = a}
          /\ handoff' = [handoff EXCEPT ![a] =
               [at |-> "look", on |-> desk.on, mine |-> mine, docs |-> {},
                before |-> Tip, due |-> ChangedIn(mine) \cup Tip,
                switched |-> FALSE]]
          /\ UNCHANGED <<docOf, desk, origin, holder>>
    BY <1>5 DEF Begin, Turns
  <2>2. PICK q : q = [at |-> "look", on |-> desk.on, mine |-> mine,
                      docs |-> {}, before |-> Tip,
                      due |-> ChangedIn(mine) \cup Tip, switched |-> FALSE]
    OBVIOUS
  <2>3. ChangedIn(mine) \in SUBSET Piece
    BY <1>0 DEF ChangedIn
  <2>4. /\ q \in Handing /\ q.at = "look" /\ q.on = desk.on /\ q.mine = mine
        /\ q.docs = {} /\ q.due = ChangedIn(mine) \cup Tip
    BY <1>0, <2>2, <2>3 DEF Handing
  <2>5. NothingAside(q)
    BY <2>4 DEF NothingAside, Underway
  <2> QED BY <1>2, <2>1, <2>2, <2>4, <2>5
<1>6. CASE Look(a)
  <2>1. PICK docs \in SUBSET Doc, next \in {"fetch", "commit"} :
          /\ docs = {docOf[n] : n \in ChangedIn(h.mine)}
          /\ next = IF docs = {} THEN "fetch" ELSE "commit"
          /\ docs \subseteq h.mine
    <3>1. {docOf[n] : n \in ChangedIn(h.mine)} \subseteq h.mine
      BY DEF ChangedIn
    <3>2. h.mine \subseteq Doc
      BY DEF Handing
    <3> QED BY <3>1, <3>2
  <2>2. /\ handoff' = [handoff EXCEPT ![a] =
             [h EXCEPT !.docs = docs, !.before = Tip, !.at = next]]
        /\ UNCHANGED <<docOf, desk, origin, holder>> /\ h.at = "look"
    BY <1>1, <1>6, <2>1 DEF Look, Turns
  <2>3. PICK q : q = [h EXCEPT !.docs = docs, !.before = Tip, !.at = next]
    OBVIOUS
  <2>4. /\ q \in Handing /\ q.at = next /\ q.on = h.on /\ q.mine = h.mine
        /\ q.docs = docs /\ q.due = h.due /\ q.switched = h.switched
    BY <1>0, <2>1, <2>3 DEF Handing
  <2>5. ChangedIn(h.mine) \subseteq ChangedIn(docs)
    BY <2>1 DEF ChangedIn
  <2>6. docs = {} => ChangedIn(docs) = {}
    BY DEF ChangedIn
  <2>7. ASSUME ~q.switched PROVE Underway(q)
    <3>1. h.on = desk.on /\ h.due \subseteq Tip \cup ChangedIn(h.mine)
      BY <1>1, <2>2, <2>4, <2>7 DEF NothingAside, Underway
    <3>2. h.due \subseteq Tip \cup ChangedIn(docs)
      BY <2>5, <3>1
    <3> QED BY <2>1, <2>4, <2>6, <3>1, <3>2 DEF Underway
  <2>8. NothingAside(q)
    BY <2>1, <2>4, <2>7 DEF NothingAside
  <2> QED BY <1>2, <2>2, <2>3, <2>4, <2>8
<1>7. ASSUME NEW next \in {"verify", "pushed"}, h.at \in {"commit", "push"},
             handoff' = [handoff EXCEPT ![a] = [h EXCEPT !.at = next]],
             NothingLost, CheckoutTyped',
             ~h.switched /\ Underway(h) => h.due \subseteq Tip'
      PROVE  HandoffInv'
  <2>1. PICK q : q = [h EXCEPT !.at = next]
    OBVIOUS
  <2>2. /\ q \in Handing /\ q.at = next /\ q.on = h.on /\ q.mine = h.mine
        /\ q.docs = h.docs /\ q.due = h.due /\ q.switched = h.switched
    BY <2>1 DEF Handing
  <2>3. h.docs \subseteq h.mine /\ (~h.switched => Underway(h))
    BY <1>1, <1>7 DEF NothingAside
  <2>4. ASSUME ~h.switched PROVE q.due \subseteq Tip' /\ q.on = desk'.on
    BY <1>7, <2>2, <2>3, <2>4 DEF Underway, NothingLost
  <2>5. NothingAside(q)'
    BY <2>2, <2>3, <2>4 DEF NothingAside, Underway
  <2> QED BY <1>7, <2>1, <2>2, <2>5, HandoffGoesOn
<1>8. CASE CommitOnly(a)
  <2>1. PICK new \in SUBSET desk.changed : new = ChangedIn(h.docs)
    BY DEF ChangedIn
  <2>2. /\ handoff' = [handoff EXCEPT ![a] = [h EXCEPT !.at = "verify"]]
        /\ UNCHANGED <<docOf, holder, origin>> /\ h.at = "commit"
        /\ desk' = [desk EXCEPT !.line[desk.on] = desk.line[desk.on] \cup new,
                                !.changed = desk.changed \ new]
    BY <1>1, <1>8, <2>1 DEF CommitOnly, Turns
  <2>3. /\ NothingLost /\ desk' \in Desk /\ Tip' = Tip \cup new
        /\ desk'.changed = desk.changed \ new
    BY <2>2, CommitsChanges
  <2>4. handoff' \in [Agent -> Handing]
    BY <1>0, <2>2 DEF Handing
  <2>5. CheckoutTyped'
    BY <1>0, <2>2, <2>3, <2>4 DEF CheckoutTyped
  <2>6. ~h.switched /\ Underway(h) => h.due \subseteq Tip'
    BY <2>1, <2>2, <2>3 DEF Underway
  <2> QED BY <1>7, <2>2, <2>3, <2>5, <2>6
<1>9. CASE Push(a)
  <2>1. /\ handoff' = [handoff EXCEPT ![a] = [h EXCEPT !.at = "pushed"]]
        /\ UNCHANGED <<docOf, holder, desk>> /\ h.at = "push"
        /\ origin' = [origin EXCEPT ![h.on] = Tip]
        /\ origin[h.on] \subseteq Tip /\ h.on \in Line
    BY <1>1, <1>9 DEF Push, Turns, Behind, Handing
  <2>2. handoff' \in [Agent -> Handing]
    BY <1>0, <2>1 DEF Handing
  <2>3. /\ origin' \in [Line -> SUBSET Piece]
        /\ \A k \in Line : origin[k] \subseteq origin'[k]
    BY <1>0, <2>1
  <2>4. CheckoutTyped'
    BY <1>0, <2>1, <2>2, <2>3 DEF CheckoutTyped
  <2>5. NothingLost
    BY <2>1, <2>3 DEF NothingLost, Tip
  <2>6. ~h.switched /\ Underway(h) => h.due \subseteq Tip'
    BY <2>1 DEF Underway, Tip
  <2> QED BY <1>7, <2>1, <2>4, <2>5, <2>6
<1>10. CASE NoCommit(a) \/ PushLost(a)
  <2>1. CASE NoCommit(a)
    BY <1>4, <2>1 DEF NoCommit, Underway
  <2>2. CASE PushLost(a)
    BY <1>4, <2>2 DEF PushLost, Underway
  <2> QED BY <1>10, <2>1, <2>2
<1>11. CASE Verify(a)
  <2>1. ChangedIn(h.docs) = {} /\ Sees(a, "verify", "fetch")
    BY <1>1, <1>11 DEF Verify, Landed
  <2>2. h.at = "verify" /\ Underway(h) => h.due \subseteq Tip
    BY <2>1 DEF Underway
  <2> QED BY <1>4, <2>1, <2>2
<1>12. CASE FastForward(a)
  BY <1>4, <1>12 DEF FastForward, Underway
<1>13. CASE UpToDate(a) \/ Counted(a)
  <2>1. Tip \subseteq origin[h.on]
    BY <1>1, <1>13 DEF UpToDate, Counted, Ahead
  <2>2. h.at \in {"fetch", "pushed"} /\ Underway(h) =>
          h.due \subseteq origin[h.on]
    BY <2>1 DEF Underway
  <2>3. CASE UpToDate(a)
    BY <1>4, <2>2, <2>3 DEF UpToDate
  <2>4. CASE Counted(a)
    BY <1>4, <2>2, <2>4 DEF Counted
  <2> QED BY <1>13, <2>3, <2>4
<1>14. CASE NotCommitted(a) \/ Diverged(a) \/ Ready(a) \/ NotReady(a)
  BY <1>3, <1>14 DEF NotCommitted, Diverged, Ready, NotReady
<1> QED
  BY <1>5, <1>6, <1>8, <1>9, <1>10, <1>11, <1>12, <1>13, <1>14
  DEF HandoffStep

LEMMA HandoffStays == HandoffInv /\ [HandoffNext]_handoffVars => HandoffInv'
<1> SUFFICES ASSUME HandoffInv, [HandoffNext]_handoffVars PROVE HandoffInv'
  OBVIOUS
<1>1. CASE UNCHANGED handoffVars
  <2>1. NothingLost /\ CheckoutTyped' /\ handoff' = handoff
    BY <1>1 DEF handoffVars, NothingLost, Tip, HandoffInv, CheckoutTyped
  <2> QED BY <2>1, OthersGoOn
<1> QED BY <1>1, BesideStep, HandoffGoes DEF HandoffNext

\* The checkout, the remote, the claims and the handoffs keep their types.
THEOREM HandoffTyped == HandoffSpec => []HandoffTypes
<1>1. HandoffInv => HandoffTypes
  BY DEF HandoffInv, CheckoutTyped, HandoffTypes, Handing, Pieces
<1> QED BY <1>1, HandoffBegins, HandoffStays, PTL DEF HandoffSpec

\* For any number of sessions, files, branches and changes, whatever others do
\* in between and whichever answers are lost: unless the checkout was switched,
\* READY means that what was changed or committed when the handoff began is on
\* the remote; it commits no file outside its claims, and takes nothing off the
\* remote.
THEOREM HandoffIsTrue == HandoffSpec => ReadyIsTrue
<1> DEFINE True ==
      \A a \in Agent :
        /\ Ready(a) /\ ~handoff[a].switched =>
             handoff[a].due \subseteq origin[handoff[a].on]
        /\ CommitOnly(a) =>
             \A n \in desk'.line[desk.on] \ Tip : docOf[n] \in handoff[a].mine
        /\ Push(a) => origin[handoff[a].on] \subseteq origin'[handoff[a].on]
<1>1. HandoffInv => True
  <2> SUFFICES
        ASSUME HandoffInv, NEW a \in Agent
        PROVE  /\ Ready(a) /\ ~handoff[a].switched =>
                    handoff[a].due \subseteq origin[handoff[a].on]
               /\ CommitOnly(a) => \A n \in desk'.line[desk.on] \ Tip :
                                     docOf[n] \in handoff[a].mine
               /\ Push(a) =>
                    origin[handoff[a].on] \subseteq origin'[handoff[a].on]
    OBVIOUS
  <2>0. /\ NothingAside(handoff[a]) /\ handoff[a] \in Handing
        /\ desk \in Desk /\ origin \in [Line -> SUBSET Piece]
    BY DEF HandoffInv, CheckoutTyped
  <2>1. ASSUME Ready(a), ~handoff[a].switched
        PROVE  handoff[a].due \subseteq origin[handoff[a].on]
    <3>1. handoff[a].at = "receipt"
      BY <2>1 DEF Ready, Sees, Turns
    <3> QED BY <2>0, <2>1, <3>1 DEF NothingAside, Underway
  <2>2. ASSUME CommitOnly(a), NEW n \in desk'.line[desk.on] \ Tip
        PROVE  docOf[n] \in handoff[a].mine
    <3>1. desk'.line[desk.on] = Tip \cup ChangedIn(handoff[a].docs)
      BY <2>0, <2>2 DEF CommitOnly, Desk, Tip
    <3>2. docOf[n] \in handoff[a].docs
      BY <2>2, <3>1 DEF ChangedIn
    <3> QED BY <2>0, <3>2 DEF NothingAside
  <2>3. ASSUME Push(a)
        PROVE  origin[handoff[a].on] \subseteq origin'[handoff[a].on]
    BY <2>0, <2>3 DEF Push, Behind, Handing
  <2> QED BY <2>1, <2>2, <2>3
<1>2. HandoffInv /\ [HandoffNext]_handoffVars =>
        HandoffInv' /\ [True]_handoffVars
  BY <1>1, HandoffStays
<1> HIDE DEF True
<1>3. HandoffSpec => [][True]_handoffVars
  BY <1>2, HandoffBegins, PTL DEF HandoffSpec
<1> QED BY <1>3 DEF ReadyIsTrue, True
=============================================================================
