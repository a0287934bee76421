------------------------------ MODULE Worktree ------------------------------
(***************************************************************************)
(* One linked worktree of a shared repository (worktree.py): `create`      *)
(* claims its folder and adds it, `retire` removes it and its branches     *)
(* once their work is on the remote's default branch, `land` moves the     *)
(* main checkout along.  Several sessions run these commands at once; the  *)
(* checks and the git commands between which others write, commit, push    *)
(* and merge are steps of their own.                                       *)
(*                                                                         *)
(* Work is counted in pieces; a commit, a branch or a folder is the set of *)
(* the pieces it holds.  So _merged, in each of its four ways, is that the *)
(* default branch holds every piece.  The claim on the folder changes in   *)
(* one step, as ClaimPromise has it.                                       *)
(***************************************************************************)
EXTENDS Naturals

CONSTANTS
  User,      \* sessions
  NoUser,    \* nobody
  NoBranch,  \* the absence of a branch
  MaxWork    \* bound on the pieces of work

ASSUME WorktreeAssumption ==
  /\ NoUser \notin User /\ MaxWork \in Nat
  /\ \A pieces \in SUBSET (1..MaxWork) : pieces # NoBranch

VARIABLES
  made,   \* the pieces of work made so far are 1..made
  repo,   \* the folder, the branches and the remote
  owner,  \* who claims the folder
  stale,  \* the sessions not seen for STALE_SECONDS
  task,   \* task[u]: the command of session u and what it has read
  late    \* work put where a running retire had already looked

worktreeVars == <<made, repo, owner, stale, task, late>>

Work == 1..MaxWork
Branch == (SUBSET Work) \cup {NoBranch}
Repo == [there : BOOLEAN,        \* the worktree exists,
         attached : BOOLEAN,     \* and is on the branch `topic`
         detached : SUBSET Work, \* or on commits of its own
         edits : SUBSET Work,    \* uncommitted files in it
         ignored : SUBSET Work,  \* files in it that git ignores
         topic : Branch, main : SUBSET Work,           \* local branches
         remoteTopic : Branch, remoteMain : SUBSET Work]

NoTask == [at |-> "idle", head |-> {}, attached |-> FALSE, had |-> FALSE]
Held(branch) == IF branch = NoBranch THEN {} ELSE branch
TreeHead == IF repo.attached THEN Held(repo.topic) ELSE repo.detached

WorktreeInit ==
  /\ made = 0
  /\ repo = [there |-> TRUE, attached |-> TRUE, detached |-> {}, edits |-> {},
             ignored |-> {}, topic |-> {}, main |-> {}, remoteTopic |-> {},
             remoteMain |-> {}]
  /\ owner = NoUser /\ stale = {}
  /\ task = [u \in User |-> NoTask]
  /\ late = {}
-----------------------------------------------------------------------------
(* What others do to the folder, the branch and the remote                 *)

\* Some command has come past these steps.
Past(steps) == \E u \in User : task[u].at \in steps

\* A new piece of work; it is late if a retire will not look there again.
Make(steps) ==
  /\ made < MaxWork /\ made' = made + 1
  /\ late' = IF Past(steps) THEN late \cup {made'} ELSE late

Edit == repo.there /\ Make({}) /\ repo' = [repo EXCEPT !.edits = @ \cup {made'}]

\* git removes ignored files with the folder.
WriteIgnored ==
  /\ repo.there /\ Make({"fetch", "remove"})
  /\ repo' = [repo EXCEPT !.ignored = @ \cup {made'}]

\* The branch is checked out elsewhere, committed to and left again.
CommitElsewhere ==
  /\ repo.topic # NoBranch /\ ~(repo.there /\ repo.attached)
  /\ Make({"delete"})
  /\ repo' = [repo EXCEPT !.topic = @ \cup {made'}]

PushElsewhere ==
  /\ repo.remoteTopic # NoBranch /\ Make({})
  /\ repo' = [repo EXCEPT !.remoteTopic = @ \cup {made'}]

CommitWork ==
  /\ repo.edits # {}
  /\ repo.attached => repo.topic # NoBranch
  /\ repo' = IF repo.attached
             THEN [repo EXCEPT !.topic = @ \cup repo.edits, !.edits = {}]
             ELSE [repo EXCEPT !.detached = @ \cup repo.edits, !.edits = {}]
  /\ late' = IF Past(IF repo.attached THEN {"delete"}
                     ELSE {"ask", "status", "fetch", "remove"})
             THEN late \cup repo.edits ELSE late
  /\ made' = made

DetachHead ==
  /\ repo.there /\ repo.attached
  /\ repo' = [repo EXCEPT !.attached = FALSE, !.detached = Held(repo.topic)]
  /\ UNCHANGED <<made, late>>

PushWork ==
  /\ repo.topic # NoBranch /\ Held(repo.remoteTopic) \subseteq repo.topic
  /\ repo' = [repo EXCEPT !.remoteTopic = repo.topic]
  /\ UNCHANGED <<made, late>>

MergeWork ==
  /\ repo' = [repo EXCEPT !.remoteMain = @ \cup Held(repo.remoteTopic)]
  /\ UNCHANGED <<made, late>>

GoQuiet(u) ==
  /\ task[u] = NoTask
  /\ stale' = stale \cup {u}
  /\ UNCHANGED <<made, repo, owner, task, late>>

Others ==
  /\ \/ Edit \/ WriteIgnored \/ CommitElsewhere \/ PushElsewhere
     \/ CommitWork \/ DetachHead \/ PushWork \/ MergeWork
  /\ UNCHANGED <<owner, stale, task>>
-----------------------------------------------------------------------------
(* The commands: each step reads or runs one thing                         *)

\* Session u, being at one step, goes on to the next.
Goes(u, step, next) ==
  /\ task[u].at = step
  /\ task' = [task EXCEPT ![u] =
                IF next = "idle" THEN NoTask ELSE [@ EXCEPT !.at = next]]

Reads(u, step, next) ==
  Goes(u, step, next) /\ UNCHANGED <<made, repo, owner, stale, late>>

Runs(u, step, next, new) ==
  Goes(u, step, next) /\ repo' = new /\ UNCHANGED <<made, owner, stale, late>>

Owns(u, step, next, new) ==
  Goes(u, step, next) /\ owner' = new /\ UNCHANGED <<made, repo, stale, late>>

Start(u, next) ==
  /\ task[u] = NoTask
  /\ task' = [task EXCEPT ![u] = [at |-> next, head |-> TreeHead,
                attached |-> repo.attached, had |-> owner = u]]
  /\ stale' = stale \ {u}
  /\ UNCHANGED <<made, repo, owner, late>>

\* create: the folder is free; claim it, add the worktree, or let it go.
Create(u) == ~repo.there /\ Start(u, "claim")
Free(u) == owner \in {NoUser, u} \cup stale
ClaimTree(u) == Free(u) /\ Owns(u, "claim", "add", u)
Conflict(u) == ~Free(u) /\ Reads(u, "claim", "idle")
AddTree(u) ==
  /\ ~repo.there
  /\ Runs(u, "add", "idle", [repo EXCEPT !.there = TRUE, !.attached = TRUE,
                                         !.topic = Held(repo.topic)])
AddFails(u) == Reads(u, "add", IF task[u].had THEN "idle" ELSE "undo")
UndoClaim(u) ==
  Owns(u, "undo", "idle", IF owner = u THEN NoUser ELSE owner)

\* retire: HEAD and branch are read from the list, then claims, then status,
\* then the remote's default branch, fetched.
Retire(u) == repo.there /\ Start(u, "ask")
Ask(u) == Free(u) /\ Reads(u, "ask", "status")
Claimed(u) == ~Free(u) /\ Reads(u, "ask", "idle")
Clean(u) ==
  repo.edits = {} /\ repo.ignored = {} /\ Reads(u, "status", "fetch")
NotClean(u) ==
  repo.edits \cup repo.ignored # {} /\ Reads(u, "status", "idle")
Merged(u) ==
  task[u].head \subseteq repo.remoteMain /\ Reads(u, "fetch", "remove")
NotMerged(u) ==
  ~(task[u].head \subseteq repo.remoteMain) /\ Reads(u, "fetch", "idle")

\* git refuses to remove a folder with uncommitted files, never ignored ones.
Remove(u) ==
  /\ repo.there /\ repo.edits = {}
  /\ Runs(u, "remove", "branch", [repo EXCEPT !.there = FALSE, !.ignored = {},
                                      !.attached = FALSE, !.detached = {}])
RemoveFails(u) ==
  ~(repo.there /\ repo.edits = {}) /\ Reads(u, "remove", "idle")

\* The branch goes only if it is where it was verified, and nowhere checked out.
Verified(u) == task[u].attached /\ repo.topic = task[u].head
StillThere(u) == Verified(u) /\ Reads(u, "branch", "delete")
MovedOn(u) == ~Verified(u) /\ Reads(u, "branch", "remote")
DeleteBranch(u) ==
  Runs(u, "delete", "remote", IF repo.there /\ repo.attached THEN repo
                              ELSE [repo EXCEPT !.topic = NoBranch])

\* Mutant: the remote branch is deleted by its name, without the lease.
Unleased(u) == task[u].attached

\* The push deletes the remote branch while it is at the verified head.
Leased(u) == task[u].attached /\ repo.remoteTopic = task[u].head
DeleteRemote(u) ==
  /\ Leased(u)
  /\ Runs(u, "remote", "claims", [repo EXCEPT !.remoteTopic = NoBranch])
KeepRemote(u) == Reads(u, "remote", "claims")

\* Claims of its own and of stale sessions under the folder are dropped.
DropClaims(u) ==
  Owns(u, "claims", "land", IF Free(u) THEN NoUser ELSE owner)

\* land: the main checkout moves forward to the remote's default branch, unless
\* it is on another branch, has changes, or holds commits the remote has not.
Land(u) ==
  /\ repo.main \subseteq repo.remoteMain
  /\ Runs(u, "land", "idle", [repo EXCEPT !.main = repo.remoteMain])
NotLanded(u) == Reads(u, "land", "idle")

\* A command fails, or the session that runs it is killed.
Dies(u) == task[u] # NoTask /\ Reads(u, task[u].at, "idle")

Command(u) ==
  \/ Create(u) \/ ClaimTree(u) \/ Conflict(u) \/ AddTree(u) \/ AddFails(u)
  \/ UndoClaim(u)
  \/ Retire(u) \/ Ask(u) \/ Claimed(u) \/ Clean(u) \/ NotClean(u)
  \/ Merged(u) \/ NotMerged(u) \/ Remove(u) \/ RemoveFails(u)
  \/ StillThere(u) \/ MovedOn(u) \/ DeleteBranch(u) \/ DeleteRemote(u)
  \/ KeepRemote(u) \/ DropClaims(u) \/ Land(u) \/ NotLanded(u) \/ Dies(u)

WorktreeNext == Others \/ \E u \in User : GoQuiet(u) \/ Command(u)

WorktreeSpec == WorktreeInit /\ [][WorktreeNext]_worktreeVars
-----------------------------------------------------------------------------
WorktreeTypes ==
  /\ made \in 0..MaxWork /\ repo \in Repo
  /\ owner \in User \cup {NoUser} /\ stale \subseteq User
  /\ task \in [User -> [at : {"idle", "claim", "add", "undo", "ask", "status",
                              "fetch", "remove", "branch", "delete", "remote",
                              "claims", "land"},
                        head : SUBSET Work, attached : BOOLEAN, had : BOOLEAN]]
  /\ late \subseteq Work

\* Whatever is written, committed, pushed and merged while commands run, no
\* work is lost but what came after the last look at its place: ignored files
\* written after the status, commits made on a detached HEAD after its HEAD
\* was read, commits on the branch between its check and its deletion
\* (worktree.py:184, "a worktree whose work is safely on the remote").
WorkKept ==
  \A w \in 1..made \ late :
    \/ w \in repo.edits \cup repo.ignored \cup repo.detached
    \/ w \in Held(repo.topic) \cup Held(repo.remoteTopic)
    \/ w \in repo.main \cup repo.remoteMain
=============================================================================
