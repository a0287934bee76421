------------------------------ MODULE Publish ------------------------------
(***************************************************************************)
(* A release of the plugin (release.py, main): preflight, the release      *)
(* train, the tag and the pushes, the GitHub release, the pull request on  *)
(* the Homebrew tap, and the install in every harness, verified.  Sessions *)
(* share one checkout, whose HEAD moves under them; nothing but the train, *)
(* a claim on the board, keeps two releases apart, and a run that only     *)
(* installs does not take it.  Commits are linear: a push is a fast        *)
(* forward if no ref goes back.  A stage that fails stops the run, or is   *)
(* tried again from its start; the number of tries is not bounded here.    *)
(***************************************************************************)
EXTENDS Naturals, Sequences

CONSTANTS
  Releaser,  \* sessions that run release.py
  Remotes,   \* the push remotes in their order, "origin" among them
  Manifest,  \* Manifest[c]: the version the manifests of commit c name
  MaxRuns    \* bound on the runs begun

ASSUME PublishAssumption ==
  /\ Remotes \in Seq(STRING) /\ \E i \in DOMAIN Remotes : Remotes[i] = "origin"
  /\ Manifest \in Seq(Nat \ {0}) /\ Manifest # <<>>
  /\ MaxRuns \in Nat

\* No commit names an older version than the one before it.
ASSUME VersionsRise ==
  \A c, d \in DOMAIN Manifest : c <= d => Manifest[c] <= Manifest[d]

Remote == {Remotes[i] : i \in DOMAIN Remotes}
Revision == DOMAIN Manifest            \* in the order of history; 0 is none
Version == {Manifest[c] : c \in Revision}
Theirs == Len(Manifest) + 1            \* a commit only another machine has

\* Claude Code and Codex install from a copy of the marketplace, which tracks
\* origin's stable; Muse, which comes after them, from a bundle of the checkout.
Harnesses == <<"claude", "muse">>
Harness == {"claude", "muse"}

VARIABLES
  head,       \* HEAD of the checkout
  green,      \* the commits whose CI has passed
  tags,       \* tags[v]: the commit the checkout's tag of v names
  published,  \* published[r]: main, stable and the tags of remote r
  github,     \* GitHub's releases, and which is shown as latest
  formula,    \* the version the tap's main serves
  pr,         \* pr[v]: the tap's pull request for v
  train,      \* the session with the claim on the CHANGELOG
  offered,    \* offered[h]: what harness h would install
  installed,  \* installed[h]: the commit whose files harness h has
  release,    \* release[p]: the run of p
  runs,       \* how many were begun
  adrift      \* history: the versions and commits pushed after HEAD moved

world == <<head, green, tags, published, github, formula, pr>>
local == <<train, offered, installed>>
publishVars == <<world, local, release, runs, adrift>>

NoRun == [at |-> "idle", full |-> FALSE, version |-> 0, checked |-> 0,
          head |-> 0, todo |-> <<>>, waits |-> FALSE, verified |-> {},
          overtaken |-> {}]

PublishInit ==
  /\ head = 1 /\ green = {} /\ tags = [v \in Version |-> 0]
  /\ published = [r \in Remote |->
                   [main |-> 0, stable |-> 0, tags |-> [v \in Version |-> 0]]]
  /\ github = [made |-> {}, latest |-> 0]
  /\ formula = 0 /\ pr = [v \in Version |-> "none"]
  /\ train = {} /\ runs = 0 /\ adrift = {}
  /\ offered = [h \in Harness |-> 0] /\ installed = [h \in Harness |-> 0]
  /\ release = [p \in Releaser |-> NoRun]
-----------------------------------------------------------------------------
(* The world: the developers, CI and the tap.                              *)

NewCommit ==
  /\ head < Len(Manifest) /\ head' = head + 1
  /\ UNCHANGED <<green, tags, published, github, formula, pr, local, release,
                 runs, adrift>>

\* Main is pushed by hand, which is how CI comes to see it, or from elsewhere.
PushMain ==
  /\ \E r \in Remote, c \in {head, Theirs} :
       c > published[r].main /\ published' = [published EXCEPT ![r].main = c]
  /\ UNCHANGED <<head, green, tags, github, formula, pr, local, release, runs,
                 adrift>>

CIPasses ==
  /\ \E c \in Revision :
       c <= published["origin"].main /\ green' = green \cup {c}
  /\ UNCHANGED <<head, tags, published, github, formula, pr, local, release,
                 runs, adrift>>

\* The tap merges a pull request whose tests pass; every other one that is open
\* changes the same lines, and cannot be merged any more.
TapMerges(v) ==
  /\ pr[v] = "armed" /\ formula' = v
  /\ pr' = [w \in Version |->
              IF w = v THEN "merged"
              ELSE IF pr[w] \in {"open", "armed"} THEN "stuck" ELSE pr[w]]
  /\ UNCHANGED <<head, green, tags, published, github, local, release, runs,
                 adrift>>

\* Its tests fail, and the tap's owner closes it.
TapCloses(v) ==
  /\ pr[v] \in {"open", "armed", "stuck"} /\ pr' = [pr EXCEPT ![v] = "closed"]
  /\ UNCHANGED <<head, green, tags, published, github, formula, local, release,
                 runs, adrift>>

\* The person takes the train from a session that is not releasing.
FreeTrain ==
  /\ \E p \in train : release[p].at = "idle"
  /\ train' = {}
  /\ UNCHANGED <<world, offered, installed, release, runs, adrift>>
-----------------------------------------------------------------------------
RunGoes(p, step, run) ==
  release[p].at = step /\ release' = [release EXCEPT ![p] = run]
RunAt(p, step) == [release[p] EXCEPT !.at = step]
V(p) == release[p].version
Now(p) == Head(release[p].todo)      \* the remote, or harness, in its turn
Turned(p) == [release[p] EXCEPT !.at = "fetch", !.todo = Tail(@)]

\* Every workflow run of HEAD has completed and passed; unknown is not passed.
CIPassed == head \in green

\* The tree is clean and on the default branch; the manifests, the CHANGELOG,
\* the tag and CI agree on HEAD.  Only to install, HEAD must carry its tag.
Ready(full) ==
  LET tag == tags[Manifest[head]]
  IN IF full THEN tag \in {0, head} /\ CIPassed ELSE tag = head

Preflight(p) ==
  /\ runs < MaxRuns /\ runs' = runs + 1
  /\ \E full \in BOOLEAN :
       /\ Ready(full)
       /\ RunGoes(p, "idle",
            [NoRun EXCEPT !.at = IF full THEN "train" ELSE "fetch",
                          !.full = full, !.version = Manifest[head],
                          !.checked = head,
                          !.todo = IF full THEN <<>> ELSE Harnesses])
  /\ UNCHANGED <<world, local, adrift>>

\* The claim, refused while another session has it, however long it is silent.
HoldTrain(p) ==
  /\ train \subseteq {p} /\ train' = {p}
  /\ RunGoes(p, "train", RunAt(p, "head"))
  /\ UNCHANGED <<world, offered, installed, runs, adrift>>

\* publish reads HEAD again: what it checks afterwards is this one.
ReadHead(p) ==
  /\ RunGoes(p, "head", [release[p] EXCEPT !.at = "tag", !.head = head])
  /\ UNCHANGED <<world, local, runs, adrift>>

\* git tags HEAD as it is now, unless the tag is there.
CreateTag(p) ==
  /\ RunGoes(p, "tag", [release[p] EXCEPT !.at = "push", !.todo = Remotes])
  /\ tags' = [tags EXCEPT ![V(p)] = IF @ = 0 THEN head ELSE @]
  /\ UNCHANGED <<head, green, published, github, formula, pr, local, runs,
                 adrift>>

FastForward(r, v) ==
  /\ published[r].main <= head /\ published[r].stable <= head
  /\ published[r].tags[v] \in {0, tags[v]}

\* One atomic push to the next remote: it moves main, stable and the tag, or is
\* refused or lost and moves nothing.  HEAD is what git finds then.
Push(p) ==
  /\ RunGoes(p, "push", RunAt(p, "readback"))
  /\ \/ UNCHANGED <<published, adrift>>
     \/ LET r == Now(p)
        IN /\ FastForward(r, V(p))
           /\ published' = [published EXCEPT
                ![r] = [main |-> head, stable |-> head,
                        tags |-> [@.tags EXCEPT ![V(p)] = tags[V(p)]]]]
           /\ adrift' = IF head = release[p].checked THEN adrift
                        ELSE adrift \cup {<<V(p), head>>}
  /\ UNCHANGED <<head, green, tags, github, formula, pr, local, runs>>

\* Mutant: only main is read back.
MainAsPushed(p, r) == published[r].main = release[p].head

\* Success is read back from the remote, never from an exit status.
AsPushed(p, r) ==
  LET u == published[r]
  IN u.main = release[p].head /\ u.stable = release[p].head
       /\ u.tags[V(p)] = release[p].head

ReadBack(p) ==
  /\ RunGoes(p, "readback",
             [release[p] EXCEPT !.todo = Tail(@),
                !.at = IF Len(release[p].todo) = 1 THEN "github" ELSE "push"])
  /\ AsPushed(p, Now(p))
  /\ UNCHANGED <<world, local, runs, adrift>>

\* The GitHub release, created unless it is there; GitHub may create it and
\* answer that it failed.  It must then be listed as the latest.
CreateRelease(p) ==
  /\ RunGoes(p, "github", RunAt(p, "latest"))
  /\ published["origin"].tags[V(p)] # 0
  /\ github' = IF V(p) \in github.made THEN github
               ELSE [made |-> github.made \cup {V(p)}, latest |-> V(p)]
  /\ UNCHANGED <<head, green, tags, published, formula, pr, local, runs,
                 adrift>>

SeenLatest(p) ==
  /\ RunGoes(p, "latest", RunAt(p, "tap")) /\ github.latest = V(p)
  /\ UNCHANGED <<world, local, runs, adrift>>

Serves(p) ==
  /\ RunGoes(p, "tap", [release[p] EXCEPT !.at = "fetch", !.todo = Harnesses])
  /\ formula = V(p)
  /\ UNCHANGED <<world, local, runs, adrift>>

\* The pull request of an earlier try is taken if it is open.
OpenPR(p) ==
  /\ RunGoes(p, "tap", RunAt(p, "arm")) /\ formula # V(p)
  /\ pr' = [pr EXCEPT ![V(p)] =
              IF @ \in {"none", "merged", "closed"} THEN "open" ELSE @]
  /\ UNCHANGED <<head, green, tags, published, github, formula, local, runs,
                 adrift>>

Arm(p) ==
  /\ RunGoes(p, "arm", [release[p] EXCEPT !.at = "fetch", !.todo = Harnesses,
                                       !.waits = TRUE])
  /\ pr[V(p)] # "closed"
  /\ pr' = [pr EXCEPT ![V(p)] = IF @ = "open" THEN "armed" ELSE @]
  /\ UNCHANGED <<head, green, tags, published, github, formula, local, runs,
                 adrift>>
-----------------------------------------------------------------------------
(* Install and verify.                                                     *)

\* The harness's copy of the marketplace is updated, or Muse's bundle exported.
Fetch(p) ==
  /\ release[p].todo # <<>> /\ RunGoes(p, "fetch", RunAt(p, "put"))
  /\ offered' = [offered EXCEPT
       ![Now(p)] = IF Now(p) = "muse" THEN tags[V(p)]
                   ELSE published["origin"].stable]
  /\ UNCHANGED <<world, train, installed, runs, adrift>>

\* Another run may have refreshed it in between.
PutFiles(p) ==
  LET h == Now(p)
  IN /\ release[p].at = "put" /\ offered[h] # 0
     /\ installed' = [installed EXCEPT ![h] = offered[h]]
     /\ release' = [q \in Releaser |->
          IF q = p THEN RunAt(p, "verify")
          ELSE [release[q] EXCEPT !.overtaken =
                  IF h \in release[q].verified THEN @ \cup {h} ELSE @]]
     /\ UNCHANGED <<world, train, offered, runs, adrift>>

\* The installed files are compared with those of the tag.
Verify(p) ==
  LET h == Now(p)
  IN /\ RunGoes(p, "verify",
          [Turned(p) EXCEPT !.verified = @ \cup {h}])
     /\ installed[h] = tags[V(p)] /\ Manifest[installed[h]] = V(p)
     /\ UNCHANGED <<world, local, runs, adrift>>

\* A harness whose commands fail, or whose files differ, is passed over.
NotVerified(p) ==
  /\ RunGoes(p, "put", Turned(p)) \/ RunGoes(p, "verify", Turned(p))
  /\ UNCHANGED <<world, local, runs, adrift>>

\* Every harness has had its turn: the train is released.
LeaveTrain(p) ==
  /\ release[p].todo = <<>> /\ RunGoes(p, "fetch", RunAt(p, "tell"))
  /\ train' = IF release[p].full THEN train \ {p} ELSE train
  /\ UNCHANGED <<world, offered, installed, runs, adrift>>

\* The pull request the run armed has merged, and the tap serves its version.
Merged(p) == release[p].waits => pr[V(p)] = "merged" /\ formula = V(p)

\* "release complete": every harness verified, doctor healthy, and what the
\* release asked of the tap merged and served.
Complete(p) ==
  /\ release[p].verified = Harness /\ Merged(p)
  /\ RunGoes(p, "tell", NoRun)
  /\ UNCHANGED <<world, local, runs, adrift>>

\* It stops, keeping the train if it has it, says that the release is not
\* complete, or is killed.
Stops(p) ==
  /\ RunGoes(p, release[p].at, NoRun) /\ release[p] # NoRun
  /\ UNCHANGED <<world, local, runs, adrift>>

StageStart(step) ==
  CASE step \in {"tag", "push", "readback"} -> "head"
    [] step = "latest" -> "github"
    [] step = "arm" -> "tap"
    [] OTHER -> step

\* GitHub answers with a server error: the stage runs again.
Retry(p) ==
  /\ release[p].at \in {"tag", "push", "readback", "latest", "arm"}
  /\ RunGoes(p, release[p].at,
          [release[p] EXCEPT !.at = StageStart(@), !.todo = <<>>])
  /\ UNCHANGED <<world, local, runs, adrift>>

PublishNext ==
  \/ NewCommit \/ PushMain \/ CIPasses \/ FreeTrain
  \/ \E v \in Version : TapMerges(v) \/ TapCloses(v)
  \/ \E p \in Releaser :
       \/ Preflight(p) \/ HoldTrain(p) \/ ReadHead(p) \/ CreateTag(p)
       \/ Push(p) \/ ReadBack(p)
       \/ CreateRelease(p) \/ SeenLatest(p)
       \/ Serves(p) \/ OpenPR(p) \/ Arm(p)
       \/ Fetch(p) \/ PutFiles(p) \/ Verify(p)
       \/ NotVerified(p) \/ LeaveTrain(p) \/ Complete(p)
       \/ Stops(p) \/ Retry(p)

PublishSpec == PublishInit /\ [][PublishNext]_publishVars
-----------------------------------------------------------------------------
Run == [at : {"idle", "train", "head", "tag", "push", "readback", "github",
              "latest", "tap", "arm", "fetch", "put", "verify", "tell"},
        full : BOOLEAN, version : Version \cup {0},
        checked : Revision \cup {0}, head : Revision \cup {0},
        todo : Seq(Remote \cup Harness), waits : BOOLEAN,
        verified : SUBSET Harness, overtaken : SUBSET Harness]

PublishTypes ==
  /\ head \in Revision /\ green \subseteq Revision
  /\ tags \in [Version -> Revision \cup {0}]
  /\ published \in [Remote ->
       [main : 0..Theirs, stable : Revision \cup {0},
        tags : [Version -> Revision \cup {0}]]]
  /\ github \in [made : SUBSET Version, latest : Version \cup {0}]
  /\ formula \in Version \cup {0}
  /\ pr \in [Version -> {"none", "open", "armed", "stuck", "merged", "closed"}]
  /\ train \subseteq Releaser
  /\ offered \in [Harness -> Revision \cup {0}]
  /\ installed \in [Harness -> Revision \cup {0}]
  /\ release \in [Releaser -> Run]
  /\ runs \in 0..MaxRuns /\ adrift \subseteq Version \X Revision

Forward(v, w) == w >= v \/ \E c \in Revision : <<w, c>> \in adrift

\* What stable names has passed CI, and is what its version's manifests say,
\* unless HEAD moved between the preflight of the run that published it and the
\* push (release.py:130, "Nothing is pushed or installed unless problems is
\* empty").
StableIsChecked ==
  \A r \in Remote :
    LET c == published[r].stable
    IN \/ c = 0
       \/ \E v \in Version : <<v, c>> \in adrift
       \/ c \in green /\ published[r].tags[Manifest[c]] = c

\* The tap never goes back to an older release, though pull requests outlive
\* the runs that opened them.
TapForward == Forward(formula, formula')

\* A run that says its release is complete leaves every harness with the files
\* of the tag, unless another run installed there since; and if it published,
\* every remote has the tag, with stable at it or later, and GitHub and Homebrew
\* show this release or a later one (release.py:26, "Exit 0 only when every
\* found harness verified").
CompleteIsTrue ==
  \A p \in Releaser : Complete(p) =>
    /\ \A h \in Harness \ release[p].overtaken : installed[h] = tags[V(p)]
    /\ release[p].full =>
         /\ \A r \in Remote : published[r].tags[V(p)] = tags[V(p)]
                              /\ published[r].stable >= tags[V(p)]
         /\ Forward(V(p), github.latest) /\ Forward(V(p), formula)

\* The three, of every step.
PublishKept ==
  [][StableIsChecked' /\ TapForward /\ CompleteIsTrue]_publishVars
=============================================================================
