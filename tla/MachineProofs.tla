---------------------------- MODULE MachineProofs ----------------------------
(***************************************************************************)
(* Theorems about what leaves a checkout, or comes into it: installs and   *)
(* the move of the board that they make, the release of the plugin, the    *)
(* check of a commit, the brake on deploys and the sync of the sessions.   *)
(* The components share no variable, and each theorem is about the         *)
(* specification of one of them.                                           *)
(***************************************************************************)
EXTENDS Install, BoardMove, Publish, CommitCheck, Deploy, SessionSync,
        SequenceTheorems, TLAPS
-----------------------------------------------------------------------------
(* Install                                                                 *)

\* InstallKept for any number of installs and any releases.

\* Only a release that has its folder is about to be switched to.
SwitchesToBuilt ==
  \A p \in Process : install[p].at = "switch" => install[p].plugin \in built

\* An install that runs has a plugin.
HasPlugin ==
  \A p \in Process : install[p].at # "idle" => install[p].plugin \in Release

\* What a hook compared still holds until another install overtakes it.
StillNewer ==
  \A p \in Process :
    /\ install[p].at \in {"hash", "build", "place", "switch"}
    /\ install[p].forward /\ ~install[p].overtaken
    => current < install[p].plugin

\* `current` is built because a switch goes to what is; a switch back needs the
\* comparison that preceded it to be void.
InstallInv ==
  /\ InstallTypes /\ CurrentIsBuilt
  /\ SwitchesToBuilt /\ HasPlugin /\ StillNewer

InstallSteps == {"idle", "version", "hash", "build", "place", "switch"}
InstallRecord == [at : InstallSteps, plugin : Release \cup {0}, forward : BOOLEAN,
           overtaken : BOOLEAN]

\* What the record of an install must say for the invariant.
InstallRight(r, folders) ==
  /\ r \in InstallRecord
  /\ r.at # "idle" => r.plugin \in Release
  /\ r.at = "switch" => r.plugin \in folders
  /\ /\ r.at \in {"hash", "build", "place", "switch"}
     /\ r.forward /\ ~r.overtaken
     => current < r.plugin

\* A step that moves one install to a right record, and at most adds a folder.
LEMMA OneMoves ==
  ASSUME InstallInv, NEW p \in Process, NEW r, InstallRight(r, built'),
         install' = [install EXCEPT ![p] = r], current' = current,
         built \subseteq built', built' \subseteq Release,
         starts' \in 0..MaxStarts
  PROVE  InstallInv'
<1>1. install' \in [Process -> InstallRecord]
  BY DEF InstallInv, InstallTypes, InstallRight, InstallRecord, InstallSteps
<1>2. InstallTypes'
  BY <1>1 DEF InstallInv, InstallTypes, InstallRecord, InstallSteps
<1>3. CurrentIsBuilt'
  BY DEF InstallInv, CurrentIsBuilt
<1>4. \A q \in Process : install'[q] = IF q = p THEN r ELSE install[q]
  BY DEF InstallInv, InstallTypes
<1>5. SwitchesToBuilt'
  BY <1>4 DEF InstallInv, SwitchesToBuilt, InstallRight
<1>6. StillNewer'
  BY <1>4 DEF InstallInv, StillNewer, InstallRight
<1>7. HasPlugin'
  BY <1>4 DEF InstallInv, HasPlugin, InstallRight
<1> QED BY <1>2, <1>3, <1>5, <1>6, <1>7 DEF InstallInv

\* The record of an install that begins, goes on or is over.
LEMMA InstallRecords ==
  ASSUME InstallInv, NEW p \in Process
  PROVE  /\ install[p] \in InstallRecord /\ InstallRight(install[p], built)
         /\ \A folders : InstallRight(NoInstall, folders)
         /\ \A step \in InstallSteps :
              LET r == AtStep(p, step) IN
              /\ r \in InstallRecord /\ r.at = step
              /\ r.plugin = install[p].plugin /\ r.forward = install[p].forward
              /\ r.overtaken = install[p].overtaken
<1>1. install[p] \in InstallRecord
  BY DEF InstallInv, InstallTypes, InstallRecord, InstallSteps
<1>2. InstallRight(install[p], built)
  BY <1>1 DEF InstallInv, SwitchesToBuilt, HasPlugin, StillNewer, InstallRight
<1>3. \A folders : InstallRight(NoInstall, folders)
  BY DEF NoInstall, InstallRight, InstallRecord, InstallSteps
<1>4. ASSUME NEW step \in InstallSteps
      PROVE  LET r == AtStep(p, step) IN
             /\ r \in InstallRecord /\ r.at = step
             /\ r.plugin = install[p].plugin /\ r.forward = install[p].forward
             /\ r.overtaken = install[p].overtaken
  BY <1>1 DEF AtStep, InstallRecord, InstallSteps
<1> QED BY <1>1, <1>2, <1>3, <1>4

\* The invariant survives each step of each install.
LEMMA InstallStep == InstallInv /\ [InstallNext]_installVars => InstallInv'
<1> SUFFICES ASSUME InstallInv, [InstallNext]_installVars PROVE InstallInv'
  OBVIOUS
<1>1. /\ built \subseteq Release /\ starts \in 0..MaxStarts
      /\ \A r \in Release : r \in Nat
  BY InstallAssumption DEF InstallInv, InstallTypes
<1>2. CASE UNCHANGED installVars
  BY <1>2 DEF InstallInv, InstallTypes, CurrentIsBuilt, SwitchesToBuilt,
              HasPlugin, StillNewer, installVars
<1>3. CASE InstallNext
  <2> PICK p \in Process :
        \/ BeginInstall(p) \/ VersionNewer(p) \/ Kept(p) \/ Wanted(p)
        \/ Installed(p) \/ HasRelease(p) \/ Stage(p) \/ Place(p) \/ Switch(p)
        \/ InstallDies(p)
    BY <1>3 DEF InstallNext
  <2>1. CASE BeginInstall(p)
    <3> DEFINE Begun(v, hook) == [at |-> "version", plugin |-> v,
                                  forward |-> hook, overtaken |-> FALSE]
    <3>1. PICK v \in Release, hook \in BOOLEAN :
            install' = [install EXCEPT ![p] = Begun(v, hook)]
      BY <2>1 DEF BeginInstall, Goes
    <3>2. current' = current /\ built' = built
      BY <2>1 DEF BeginInstall
    <3>3. starts' \in 0..MaxStarts
      BY <1>1, <2>1, InstallAssumption DEF BeginInstall
    <3>4. InstallRight(Begun(v, hook), built')
      BY DEF InstallRight, InstallRecord, InstallSteps
    <3> HIDE DEF Begun
    <3> QED BY <1>1, <3>1, <3>2, <3>3, <3>4, OneMoves
  <2>2. CASE VersionNewer(p)
    <3>1. InstallRight(AtStep(p, "hash"), built)
      BY <2>2, InstallRecords DEF VersionNewer, Goes, Newer, InstallRight, InstallSteps
    <3> QED BY <1>1, <2>2, <3>1, OneMoves DEF VersionNewer, Goes, Same
  <2>3. CASE Kept(p) \/ Installed(p) \/ InstallDies(p)
    <3>1. InstallRight(NoInstall, built)
      BY InstallRecords
    <3> QED BY <1>1, <2>3, <3>1, OneMoves
            DEF Kept, Installed, InstallDies, Goes, Same
  <2>4. CASE Wanted(p)
    <3>1. InstallRight(AtStep(p, "build"), built)
      BY <2>4, InstallRecords DEF Wanted, Goes, InstallRight, InstallSteps
    <3> QED BY <1>1, <2>4, <3>1, OneMoves DEF Wanted, Goes, Same
  <2>5. CASE HasRelease(p)
    <3>1. InstallRight(AtStep(p, "switch"), built)
      BY <2>5, InstallRecords DEF HasRelease, Goes, InstallRight, InstallSteps
    <3> QED BY <1>1, <2>5, <3>1, OneMoves DEF HasRelease, Goes, Same
  <2>6. CASE Stage(p)
    <3>1. InstallRight(AtStep(p, "place"), built)
      BY <2>6, InstallRecords DEF Stage, Goes, InstallRight, InstallSteps
    <3> QED BY <1>1, <2>6, <3>1, OneMoves DEF Stage, Goes, Same
  <2>7. CASE Place(p)
    <3>1. install[p].at = "place" /\ current' = current /\ starts' = starts
          /\ built' = built \cup {install[p].plugin}
      BY <2>7 DEF Place, Goes
    <3>2. install[p].plugin \in Release
      BY <3>1 DEF InstallInv, HasPlugin
    <3>3. InstallRight(AtStep(p, "switch"), built') /\ InstallRight(NoInstall, built')
      BY <3>1, InstallRecords DEF InstallRight, InstallSteps
    <3> QED BY <1>1, <2>7, <3>1, <3>2, <3>3, OneMoves DEF Place, Goes
  <2>8. CASE Switch(p)
    <3>1. /\ current' = install[p].plugin /\ built' = built
          /\ install[p].plugin \in built /\ starts' = starts
      BY <2>8 DEF Switch, InstallInv, SwitchesToBuilt
    <3>2. \A q \in Process :
            /\ install'[q] \in InstallRecord
            /\ install'[q].at # "idle" => install'[q].plugin \in Release
            /\ install'[q].at = "switch" => install'[q].plugin \in built
            /\ install'[q].at \in {"hash", "build", "place", "switch"}
                 => install'[q].overtaken
      <4> SUFFICES ASSUME NEW q \in Process
                   PROVE  /\ install'[q] \in InstallRecord
                          /\ install'[q].at # "idle" =>
                               install'[q].plugin \in Release
                          /\ install'[q].at = "switch" =>
                               install'[q].plugin \in built
                          /\ install'[q].at \in
                               {"hash", "build", "place", "switch"}
                             => install'[q].overtaken
        OBVIOUS
      <4>1. CASE q = p
        BY <2>8, <4>1 DEF Switch, NoInstall, InstallRecord, InstallSteps
      <4>2. CASE q # p
        <5>1. install[q] \in InstallRecord /\ InstallRight(install[q], built)
          BY InstallRecords
        <5>2. CASE install[q].at \in {"idle", "version"}
          BY <2>8, <4>2, <5>1, <5>2 DEF Switch, InstallRight
        <5>3. CASE install[q].at \notin {"idle", "version"}
          <6>1. install'[q] = [install[q] EXCEPT !.overtaken = TRUE]
            BY <2>8, <4>2, <5>3 DEF Switch
          <6>2. /\ install'[q] \in InstallRecord /\ install'[q].overtaken
                /\ install'[q].at = install[q].at
                /\ install'[q].plugin = install[q].plugin
            BY <5>1, <6>1 DEF InstallRecord
          <6> QED BY <5>1, <6>2 DEF InstallRight
        <5> QED BY <5>2, <5>3
      <4> QED BY <4>1, <4>2
    <3>3. install' \in [Process -> InstallRecord]
      BY <2>8, <3>2 DEF Switch
    <3>4. InstallTypes'
      BY <1>1, <3>1, <3>3 DEF InstallTypes, InstallRecord, InstallSteps
    <3> QED BY <3>1, <3>2, <3>4
            DEF InstallInv, CurrentIsBuilt, SwitchesToBuilt, HasPlugin,
                StillNewer
  <2> QED BY <2>1, <2>2, <2>3, <2>4, <2>5, <2>6, <2>7, <2>8
<1> QED BY <1>2, <1>3

\* Every state of installs that run, fail or are killed at any step.
THEOREM InstallSafe == InstallSpec => []InstallInv
<1>1. InstallInit => InstallInv
  BY InstallAssumption
  DEF InstallInit, InstallInv, InstallTypes, CurrentIsBuilt, SwitchesToBuilt,
      HasPlugin, StillNewer, NoInstall
<1> QED BY <1>1, InstallStep, PTL DEF InstallSpec

\* The link, the folders and the records of installs keep their types.
THEOREM InstallTyped == InstallSpec => []InstallTypes
<1>1. InstallInv => InstallTypes
  BY DEF InstallInv
<1> QED BY <1>1, InstallSafe, PTL

\* Hooks find a whole release behind `current` after every step, and a hook takes
\* an older one only when it was overtaken (install.py:117, forward_only).
THEOREM InstallsKept == InstallSpec => InstallKept
<1>1. InstallInv /\ InstallInv' /\ [InstallNext]_installVars
        => [CurrentIsBuilt' /\ BackOnlyWhenOvertaken]_installVars
  <2> SUFFICES ASSUME InstallInv, InstallInv'
               PROVE  CurrentIsBuilt' /\ BackOnlyWhenOvertaken
    OBVIOUS
  <2>1. CurrentIsBuilt'
    BY DEF InstallInv
  <2>2. BackOnlyWhenOvertaken
    BY InstallAssumption
    DEF InstallInv, InstallTypes, StillNewer, BackOnlyWhenOvertaken, Switch
  <2> QED BY <2>1, <2>2
<1> QED BY <1>1, InstallSafe, PTL DEF InstallSpec, InstallKept
-----------------------------------------------------------------------------
(* Publish                                                                 *)

\* What stable names has been checked (StableIsChecked), for any number of
\* releases, remotes and commits.

Turn == {"fetch", "put", "verify", "tell"}

\* What a run knows of the commit it checked.  Its tag names that commit, or
\* none, unless HEAD has moved on since; from the push on, there is a tag.
Knows(run) ==
  /\ run.checked \in Revision /\ run.checked <= head
  /\ run.version = Manifest[run.checked]
  /\ run.full =>
       /\ run.checked \in green
       /\ tags[run.version] \in {0, run.checked} \/ run.checked < head
  /\ ~run.full => run.at \in Turn
  /\ run.at \notin {"train", "head", "tag"} => tags[run.version] # 0

\* A run that has a turn to end has one to take; harnesses come last.
HasTurn(run) ==
  /\ run.at \in {"push", "readback", "put", "verify"} => run.todo # <<>>
  /\ run.at \in {"fetch", "put", "verify"} => run.todo \in Seq(Harness)

Right(run) ==
  run \in Run /\ HasTurn(run) /\ (run.at # "idle" => Knows(run))

RunsRight == \A p \in Releaser : Right(release[p])

\* A remote has a tag as the checkout has it, or not at all: tags never move.
TagsKept ==
  \A r \in Remote, v \in Version : published[r].tags[v] \in {0, tags[v]}

PublishInv ==
  PublishTypes /\ RunsRight /\ TagsKept /\ StableIsChecked

\* HEAD moves on, CI passes more, and a tag is made at HEAD or stays.
Grows ==
  /\ head <= head' /\ head' \in Revision
  /\ green \subseteq green' /\ adrift \subseteq adrift'
  /\ \A v \in Version : tags'[v] = tags[v] \/ (tags[v] = 0 /\ tags'[v] = head')

\* Revisions are positions of the history, and each has its version.
LEMMA History ==
  /\ Revision = 1..Len(Manifest) /\ Len(Manifest) \in Nat /\ 1 \in Revision
  /\ \A c \in Revision : Manifest[c] \in Version /\ c \in Nat \ {0}
<1>1. Revision = 1..Len(Manifest) /\ Len(Manifest) \in Nat
  BY PublishAssumption DEF Revision
<1>2. Len(Manifest) # 0
  BY PublishAssumption
<1> QED BY <1>1, <1>2 DEF Version

\* What a run knows stays true while the world grows.
LEMMA KnowsStays ==
  ASSUME PublishTypes, Grows, NEW run, Right(run)
  PROVE  Right(run)'
<1>1. CASE run.at = "idle"
  BY <1>1 DEF Right, HasTurn
<1>2. CASE run.at # "idle"
  <2>1. Knows(run) /\ run \in Run
    BY <1>2 DEF Right
  <2>2. run.version \in Version
    BY <2>1, History DEF Knows
  <2>3. head \in Revision /\ tags[run.version] \in Revision \cup {0}
    BY <2>2 DEF PublishTypes
  <2>4. \/ tags'[run.version] = tags[run.version]
        \/ tags[run.version] = 0 /\ tags'[run.version] = head'
    BY <2>2 DEF Grows
  <2>5. run.checked <= head'
    BY <2>1, <2>3, History DEF Knows, Grows
  <2>6. run.full => \/ tags'[run.version] \in {0, run.checked}
                    \/ run.checked < head'
    BY <2>1, <2>3, <2>4, <2>5, History DEF Knows, Grows
  <2>7. tags[run.version] # 0 => tags'[run.version] # 0
    BY <2>3, <2>4, History DEF Grows
  <2>8. Knows(run)'
    BY <2>1, <2>5, <2>6, <2>7 DEF Knows, Grows
  <2> QED BY <2>1, <2>8 DEF Right, HasTurn
<1> QED BY <1>1, <1>2

\* A step of the world leaves every run right.
LEMMA WorldStep ==
  ASSUME PublishTypes, RunsRight, Grows, release' = release
  PROVE  RunsRight'
BY KnowsStays DEF RunsRight

\* A step of one run leaves every run right, if its own new record is.
LEMMA RunStep ==
  ASSUME PublishTypes, RunsRight, Grows, NEW p \in Releaser, NEW run,
         Right(run)', release' = [release EXCEPT ![p] = run]
  PROVE  RunsRight' /\ release' \in [Releaser -> Run]
<1>1. release \in [Releaser -> Run] /\ run \in Run
  BY DEF PublishTypes, Right
<1>2. \A q \in Releaser : release'[q] = IF q = p THEN run ELSE release[q]
  BY <1>1
<1>3. RunsRight'
  BY <1>2, KnowsStays DEF RunsRight
<1> QED BY <1>1, <1>3

\* What the remotes have is judged as before, unless a push moved it.
LEMMA RemotesStay ==
  ASSUME PublishTypes, TagsKept, StableIsChecked, Grows,
         \A r \in Remote : /\ published'[r].stable = published[r].stable
                           /\ published'[r].tags = published[r].tags
  PROVE  TagsKept' /\ StableIsChecked'
<1>1. TagsKept'
  BY DEF TagsKept, Grows
<1>2. StableIsChecked'
  BY DEF StableIsChecked, Grows
<1> QED BY <1>1, <1>2

\* The new record of a run that goes on: the commit it checked is the same.
LEMMA GoesOn ==
  ASSUME PublishTypes, RunsRight, NEW p \in Releaser, release[p].at # "idle",
         NEW run \in Run, HasTurn(run),
         run.full = release[p].full, run.version = release[p].version,
         run.checked = release[p].checked,
         ~run.full => run.at \in Turn,
         run.at \notin {"train", "head", "tag"} =>
           tags[run.version] # 0
  PROVE  Right(run)
BY DEF RunsRight, Right, Knows

\* An idle record is right.
LEMMA NoRunRight == Right(NoRun)
<1>1. NoRun \in Run
  BY DEF NoRun, Run
<1> QED BY <1>1 DEF NoRun, Right, HasTurn

\* The records of a run.
LEMMA ReleaseRecords ==
  ASSUME PublishTypes, RunsRight, NEW p \in Releaser
  PROVE  /\ release[p] \in Run /\ HasTurn(release[p])
         /\ release[p].at # "idle" =>
              /\ Knows(release[p]) /\ V(p) \in Version
              /\ release[p].checked \in Nat \ {0}
         /\ release[p].at \in {"push", "readback", "put", "verify"} =>
              Tail(release[p].todo) \in Seq(Remote \cup Harness)
         /\ release[p].at \in {"put", "verify"} =>
              Now(p) \in Harness /\ Tail(release[p].todo) \in Seq(Harness)
<1>1. release[p] \in Run /\ Right(release[p])
  BY DEF PublishTypes, RunsRight
<1>2. release[p].todo \in Seq(Remote \cup Harness)
  BY <1>1 DEF Run
<1>3. release[p].at # "idle" =>
        /\ Knows(release[p]) /\ V(p) \in Version
        /\ release[p].checked \in Nat \ {0}
  BY <1>1, History DEF Right, Knows, V
<1>4. release[p].at \in {"push", "readback", "put", "verify"} =>
        release[p].todo # <<>>
  BY <1>1 DEF Right, HasTurn
<1>5. release[p].todo # <<>> =>
        Tail(release[p].todo) \in Seq(Remote \cup Harness)
  BY <1>2, HeadTailProperties
<1>6. release[p].at \in {"put", "verify"} => release[p].todo \in Seq(Harness)
  BY <1>1 DEF Right, HasTurn
<1>7. release[p].at \in {"put", "verify"} =>
        Now(p) \in Harness /\ Tail(release[p].todo) \in Seq(Harness)
  BY <1>4, <1>6, HeadTailProperties DEF Now
<1> QED BY <1>1, <1>3, <1>4, <1>5, <1>7 DEF Right

\* The types of what the invariant is not about.
OtherTypes ==
  /\ github \in [made : SUBSET Version, latest : Version \cup {0}]
  /\ formula \in Version \cup {0}
  /\ pr \in [Version -> {"none", "open", "armed", "stuck", "merged", "closed"}]
  /\ train \subseteq Releaser /\ runs \in 0..MaxRuns
  /\ offered \in [Harness -> Revision \cup {0}]
  /\ installed \in [Harness -> Revision \cup {0}]

\* A step that changes neither commits, tags nor the remotes.
Still == UNCHANGED <<head, green, tags, published, adrift>>

LEMMA StillGrows == PublishTypes /\ Still => Grows
BY History DEF Still, Grows, PublishTypes

\* Such a step, of the world or of one run.
LEMMA StillWorld ==
  ASSUME PublishInv, Still, OtherTypes', release' = release
  PROVE  PublishInv'
<1>1. Grows
  BY StillGrows DEF PublishInv
<1>2. PublishTypes'
  BY DEF PublishInv, PublishTypes, OtherTypes, Still
<1> QED BY <1>1, <1>2, WorldStep, RemotesStay DEF PublishInv, Still

LEMMA StillRun ==
  ASSUME PublishInv, Still, OtherTypes', NEW p \in Releaser, NEW run,
         Right(run), release' = [release EXCEPT ![p] = run]
  PROVE  PublishInv'
<1>1. Grows
  BY StillGrows DEF PublishInv
<1>2. Right(run)'
  BY <1>1, KnowsStays DEF PublishInv
<1>3. RunsRight' /\ release' \in [Releaser -> Run]
  BY <1>1, <1>2, RunStep DEF PublishInv
<1>4. PublishTypes'
  BY <1>3 DEF PublishInv, PublishTypes, OtherTypes, Still
<1> QED BY <1>1, <1>3, <1>4, RemotesStay DEF PublishInv, Still

\* The steps of the world.
LEMMA WorldKeeps ==
  ASSUME PublishInv,
         \/ NewCommit \/ PushMain \/ CIPasses \/ FreeTrain
         \/ \E v \in Version : TapMerges(v) \/ TapCloses(v)
  PROVE  PublishInv'
<1>1. PublishTypes /\ OtherTypes
  BY DEF PublishInv, PublishTypes, OtherTypes
<1>2. CASE NewCommit
  <2>1. head' = head + 1 /\ head' \in Revision
    BY <1>1, <1>2, History DEF NewCommit, PublishTypes
  <2>2. Grows
    BY <1>1, <1>2, <2>1, History DEF NewCommit, Grows, PublishTypes
  <2>3. PublishTypes'
    BY <1>1, <1>2, <2>1 DEF NewCommit, PublishTypes, local
  <2> QED BY <1>2, <2>2, <2>3, WorldStep, RemotesStay DEF NewCommit, PublishInv
<1>3. CASE PushMain
  <2>1. PICK r \in Remote, c \in {head, Theirs} :
          published' = [published EXCEPT ![r].main = c]
    BY <1>3 DEF PushMain
  <2>2. c \in 0..Theirs
    BY <1>1, <2>1, History DEF PublishTypes, Theirs
  <2>3. \A q \in Remote : /\ published'[q].stable = published[q].stable
                          /\ published'[q].tags = published[q].tags
    BY <1>1, <2>1 DEF PublishTypes
  <2>4. published' \in [Remote -> [main : 0..Theirs, stable : Revision \cup {0},
                                   tags : [Version -> Revision \cup {0}]]]
    <3> DEFINE Refs == [main : 0..Theirs, stable : Revision \cup {0},
                        tags : [Version -> Revision \cup {0}]]
    <3>1. published \in [Remote -> Refs]
      BY <1>1 DEF PublishTypes
    <3>2. [published[r] EXCEPT !.main = c] \in Refs
      BY <2>2, <3>1
    <3> HIDE DEF Refs
    <3>3. published' \in [Remote -> Refs]
      BY <2>1, <3>1, <3>2
    <3> QED BY <3>3 DEF Refs
  <2>5. Grows
    BY <1>1, <1>3, History DEF PushMain, Grows, PublishTypes
  <2>6. PublishTypes'
    BY <1>1, <1>3, <2>4 DEF PushMain, PublishTypes, local
  <2> QED BY <1>3, <2>3, <2>5, <2>6, WorldStep, RemotesStay
          DEF PushMain, PublishInv
<1>4. CASE CIPasses
  <2>1. green \subseteq green' /\ green' \subseteq Revision
    BY <1>1, <1>4 DEF CIPasses, PublishTypes
  <2>2. Grows
    BY <1>1, <1>4, <2>1, History DEF CIPasses, Grows, PublishTypes
  <2>3. PublishTypes'
    BY <1>1, <1>4, <2>1 DEF CIPasses, PublishTypes, local
  <2> QED BY <1>4, <2>2, <2>3, WorldStep, RemotesStay DEF CIPasses, PublishInv
<1>5. CASE FreeTrain
  <2>1. OtherTypes' /\ Still /\ release' = release
    BY <1>1, <1>5 DEF FreeTrain, OtherTypes, Still, world
  <2> QED BY <2>1, StillWorld
<1>6. CASE \E v \in Version : TapMerges(v) \/ TapCloses(v)
  <2>1. PICK v \in Version : TapMerges(v) \/ TapCloses(v)
    BY <1>6
  <2>2. Still /\ release' = release
    BY <2>1 DEF TapMerges, TapCloses, Still
  <2>3. OtherTypes'
    <3>1. pr' \in [Version ->
                    {"none", "open", "armed", "stuck", "merged", "closed"}]
      BY <1>1, <2>1 DEF TapMerges, TapCloses, OtherTypes
    <3>2. formula' \in Version \cup {0}
      BY <1>1, <2>1 DEF TapMerges, TapCloses, OtherTypes
    <3> QED BY <1>1, <2>1, <3>1, <3>2
            DEF TapMerges, TapCloses, OtherTypes, local
  <2> QED BY <2>2, <2>3, StillWorld
<1> QED BY <1>2, <1>3, <1>4, <1>5, <1>6
\* The turns that runs have.
LEMMA Turns ==
  /\ Remotes \in Seq(Remote \cup Harness) /\ Remotes # <<>>
  /\ Harnesses \in Seq(Remote \cup Harness) /\ Harnesses \in Seq(Harness)
  /\ <<>> \in Seq(Remote \cup Harness)
<1>1. Remotes \in Seq(Remote \cup Harness)
  <2>1. Len(Remotes) \in Nat /\ DOMAIN Remotes = 1..Len(Remotes)
        /\ Remotes \in [1..Len(Remotes) -> STRING]
    BY PublishAssumption, LenProperties
  <2>2. Remotes \in [1..Len(Remotes) -> Remote \cup Harness]
    BY <2>1 DEF Remote
  <2> QED BY <2>1, <2>2, SeqDef
<1>2. Remotes # <<>>
  BY PublishAssumption
<1>3. \A a, b \in Harness : <<a, b>> \in Seq(Harness)
  OBVIOUS
<1>4. Harnesses \in Seq(Harness)
  BY <1>3 DEF Harness, Harnesses
<1>5. Harnesses \in Seq(Remote \cup Harness)
  BY <1>4, SeqMonotonic
<1>6. <<>> \in Seq(Remote \cup Harness)
  BY EmptySeq
<1> QED BY <1>1, <1>2, <1>4, <1>5, <1>6

\* The steps of a run that change neither commits, tags nor the remotes.
LEMMA RunKeeps ==
  ASSUME PublishInv, NEW p \in Releaser,
         \/ Preflight(p) \/ HoldTrain(p) \/ ReadHead(p) \/ ReadBack(p)
         \/ CreateRelease(p) \/ SeenLatest(p) \/ Serves(p) \/ OpenPR(p)
         \/ Arm(p) \/ Fetch(p) \/ Verify(p) \/ NotVerified(p)
         \/ LeaveTrain(p) \/ Complete(p) \/ Stops(p) \/ Retry(p)
  PROVE  PublishInv'
<1>1. PublishTypes /\ OtherTypes /\ RunsRight
  BY DEF PublishInv, PublishTypes, OtherTypes
<1>2. /\ release[p] \in Run /\ HasTurn(release[p])
      /\ release[p].at # "idle" =>
           Knows(release[p]) /\ V(p) \in Version
      /\ release[p].at \in {"push", "readback", "put", "verify"} =>
           Tail(release[p].todo) \in Seq(Remote \cup Harness)
      /\ release[p].at \in {"put", "verify"} =>
           Now(p) \in Harness /\ Tail(release[p].todo) \in Seq(Harness)
  BY <1>1, ReleaseRecords
<1>3. /\ Harnesses \in Seq(Remote \cup Harness) /\ Harnesses \in Seq(Harness)
      /\ <<>> \in Seq(Remote \cup Harness)
  BY Turns
<1>4. CASE Preflight(p)
  <2>1. PICK full \in BOOLEAN :
          /\ Ready(full)
          /\ release' = [release EXCEPT ![p] =
               [NoRun EXCEPT !.at = IF full THEN "train" ELSE "fetch",
                             !.full = full, !.version = Manifest[head],
                             !.checked = head,
                             !.todo = IF full THEN <<>> ELSE Harnesses]]
    BY <1>4 DEF Preflight, RunGoes
  <2> DEFINE run == [NoRun EXCEPT !.at = IF full THEN "train" ELSE "fetch",
                       !.full = full, !.version = Manifest[head],
                       !.checked = head,
                       !.todo = IF full THEN <<>> ELSE Harnesses]
  <2>2. head \in Revision /\ Manifest[head] \in Version /\ head \in Nat \ {0}
    BY <1>1, History DEF PublishTypes
  <2>3. /\ run \in Run
        /\ run.at = (IF full THEN "train" ELSE "fetch")
        /\ run.full = full /\ run.version = Manifest[head]
        /\ run.checked = head
        /\ run.todo = (IF full THEN <<>> ELSE Harnesses)
    BY <1>3, <2>2 DEF NoRun, Run
  <2>4. Knows(run)
    BY <2>1, <2>2, <2>3 DEF Knows, Ready, CIPassed, Turn
  <2>5. Right(run)
    BY <1>3, <2>3, <2>4 DEF Right, HasTurn
  <2>6. runs' \in 0..MaxRuns
    <3>1. runs \in 0..MaxRuns /\ MaxRuns \in Nat
      BY <1>1, PublishAssumption DEF OtherTypes
    <3>2. runs < MaxRuns /\ runs' = runs + 1
      BY <1>4 DEF Preflight
    <3> QED BY <3>1, <3>2
  <2>7. Still /\ OtherTypes'
    BY <1>1, <1>4, <2>6 DEF Preflight, OtherTypes, Still, world, local
  <2> HIDE DEF run
  <2>8. release' = [release EXCEPT ![p] = run]
    BY <2>1 DEF run
  <2> QED BY <2>5, <2>7, <2>8, StillRun
<1>5. CASE HoldTrain(p)
  <2> DEFINE run == RunAt(p, "head")
  <2>1. release[p].at = "train" /\ release' = [release EXCEPT ![p] = run]
    BY <1>5 DEF HoldTrain, RunGoes, RunAt
  <2>2. /\ run \in Run /\ run.at = "head"
        /\ run.full = release[p].full /\ run.version = release[p].version
        /\ run.checked = release[p].checked
    BY <1>2, <1>3, <2>1 DEF RunAt, Run
  <2> HIDE DEF run
  <2>3. Right(run)
    BY <1>1, <1>2, <1>3, <2>1, <2>2, GoesOn DEF Knows, HasTurn, Turn
  <2>4. Still /\ OtherTypes'
    BY <1>1, <1>5 DEF HoldTrain, OtherTypes, Still, world, local
  <2> QED BY <2>1, <2>3, <2>4, StillRun
<1>6. CASE ReadHead(p)
  <2> DEFINE run == [release[p] EXCEPT !.at = "tag", !.head = head]
  <2>1. release[p].at = "head" /\ release' = [release EXCEPT ![p] = run]
    BY <1>6 DEF ReadHead, RunGoes, RunAt
  <2>2. head \in Revision
    BY <1>1 DEF PublishTypes
  <2>3. /\ run \in Run /\ run.at = "tag"
        /\ run.full = release[p].full /\ run.version = release[p].version
        /\ run.checked = release[p].checked
    BY <1>2, <1>3, <2>1, <2>2 DEF RunAt, Run
  <2> HIDE DEF run
  <2>4. Right(run)
    BY <1>1, <1>2, <1>3, <2>1, <2>2, <2>3, GoesOn DEF Knows, HasTurn, Turn
  <2>5. Still /\ OtherTypes'
    BY <1>1, <1>6 DEF ReadHead, OtherTypes, Still, world, local
  <2> QED BY <2>1, <2>4, <2>5, StillRun
<1>7. CASE CreateRelease(p)
  <2> DEFINE run == RunAt(p, "latest")
  <2>1. release[p].at = "github" /\ release' = [release EXCEPT ![p] = run]
    BY <1>7 DEF CreateRelease, RunGoes, RunAt
  <2>2. /\ run \in Run /\ run.at = "latest"
        /\ run.full = release[p].full /\ run.version = release[p].version
        /\ run.checked = release[p].checked
    BY <1>2, <1>3, <2>1 DEF RunAt, Run
  <2> HIDE DEF run
  <2>3. Right(run)
    BY <1>1, <1>2, <1>3, <2>1, <2>2, GoesOn DEF Knows, HasTurn, Turn
  <2>4. Still /\ OtherTypes'
    <3>1. github' \in [made : SUBSET Version, latest : Version \cup {0}]
      BY <1>1, <1>2, <1>7, <2>1 DEF CreateRelease, OtherTypes
    <3> QED BY <1>1, <1>7, <3>1 DEF CreateRelease, OtherTypes, Still, local
  <2> QED BY <2>1, <2>3, <2>4, StillRun
<1>8. CASE SeenLatest(p)
  <2> DEFINE run == RunAt(p, "tap")
  <2>1. release[p].at = "latest" /\ release' = [release EXCEPT ![p] = run]
    BY <1>8 DEF SeenLatest, RunGoes, RunAt
  <2>2. /\ run \in Run /\ run.at = "tap"
        /\ run.full = release[p].full /\ run.version = release[p].version
        /\ run.checked = release[p].checked
    BY <1>2, <1>3, <2>1 DEF RunAt, Run
  <2> HIDE DEF run
  <2>3. Right(run)
    BY <1>1, <1>2, <1>3, <2>1, <2>2, GoesOn DEF Knows, HasTurn, Turn
  <2>4. Still /\ OtherTypes'
    BY <1>1, <1>8 DEF SeenLatest, OtherTypes, Still, world, local
  <2> QED BY <2>1, <2>3, <2>4, StillRun
<1>9. CASE Serves(p)
  <2> DEFINE run == [release[p] EXCEPT !.at = "fetch", !.todo = Harnesses]
  <2>1. release[p].at = "tap" /\ release' = [release EXCEPT ![p] = run]
    BY <1>9 DEF Serves, RunGoes, RunAt
  <2>2. /\ run \in Run /\ run.at = "fetch"
        /\ run.full = release[p].full /\ run.version = release[p].version
        /\ run.checked = release[p].checked
        /\ run.todo = Harnesses
    BY <1>2, <1>3, <2>1 DEF RunAt, Run
  <2> HIDE DEF run
  <2>3. Right(run)
    BY <1>1, <1>2, <1>3, <2>1, <2>2, GoesOn DEF Knows, HasTurn, Turn
  <2>4. Still /\ OtherTypes'
    BY <1>1, <1>9 DEF Serves, OtherTypes, Still, world, local
  <2> QED BY <2>1, <2>3, <2>4, StillRun
<1>10. CASE OpenPR(p)
  <2> DEFINE run == RunAt(p, "arm")
  <2>1. release[p].at = "tap" /\ release' = [release EXCEPT ![p] = run]
    BY <1>10 DEF OpenPR, RunGoes, RunAt
  <2>2. /\ run \in Run /\ run.at = "arm"
        /\ run.full = release[p].full /\ run.version = release[p].version
        /\ run.checked = release[p].checked
    BY <1>2, <1>3, <2>1 DEF RunAt, Run
  <2> HIDE DEF run
  <2>3. Right(run)
    BY <1>1, <1>2, <1>3, <2>1, <2>2, GoesOn DEF Knows, HasTurn, Turn
  <2>4. Still /\ OtherTypes'
    <3>1. pr' \in [Version ->
                    {"none", "open", "armed", "stuck", "merged", "closed"}]
      BY <1>1, <1>10 DEF OpenPR, OtherTypes
    <3> QED BY <1>1, <1>10, <3>1 DEF OpenPR, OtherTypes, Still, local
  <2> QED BY <2>1, <2>3, <2>4, StillRun
<1>11. CASE Arm(p)
  <2> DEFINE run == [release[p] EXCEPT !.at = "fetch", !.todo = Harnesses,
                               !.waits = TRUE]
  <2>1. release[p].at = "arm" /\ release' = [release EXCEPT ![p] = run]
    BY <1>11 DEF Arm, RunGoes, RunAt
  <2>2. /\ run \in Run /\ run.at = "fetch"
        /\ run.full = release[p].full /\ run.version = release[p].version
        /\ run.checked = release[p].checked
        /\ run.todo = Harnesses
    BY <1>2, <1>3, <2>1 DEF RunAt, Run
  <2> HIDE DEF run
  <2>3. Right(run)
    BY <1>1, <1>2, <1>3, <2>1, <2>2, GoesOn DEF Knows, HasTurn, Turn
  <2>4. Still /\ OtherTypes'
    <3>1. pr' \in [Version ->
                    {"none", "open", "armed", "stuck", "merged", "closed"}]
      BY <1>1, <1>11 DEF Arm, OtherTypes
    <3> QED BY <1>1, <1>11, <3>1 DEF Arm, OtherTypes, Still, local
  <2> QED BY <2>1, <2>3, <2>4, StillRun
<1>12. CASE Fetch(p)
  <2> DEFINE run == RunAt(p, "put")
  <2>1. release[p].at = "fetch" /\ release' = [release EXCEPT ![p] = run]
    BY <1>12 DEF Fetch, RunGoes, RunAt
  <2>2. release[p].todo # <<>>
    BY <1>12 DEF Fetch
  <2>3. /\ run \in Run /\ run.at = "put"
        /\ run.full = release[p].full /\ run.version = release[p].version
        /\ run.checked = release[p].checked
        /\ run.todo = release[p].todo
    BY <1>2, <1>3, <2>1, <2>2 DEF RunAt, Run
  <2> HIDE DEF run
  <2>4. Right(run)
    BY <1>1, <1>2, <1>3, <2>1, <2>2, <2>3, GoesOn DEF Knows, HasTurn, Turn
  <2>5. Still /\ OtherTypes'
    <3>1. offered' \in [Harness -> Revision \cup {0}]
      <4>1. tags[V(p)] \in Revision \cup {0}
        BY <1>1, <1>2, <2>1 DEF PublishTypes
      <4>2. published["origin"].stable \in Revision \cup {0}
        BY <1>1, PublishAssumption DEF PublishTypes, Remote
      <4> QED BY <1>1, <1>12, <4>1, <4>2 DEF Fetch, OtherTypes
    <3> QED BY <1>1, <1>12, <3>1 DEF Fetch, OtherTypes, Still, world
  <2> QED BY <2>1, <2>4, <2>5, StillRun
<1>13. CASE Verify(p)
  <2> DEFINE run == [Turned(p) EXCEPT !.verified = @ \cup {Now(p)}]
  <2>1. release[p].at = "verify" /\ release' = [release EXCEPT ![p] = run]
    BY <1>13 DEF Verify, RunGoes, RunAt, Now
  <2>2. Now(p) \in Harness
    BY <1>2, <2>1
  <2>3. /\ run \in Run /\ run.at = "fetch"
        /\ run.full = release[p].full /\ run.version = release[p].version
        /\ run.checked = release[p].checked
        /\ run.todo = Tail(release[p].todo)
    BY <1>2, <1>3, <2>1, <2>2 DEF Turned, Now, RunAt, Run
  <2> HIDE DEF run
  <2>4. Right(run)
    BY <1>1, <1>2, <1>3, <2>1, <2>2, <2>3, GoesOn DEF Knows, HasTurn, Turn
  <2>5. Still /\ OtherTypes'
    BY <1>1, <1>13 DEF Verify, OtherTypes, Still, world, local
  <2> QED BY <2>1, <2>4, <2>5, StillRun
<1>14. CASE LeaveTrain(p)
  <2> DEFINE run == RunAt(p, "tell")
  <2>1. release[p].at = "fetch" /\ release' = [release EXCEPT ![p] = run]
    BY <1>14 DEF LeaveTrain, RunGoes, RunAt
  <2>2. /\ run \in Run /\ run.at = "tell"
        /\ run.full = release[p].full /\ run.version = release[p].version
        /\ run.checked = release[p].checked
    BY <1>2, <1>3, <2>1 DEF RunAt, Run
  <2> HIDE DEF run
  <2>3. Right(run)
    BY <1>1, <1>2, <1>3, <2>1, <2>2, GoesOn DEF Knows, HasTurn, Turn
  <2>4. Still /\ OtherTypes'
    BY <1>1, <1>14 DEF LeaveTrain, OtherTypes, Still, world, local
  <2> QED BY <2>1, <2>3, <2>4, StillRun
<1>15. CASE ReadBack(p)
  <2> DEFINE run == [release[p] EXCEPT !.todo = Tail(@),
                       !.at = IF Len(release[p].todo) = 1 THEN "github"
                              ELSE "push"]
  <2>1. release[p].at = "readback" /\ release' = [release EXCEPT ![p] = run]
    BY <1>15 DEF ReadBack, RunGoes
  <2>2. /\ run \in Run /\ run.todo = Tail(release[p].todo)
        /\ run.at = IF Len(release[p].todo) = 1 THEN "github" ELSE "push"
        /\ run.full = release[p].full /\ run.version = release[p].version
        /\ run.checked = release[p].checked
    BY <1>2, <2>1 DEF Run
  <2> HIDE DEF run
  <2>3. run.at = "push" => run.todo # <<>>
    <3>1. release[p].todo \in Seq(Remote \cup Harness) /\ release[p].todo # <<>>
      BY <1>2, <2>1 DEF Run, HasTurn
    <3>2. Len(Tail(release[p].todo)) = Len(release[p].todo) - 1
          /\ Len(release[p].todo) \in Nat
      BY <3>1, HeadTailProperties
    <3>3. Len(<<>>) = 0
      BY EmptySeq
    <3>4. run.at = "push" => Len(release[p].todo) # 1
      BY <2>2
    <3>5. Len(run.todo) = Len(release[p].todo) - 1
      BY <2>2, <3>2
    <3>6. ASSUME run.at = "push", run.todo = <<>> PROVE FALSE
      <4>1. Len(run.todo) = 0
        BY <3>3, <3>6
      <4>2. Len(release[p].todo) # 1 /\ Len(release[p].todo) \in Nat
        BY <3>2, <3>4, <3>6
      <4>3. Len(release[p].todo) - 1 = 0
        BY <3>5, <4>1
      <4> QED BY <4>2, <4>3
    <3> QED BY <3>6
  <2>4. Right(run)
    BY <1>1, <1>2, <2>1, <2>2, <2>3, GoesOn DEF Knows, HasTurn, Turn
  <2>5. Still /\ OtherTypes'
    BY <1>1, <1>15 DEF ReadBack, OtherTypes, Still, world, local
  <2> QED BY <2>1, <2>4, <2>5, StillRun
<1>16. CASE NotVerified(p)
  <2>1. /\ release[p].at \in {"put", "verify"}
        /\ release' = [release EXCEPT ![p] = Turned(p)]
    BY <1>16 DEF NotVerified, RunGoes
  <2>2. /\ Turned(p) \in Run /\ Turned(p).at = "fetch"
        /\ Turned(p).full = release[p].full
        /\ Turned(p).version = release[p].version
        /\ Turned(p).checked = release[p].checked
        /\ Turned(p).todo = Tail(release[p].todo)
    BY <1>2, <2>1 DEF Turned, Run
  <2>3. Right(Turned(p))
    BY <1>1, <1>2, <2>1, <2>2, GoesOn DEF Knows, HasTurn, Turn
  <2>4. Still /\ OtherTypes'
    BY <1>1, <1>16 DEF NotVerified, OtherTypes, Still, world, local
  <2> QED BY <2>1, <2>3, <2>4, StillRun
<1>17. CASE Complete(p) \/ Stops(p)
  <2>1. release' = [release EXCEPT ![p] = NoRun]
    BY <1>17 DEF Complete, Stops, RunGoes
  <2>2. Still /\ OtherTypes'
    BY <1>1, <1>17 DEF Complete, Stops, OtherTypes, Still, world, local
  <2> QED BY <2>1, <2>2, NoRunRight, StillRun
<1>18. CASE Retry(p)
  <2> DEFINE run == [release[p] EXCEPT !.at = StageStart(@), !.todo = <<>>]
  <2>1. /\ release[p].at \in {"tag", "push", "readback", "latest", "arm"}
        /\ release' = [release EXCEPT ![p] = run]
    BY <1>18 DEF Retry, RunGoes
  <2>2. /\ StageStart(release[p].at) \in {"head", "github", "tap"}
        /\ StageStart(release[p].at) # "head" =>
             release[p].at \in {"latest", "arm"}
    BY <2>1 DEF StageStart
  <2>3. /\ run \in Run /\ run.at = StageStart(release[p].at)
        /\ run.full = release[p].full /\ run.version = release[p].version
        /\ run.checked = release[p].checked
    BY <1>2, <1>3, <2>2 DEF Run
  <2> HIDE DEF run
  <2>4. Right(run)
    BY <1>1, <1>2, <2>1, <2>2, <2>3, GoesOn DEF Knows, HasTurn, Turn
  <2>5. Still /\ OtherTypes'
    BY <1>1, <1>18 DEF Retry, OtherTypes, Still, world, local
  <2> QED BY <2>1, <2>4, <2>5, StillRun
<1> QED BY <1>4, <1>5, <1>6, <1>7, <1>8, <1>9, <1>10, <1>11, <1>12,
           <1>13, <1>14, <1>15, <1>16, <1>17, <1>18

\* The tag is made at HEAD, if the version has none.
LEMMA CreateTagKeeps ==
  ASSUME PublishInv, NEW p \in Releaser, CreateTag(p)
  PROVE  PublishInv'
<1>1. PublishTypes /\ OtherTypes /\ RunsRight
  BY DEF PublishInv, PublishTypes, OtherTypes
<1> PICK was : was = release[p]
  OBVIOUS
<1> PICK run : run = [was EXCEPT !.at = "push", !.todo = Remotes]
  OBVIOUS
<1>2. /\ release[p].at = "tag" /\ release' = [release EXCEPT ![p] = run]
      /\ tags' = [tags EXCEPT ![V(p)] = IF @ = 0 THEN head ELSE @]
  BY DEF CreateTag, RunGoes
<1>3. was \in Run /\ Knows(was) /\ was.version \in Version
  BY <1>1, <1>2, ReleaseRecords DEF V
<1>4. /\ run \in Run /\ run.at = "push" /\ run.todo = Remotes
      /\ run.full = was.full /\ run.version = was.version
      /\ run.checked = was.checked
  BY <1>3, Turns DEF Run
<1>5. head \in Revision /\ head \in Nat \ {0}
  BY <1>1, History DEF PublishTypes
<1>6. Grows
  BY <1>1, <1>2, <1>5 DEF CreateTag, PublishTypes, Grows, V
<1>7. tags' \in [Version -> Revision \cup {0}] /\ tags'[was.version] # 0
  BY <1>1, <1>2, <1>3, <1>5 DEF PublishTypes, V
<1>8. Right(run)'
  <2>1. Right(was)'
    BY <1>1, <1>6, KnowsStays DEF RunsRight
  <2>2. was.full
    BY <1>2, <1>3 DEF Knows, Turn
  <2>3. /\ was.checked \in Revision /\ was.checked <= head'
        /\ was.version = Manifest[was.checked]
        /\ was.checked \in green'
        /\ \/ tags'[was.version] \in {0, was.checked}
           \/ was.checked < head'
    BY <1>2, <2>1, <2>2 DEF Right, Knows
  <2>4. Knows(run)'
    BY <1>4, <1>7, <2>2, <2>3 DEF Knows
  <2> QED BY <1>4, <2>4, Turns DEF Right, HasTurn
<1>9. RunsRight' /\ release' \in [Releaser -> Run]
  BY <1>1, <1>2, <1>6, <1>8, RunStep
<1>10. PublishTypes'
  BY <1>1, <1>7, <1>9 DEF CreateTag, PublishTypes, local
<1> QED BY <1>1, <1>6, <1>9, <1>10, RemotesStay DEF CreateTag, PublishInv

\* The files of a harness are replaced, and every run that verified it is
\* overtaken.
LEMMA PutFilesKeeps ==
  ASSUME PublishInv, NEW p \in Releaser, PutFiles(p)
  PROVE  PublishInv'
<1>1. PublishTypes /\ OtherTypes /\ RunsRight
  BY DEF PublishInv, PublishTypes, OtherTypes
<1>2. Still
  BY DEF PutFiles, Still, world
<1>3. release[p].at = "put"
  BY DEF PutFiles
<1>4. release[p] \in Run /\ HasTurn(release[p]) /\ Now(p) \in Harness
  BY <1>1, <1>3, ReleaseRecords
<1>5. ASSUME NEW q \in Releaser PROVE Right(release'[q])
  <2>1. release[q] \in Run /\ Right(release[q])
    BY <1>1 DEF PublishTypes, RunsRight
  <2>2. CASE q = p
    <3>1. release'[p] = RunAt(p, "verify")
      BY DEF PutFiles
    <3>2. /\ RunAt(p, "verify") \in Run /\ RunAt(p, "verify").at = "verify"
          /\ RunAt(p, "verify").full = release[p].full
          /\ RunAt(p, "verify").version = release[p].version
          /\ RunAt(p, "verify").checked = release[p].checked
          /\ RunAt(p, "verify").todo = release[p].todo
      BY <1>4 DEF RunAt, Run
    <3>3. Knows(release[p])
      BY <1>3, <2>1, <2>2 DEF Right
    <3>4. HasTurn(RunAt(p, "verify"))
      BY <1>3, <1>4, <3>2 DEF HasTurn
    <3>5. Right(RunAt(p, "verify"))
      BY <1>1, <1>3, <3>2, <3>3, <3>4, GoesOn DEF Knows, Turn
    <3> QED BY <2>2, <3>1, <3>5
  <2>3. CASE q # p
    <3>1. PICK over \in SUBSET Harness :
            release'[q] = [release[q] EXCEPT !.overtaken = over]
      <4>1. release'[q] = [release[q] EXCEPT !.overtaken =
                             IF Now(p) \in release[q].verified
                             THEN @ \cup {Now(p)} ELSE @]
        BY <2>3 DEF PutFiles
      <4>2. release[q].overtaken \in SUBSET Harness
        BY <2>1 DEF Run
      <4> QED BY <1>4, <4>1, <4>2
    <3>2. /\ release'[q] \in Run /\ release'[q].at = release[q].at
          /\ release'[q].full = release[q].full
          /\ release'[q].version = release[q].version
          /\ release'[q].checked = release[q].checked
          /\ release'[q].todo = release[q].todo
      BY <2>1, <3>1 DEF Run
    <3> QED BY <2>1, <3>2 DEF Right, Knows, HasTurn
  <2> QED BY <2>2, <2>3
<1>6. \A run : Right(run) => Right(run)'
  BY <1>1, <1>2, StillGrows, KnowsStays
<1>7. RunsRight'
  BY <1>5, <1>6 DEF RunsRight
<1>8. release' \in [Releaser -> Run]
  <2>1. \A q \in Releaser : release'[q] \in Run
    BY <1>5 DEF Right
  <2>2. release' = [q \in Releaser |-> release'[q]]
    BY DEF PutFiles
  <2> QED BY <2>1, <2>2
<1>9. installed' \in [Harness -> Revision \cup {0}]
  BY <1>1, <1>4 DEF PutFiles, OtherTypes
<1>10. PublishTypes'
  BY <1>1, <1>2, <1>8, <1>9 DEF PutFiles, Still, PublishTypes, world
<1> QED BY <1>1, <1>2, <1>7, <1>10, StillGrows, RemotesStay
        DEF Still, PublishInv

\* A push moves stable to HEAD: if that is the commit that the run checked, it
\* has passed CI, and the tag that goes with it names it.
LEMMA PushKeeps ==
  ASSUME PublishInv, NEW p \in Releaser, Push(p)
  PROVE  PublishInv'
<1>1. PublishTypes /\ OtherTypes /\ RunsRight /\ TagsKept /\ StableIsChecked
  BY DEF PublishInv, PublishTypes, OtherTypes
<1> PICK was : was = release[p]
  OBVIOUS
<1> PICK run : run = [was EXCEPT !.at = "readback"]
  OBVIOUS
<1>2. was.at = "push" /\ release' = [release EXCEPT ![p] = run]
  BY DEF Push, RunGoes, RunAt
<1>3. /\ was \in Run /\ HasTurn(was) /\ Knows(was) /\ was.version \in Version
      /\ was.checked \in Nat \ {0}
  BY <1>1, <1>2, ReleaseRecords DEF V
<1>4. Right(run)
  <2>1. /\ run \in Run /\ run.at = "readback" /\ run.full = was.full
        /\ run.version = was.version /\ run.checked = was.checked
        /\ run.todo = was.todo
    BY <1>3 DEF Run
  <2> QED BY <1>1, <1>2, <1>3, <2>1, GoesOn DEF Knows, HasTurn, Turn
<1>5. OtherTypes'
  BY <1>1 DEF Push, OtherTypes, local
<1>6. /\ head' = head /\ green' = green /\ tags' = tags
      /\ head \in Revision /\ head \in Nat \ {0}
  BY <1>1, History DEF Push, PublishTypes
<1>7. CASE UNCHANGED <<published, adrift>>
  BY <1>2, <1>4, <1>5, <1>6, <1>7, StillRun DEF Still
<1>8. CASE ~UNCHANGED <<published, adrift>>
  <2> DEFINE Tags == [Version -> Revision \cup {0}]
             Refs == [main : 0..Theirs, stable : Revision \cup {0}, tags : Tags]
  <2> PICK r : r = Now(p)
    OBVIOUS
  <2>1. /\ published' = [published EXCEPT
             ![r] = [main |-> head, stable |-> head,
                     tags |-> [@.tags EXCEPT ![was.version] =
                                 tags[was.version]]]]
        /\ adrift' = IF head = was.checked THEN adrift
                     ELSE adrift \cup {<<was.version, head>>}
    BY <1>8 DEF Push, V
  <2>2. published \in [Remote -> Refs] /\ tags \in Tags
    BY <1>1 DEF PublishTypes
  <2>3. CASE r \notin Remote
    <3>1. published' = published
      BY <2>1, <2>2, <2>3
    <3>2. adrift \subseteq adrift' /\ adrift' \subseteq Version \X Revision
      BY <1>1, <1>3, <1>6, <2>1 DEF PublishTypes
    <3>3. Grows
      BY <1>6, <3>2 DEF Grows
    <3>4. RunsRight' /\ release' \in [Releaser -> Run]
      BY <1>1, <1>2, <1>4, <3>3, KnowsStays, RunStep
    <3>5. PublishTypes'
      BY <1>1, <1>5, <1>6, <3>1, <3>2, <3>4 DEF PublishTypes, OtherTypes
    <3> QED BY <1>1, <3>1, <3>3, <3>4, <3>5, RemotesStay DEF PublishInv
  <2>4. CASE r \in Remote
    <3> PICK moved : moved = [published[r].tags EXCEPT ![was.version] =
                                tags[was.version]]
      OBVIOUS
    <3>1. /\ moved \in Tags /\ moved[was.version] = tags[was.version]
          /\ \A v \in Version :
               v # was.version => moved[v] = published[r].tags[v]
      BY <1>3, <2>2, <2>4
    <3>2. \A q \in Remote : published'[q] =
            IF q = r THEN [main |-> head, stable |-> head, tags |-> moved]
            ELSE published[q]
      BY <2>1, <2>2
    <3>3. published' \in [Remote -> Refs]
      <4>1. head \in 0..Theirs
        BY <1>6, History DEF Theirs
      <4>2. [main |-> head, stable |-> head, tags |-> moved] \in Refs
        BY <1>6, <3>1, <4>1
      <4> HIDE DEF Refs
      <4> QED BY <2>1, <2>2, <4>2
    <3>4. adrift \subseteq adrift' /\ adrift' \subseteq Version \X Revision
      BY <1>1, <1>3, <1>6, <2>1 DEF PublishTypes
    <3>5. Grows
      BY <1>6, <3>4 DEF Grows
    <3>6. RunsRight' /\ release' \in [Releaser -> Run]
      BY <1>1, <1>2, <1>4, <3>5, KnowsStays, RunStep
    <3>7. PublishTypes'
      BY <1>1, <1>5, <1>6, <3>3, <3>4, <3>6 DEF PublishTypes, OtherTypes
    <3>8. TagsKept'
      BY <1>1, <1>6, <3>1, <3>2 DEF TagsKept
    <3>9. StableIsChecked'
      <4>1. ASSUME NEW q \in Remote, q # r
            PROVE  LET c == published'[q].stable
                   IN \/ c = 0 \/ \E v \in Version : <<v, c>> \in adrift'
                      \/ c \in green' /\ published'[q].tags[Manifest[c]] = c
        BY <1>1, <1>6, <3>2, <3>4, <4>1 DEF StableIsChecked
      <4>2. published'[r].stable = head /\ published'[r].tags = moved
        BY <2>4, <3>2
      <4>3. LET c == published'[r].stable
            IN \/ c = 0 \/ \E v \in Version : <<v, c>> \in adrift'
               \/ c \in green' /\ published'[r].tags[Manifest[c]] = c
        <5>1. CASE head # was.checked
          <6>1. <<was.version, head>> \in adrift'
            BY <2>1, <5>1
          <6> QED BY <1>3, <4>2, <6>1
        <5>2. CASE head = was.checked
          <6>1. head \in green /\ Manifest[head] = was.version
            BY <1>2, <1>3, <5>2 DEF Knows, Turn
          <6>2. tags[was.version] = head
            BY <1>2, <1>3, <1>6, <5>2 DEF Knows, Turn
          <6> QED BY <1>6, <3>1, <4>2, <6>1, <6>2
        <5> QED BY <5>1, <5>2
      <4> QED BY <4>1, <4>3 DEF StableIsChecked
    <3> QED BY <3>6, <3>7, <3>8, <3>9 DEF PublishInv
  <2> QED BY <2>3, <2>4
<1> QED BY <1>7, <1>8

\* The first state.
LEMMA PublishBegins == PublishInit => PublishInv
<1> SUFFICES ASSUME PublishInit PROVE PublishInv
  OBVIOUS
<1>1. head = 1 /\ 1 \in Revision
  BY History DEF PublishInit
<1>2. PublishTypes
  <2>1. release \in [Releaser -> Run]
    BY NoRunRight DEF PublishInit, Right
  <2>2. MaxRuns \in Nat
    BY PublishAssumption
  <2>3. 0 \in 0..Theirs
    BY History DEF Theirs
  <2> QED BY <1>1, <2>1, <2>2, <2>3 DEF PublishInit, PublishTypes
<1>3. RunsRight
  BY NoRunRight DEF PublishInit, RunsRight
<1>4. TagsKept /\ StableIsChecked
  BY DEF PublishInit, TagsKept, StableIsChecked
<1> QED BY <1>2, <1>3, <1>4 DEF PublishInv

\* No step of a release or of the world breaks the invariant.
LEMMA PublishStep == PublishInv /\ [PublishNext]_publishVars => PublishInv'
<1> SUFFICES ASSUME PublishInv, [PublishNext]_publishVars PROVE PublishInv'
  OBVIOUS
<1>1. CASE UNCHANGED publishVars
  BY <1>1 DEF publishVars, world, local, PublishInv, PublishTypes, RunsRight,
     Right, HasTurn, Knows, TagsKept, StableIsChecked
<1>2. CASE PublishNext
  BY <1>2, WorldKeeps, RunKeeps, CreateTagKeeps, PushKeeps, PutFilesKeeps
  DEF PublishNext
<1> QED BY <1>1, <1>2

\* Every state of releases that run, fail, are tried again or killed.
THEOREM PublishSafe == PublishSpec => []PublishInv
BY PublishBegins, PublishStep, PTL DEF PublishSpec

\* The refs, the tap, the records of runs and what harnesses have keep their types.
THEOREM PublishTyped == PublishSpec => []PublishTypes
<1>1. PublishInv => PublishTypes
  BY DEF PublishInv
<1> QED BY <1>1, PublishSafe, PTL

\* What stable names has passed CI and carries the tag of its version, unless
\* HEAD moved under the run that pushed it (release.py:130).
THEOREM StableChecked == PublishSpec => []StableIsChecked
<1>1. PublishInv => StableIsChecked
  BY DEF PublishInv
<1> QED BY <1>1, PublishSafe, PTL
-----------------------------------------------------------------------------
(* Publish: what a complete release says                                   *)

\* Steps of a run that need the train, but for those of the harnesses.
TrainStage ==
  {"head", "tag", "push", "readback", "github", "latest", "tap", "arm"}

OnTrain(run) ==
  run.full /\ run.at \in TrainStage \cup {"fetch", "put", "verify"}

\* A run that has published, and may say so.
HasPublished(run) ==
  run.full /\ run.at \in {"github", "latest", "tap", "arm"} \cup Turn

\* The remotes that it has read back.
ReadRemotes(run) ==
  IF run.full /\ run.at \in {"push", "readback"}
  THEN {r \in Remote : \A i \in DOMAIN run.todo : run.todo[i] # r}
  ELSE IF HasPublished(run) THEN Remote ELSE {}

Adrift(v) == \E c \in Revision : <<v, c>> \in adrift
OpenPull(v) == pr[v] \in {"open", "armed"}

\* What people are shown, or will be if the tap merges it.
Shown == {v \in Version : OpenPull(v) \/ v = formula \/ v = github.latest}

\* The version v is that of a commit of the history up to c.
From(v, c) == \E d \in Revision : d <= c /\ Manifest[d] = v

\* The train has one run.
OneOnTrain == \A p \in Releaser : OnTrain(release[p]) => train = {p}

\* A tag at a remote names a commit of its version, or was pushed adrift.
TagsMean ==
  \A r \in Remote, v \in Version :
    LET c == published[r].tags[v] IN c = 0 \/ Manifest[c] = v \/ Adrift(v)

\* No pull request that can merge would take the tap back.
PullsForward == \A v \in Version : OpenPull(v) => Forward(formula, v)

ShownIsPast == \A v \in Shown : From(v, head)

\* The commit that a run on the train has read is one of the history.
HeadIsPast(run) ==
  run.full /\ run.at \notin {"train", "head"} =>
    run.head \in Revision /\ run.head <= head

\* What is shown, and what other runs will tell of, is behind that commit.
LeadsShown(run) ==
  run.full /\ run.at \in TrainStage \ {"head"} =>
    /\ \A v \in Shown \ {run.version} : From(v, run.head)
    /\ \A q \in Releaser : release[q].full /\ release[q].at = "tell" =>
         From(V(q), run.head)

\* What a run read back from a remote is there, or was overtaken.
ReadBackHolds(run) ==
  \A r \in ReadRemotes(run) :
    /\ published[r].tags[run.version] = run.head
    /\ published[r].stable >= run.head

\* What a run saw at GitHub and at the tap was not taken back.
SeenHolds(run) ==
  run.full =>
    /\ run.at \in {"tap", "arm"} \cup Turn =>
         Forward(run.version, github.latest)
    /\ run.at \in Turn /\ ~run.waits =>
         /\ Forward(run.version, formula)
         /\ \A v \in Version : OpenPull(v) => Forward(run.version, v)

\* The harnesses of a run have turns of their own.
TurnsInOrder(run) ==
  /\ run.at \in {"fetch", "put", "verify"} =>
       \/ run.todo = <<"claude", "muse">> /\ run.verified = {}
       \/ run.todo = <<"muse">> /\ run.verified \subseteq {"claude"}
       \/ run.todo = <<>>
  /\ run.at \notin Turn => run.verified = {}

\* A harness that is verified has the files of the tag, or is overtaken.
VerifiedHolds(run) ==
  \A h \in run.verified \ run.overtaken : installed[h] = tags[run.version]

RunHolds(run) ==
  /\ run.at = "idle" => ~run.full
  /\ HeadIsPast(run) /\ LeadsShown(run) /\ ReadBackHolds(run)
  /\ SeenHolds(run) /\ TurnsInOrder(run) /\ VerifiedHolds(run)

ReleaseInv ==
  /\ OneOnTrain /\ TagsMean /\ PullsForward /\ ShownIsPast
  /\ \A p \in Releaser : RunHolds(release[p])

\* Versions and revisions are numbers, and versions rise with the history.
LEMMA Versions ==
  /\ \A v \in Version : v \in Nat \ {0}
  /\ \A c, d \in Revision : c <= d => Manifest[c] <= Manifest[d]
  /\ Remote # {}
<1>1. \A v \in Version : v \in Nat \ {0}
  <2>1. \A c \in 1..Len(Manifest) : Manifest[c] \in Nat \ {0}
    BY PublishAssumption
  <2> QED BY <2>1, History DEF Version
<1>2. Remote # {}
  BY PublishAssumption DEF Remote
<1> QED BY <1>1, <1>2, VersionsRise DEF Revision

\* What was of the past stays so, and what went adrift does.
LEMMA PastStays ==
  ASSUME PublishTypes, Grows
  PROVE  /\ \A v : From(v, head) => From(v, head')
         /\ \A v : Adrift(v) => Adrift(v)'
         /\ \A v, w : Forward(v, w) => Forward(v, w)'
<1>1. head \in Nat /\ head' \in Nat /\ head <= head' /\ adrift \subseteq adrift'
  BY History DEF PublishTypes, Grows
<1>2. \A v : From(v, head) => From(v, head')
  BY <1>1, History DEF From
<1> QED BY <1>1, <1>2 DEF Adrift, Forward

\* A release that has published is later than any version behind its commit.
LEMMA IsLater ==
  ASSUME TagsMean, NEW run, Right(run), HasPublished(run), HeadIsPast(run),
         ReadBackHolds(run), NEW v \in Version, From(v, run.head)
  PROVE  Forward(v, run.version)
<1>1. /\ run.full /\ run.at \in {"github", "latest", "tap", "arm"} \cup Turn
      /\ run.version \in Version
  BY History DEF HasPublished, Right, Knows, Turn
<1>2. run.head \in Revision /\ run.head # 0 /\ run.head \in Nat
  BY <1>1, History DEF HeadIsPast, Turn
<1>3. ReadRemotes(run) = Remote
  BY <1>1 DEF ReadRemotes, HasPublished, Turn
<1>4. PICK r \in Remote : published[r].tags[run.version] = run.head
  BY <1>3, Versions DEF ReadBackHolds
<1>5. Manifest[run.head] = run.version \/ Adrift(run.version)
  BY <1>1, <1>2, <1>4 DEF TagsMean
<1>6. PICK d \in Revision : d <= run.head /\ Manifest[d] = v
  BY DEF From
<1>7. v <= Manifest[run.head]
  BY <1>2, <1>6, Versions
<1> QED BY <1>1, <1>5, <1>7, Versions DEF Forward, Adrift

-----------------------------------------------------------------------------
\* The version of a run is known, and what it verified has a tag.
Known(run) ==
  /\ run.full \/ run.verified # {} => run.version \in Version
  /\ run.verified # {} => tags[run.version] # 0

\* A step that shows nothing new and installs nothing: what the remotes have
\* grows, and a pull request may be taken away.
Calm ==
  /\ Grows /\ TagsMean' /\ UNCHANGED <<github, formula, installed>>
  /\ \A r \in Remote :
       /\ \A c \in Revision :
            published[r].stable >= c => published'[r].stable >= c
       /\ \A v \in Version :
            published[r].tags[v] \in {0, published'[r].tags[v]}
  /\ \A v \in Version : OpenPull(v)' => OpenPull(v)

LEMMA CalmShown ==
  ASSUME PublishTypes, ReleaseInv, Calm
  PROVE  /\ Shown' \subseteq Shown
         /\ PullsForward' /\ ShownIsPast'
<1>1. Shown' \subseteq Shown
  BY DEF Calm, Shown
<1>2. PullsForward'
  BY PastStays DEF Calm, PullsForward, ReleaseInv
<1>3. ShownIsPast'
  BY <1>1, PastStays DEF Calm, ShownIsPast, ReleaseInv
<1> QED BY <1>1, <1>2, <1>3

\* The remotes have what they had.
LEMMA SameRefs ==
  ASSUME PublishTypes, ReleaseInv, Grows,
         UNCHANGED <<github, formula, installed>>,
         \A v \in Version : OpenPull(v)' => OpenPull(v),
         \A r \in Remote : /\ published'[r].stable = published[r].stable
                           /\ published'[r].tags = published[r].tags
  PROVE  Calm
<1>1. TagsMean'
  BY PastStays DEF TagsMean, ReleaseInv
<1> QED BY <1>1 DEF Calm

\* Nobody that did not tell of a full release before does now.
NoneTellsNew ==
  \A q \in Releaser : release'[q].full /\ release'[q].at = "tell" =>
    release[q].full /\ release[q].at = "tell" /\ V(q)' = V(q)

LEMMA CalmHolds ==
  ASSUME PublishTypes, ReleaseInv, Calm, NEW run, RunHolds(run),
         run.full /\ run.at \in TrainStage \ {"head"} => NoneTellsNew,
         Known(run)
  PROVE  RunHolds(run)'
<1>1. HeadIsPast(run)'
  BY History DEF RunHolds, HeadIsPast, Calm, Grows, PublishTypes
<1>2. LeadsShown(run)'
  BY CalmShown DEF RunHolds, LeadsShown, NoneTellsNew
<1>3. ReadBackHolds(run)'
  <2>1. /\ ReadRemotes(run)' = ReadRemotes(run)
        /\ ReadRemotes(run) \subseteq Remote
    BY DEF ReadRemotes
  <2>2. SUFFICES ASSUME NEW r \in ReadRemotes(run)
                 PROVE  /\ published'[r].tags[run.version] = run.head
                        /\ published'[r].stable >= run.head
    BY <2>1 DEF ReadBackHolds
  <2>3. run.version \in Version /\ run.head \in Revision
    BY DEF ReadRemotes, HasPublished, Turn, Known, RunHolds, HeadIsPast
  <2>4. r \in Remote /\ run.head # 0 /\ run.head \in Nat
    BY <2>1, <2>3, History
  <2> QED BY <2>2, <2>3, <2>4 DEF RunHolds, ReadBackHolds, Calm
<1>4. SeenHolds(run)'
  BY PastStays DEF RunHolds, SeenHolds, Calm
<1>5. TurnsInOrder(run)'
  BY DEF RunHolds, TurnsInOrder
<1>6. VerifiedHolds(run)'
  BY DEF RunHolds, VerifiedHolds, Known, Calm, Grows
<1> QED BY <1>1, <1>2, <1>3, <1>4, <1>5, <1>6 DEF RunHolds

\* The records of other runs, as they are.
LEMMA OtherRecords ==
  ASSUME PublishInv, ReleaseInv, NEW q \in Releaser
  PROVE  /\ release[q] \in Run /\ Right(release[q]) /\ RunHolds(release[q])
         /\ Known(release[q])
<1>1. release[q] \in Run /\ Right(release[q]) /\ RunHolds(release[q])
  BY DEF PublishInv, RunsRight, Right, ReleaseInv
<1>2. release[q].full => release[q].at # "idle"
  BY <1>1 DEF RunHolds
<1>3. release[q].verified # {} => release[q].at \in Turn
  BY <1>1 DEF RunHolds, TurnsInOrder
<1> QED BY <1>1, <1>2, <1>3, History DEF Right, Knows, Known, Turn

\* A calm step of the world.
LEMMA CalmWorld ==
  ASSUME PublishInv, ReleaseInv, Calm, release' = release, OneOnTrain'
  PROVE  ReleaseInv'
<1>1. PublishTypes /\ NoneTellsNew /\ TagsMean'
  BY DEF PublishInv, NoneTellsNew, V, Calm
<1>2. ASSUME NEW q \in Releaser PROVE RunHolds(release[q])'
  <2>1. PICK run : run = release[q] /\ run = release'[q]
    OBVIOUS
  <2>2. RunHolds(run) /\ Known(run)
    BY <2>1, OtherRecords
  <2>3. RunHolds(run)'
    BY <1>1, <2>2, CalmHolds
  <2> QED BY <2>1, <2>3
<1> QED BY <1>1, <1>2, CalmShown DEF ReleaseInv

\* A calm step of one run.
LEMMA CalmRun ==
  ASSUME PublishInv, ReleaseInv, Calm, NEW p \in Releaser, NEW run \in Run,
         release' = [release EXCEPT ![p] = run], OneOnTrain', RunHolds(run),
         Known(run),
         run.full /\ run.at = "tell" => OnTrain(release[p])
  PROVE  ReleaseInv'
<1>1. PublishTypes /\ release \in [Releaser -> Run] /\ TagsMean'
  BY DEF PublishInv, PublishTypes, Calm
<1>2. release'[p] = run /\ \A q \in Releaser : q # p => release'[q] = release[q]
  BY <1>1
<1>3. OnTrain(run) => NoneTellsNew
  BY <1>2 DEF NoneTellsNew, OnTrain, TrainStage, V
<1>4. RunHolds(run)'
  BY <1>1, <1>3, CalmHolds DEF OnTrain
<1>5. ASSUME NEW q \in Releaser, q # p PROVE RunHolds(release[q])'
  <2>1. PICK other : other = release[q] /\ other = release'[q]
    BY <1>2, <1>5
  <2>2. RunHolds(other) /\ Known(other)
    BY <2>1, OtherRecords
  <2>3. other.full /\ other.at \in TrainStage \ {"head"} => NoneTellsNew
    <3> SUFFICES ASSUME OnTrain(other) PROVE NoneTellsNew
      BY DEF OnTrain
    <3>1. ~OnTrain(release[p])
      BY <1>5, <2>1 DEF ReleaseInv, OneOnTrain
    <3> QED BY <1>2, <3>1 DEF NoneTellsNew, V
  <2>4. RunHolds(other)'
    BY <1>1, <2>2, <2>3, CalmHolds
  <2> QED BY <2>1, <2>4
<1> QED BY <1>1, <1>2, <1>4, <1>5, CalmShown DEF ReleaseInv

-----------------------------------------------------------------------------
\* The world's steps but a merge of the tap are calm.
LEMMA WorldIsCalm ==
  ASSUME PublishInv, ReleaseInv,
         \/ NewCommit \/ PushMain \/ CIPasses \/ FreeTrain
         \/ \E v \in Version : TapCloses(v)
  PROVE  Calm /\ release' = release
<1>0. PublishTypes /\ ReleaseInv
  BY DEF PublishInv
<1>1. CASE NewCommit
  <2>1. Grows
    BY <1>0, <1>1, History DEF NewCommit, Grows, PublishTypes
  <2> QED BY <1>0, <1>1, <2>1, SameRefs DEF NewCommit, OpenPull, local
<1>2. CASE PushMain
  <2>1. Grows
    BY <1>0, <1>2, History DEF PushMain, Grows, PublishTypes
  <2>2. \A r \in Remote : /\ published'[r].stable = published[r].stable
                          /\ published'[r].tags = published[r].tags
    BY <1>0, <1>2 DEF PushMain, PublishTypes
  <2> QED BY <1>0, <1>2, <2>1, <2>2, SameRefs DEF PushMain, OpenPull, local
<1>3. CASE CIPasses
  <2>1. Grows
    BY <1>0, <1>3, History DEF CIPasses, Grows, PublishTypes
  <2> QED BY <1>0, <1>3, <2>1, SameRefs DEF CIPasses, OpenPull, local
<1>4. CASE FreeTrain
  <2>1. Still
    BY <1>4 DEF FreeTrain, Still, world
  <2> QED BY <1>0, <1>4, <2>1, StillGrows, SameRefs
       DEF FreeTrain, Still, OpenPull, world
<1>5. ASSUME NEW v \in Version, TapCloses(v) PROVE Calm /\ release' = release
  <2>1. Still
    BY <1>5 DEF TapCloses, Still
  <2>2. \A w \in Version : OpenPull(w)' => OpenPull(w)
    BY <1>0, <1>5 DEF TapCloses, OpenPull, PublishTypes
  <2> QED BY <1>0, <1>5, <2>1, <2>2, StillGrows, SameRefs
       DEF TapCloses, Still, local
<1> QED BY <1>1, <1>2, <1>3, <1>4, <1>5

LEMMA WorldHolds ==
  ASSUME PublishInv, ReleaseInv,
         \/ NewCommit \/ PushMain \/ CIPasses \/ FreeTrain
         \/ \E v \in Version : TapCloses(v)
  PROVE  ReleaseInv'
<1>1. Calm /\ release' = release
  BY WorldIsCalm
<1>2. OneOnTrain'
  <2>1. CASE FreeTrain
    <3>1. PICK p \in train : release[p].at = "idle"
      BY <2>1 DEF FreeTrain
    <3>2. \A q \in Releaser : ~OnTrain(release[q])
      BY <3>1 DEF ReleaseInv, OneOnTrain, OnTrain, TrainStage
    <3> QED BY <1>1, <3>2 DEF OneOnTrain
  <2>2. CASE \/ NewCommit \/ PushMain \/ CIPasses
             \/ \E v \in Version : TapCloses(v)
    BY <1>1, <2>2 DEF ReleaseInv, OneOnTrain, NewCommit, PushMain, CIPasses,
       TapCloses, local
  <2> QED BY <2>1, <2>2
<1> QED BY <1>1, <1>2, CalmWorld

\* A merge closes every other pull request, and what it merges was shown.
LEMMA TapMergeHolds ==
  ASSUME PublishInv, ReleaseInv, NEW v \in Version, TapMerges(v)
  PROVE  ReleaseInv'
<1>0. /\ PublishTypes /\ OpenPull(v) /\ Still /\ Grows
      /\ UNCHANGED <<github, installed, train, release>>
  BY StillGrows DEF PublishInv, TapMerges, OpenPull, Still, local
<1>1. formula' = v /\ \A w \in Version : ~OpenPull(w)'
  BY <1>0 DEF TapMerges, OpenPull, PublishTypes
<1>2. Shown' \subseteq Shown
  BY <1>0, <1>1 DEF Shown
<1>3. OneOnTrain' /\ TagsMean' /\ PullsForward' /\ ShownIsPast'
  BY <1>0, <1>1, <1>2
  DEF ReleaseInv, OneOnTrain, TagsMean, PullsForward, ShownIsPast, Still, Adrift
<1>4. ASSUME NEW p \in Releaser PROVE RunHolds(release[p])'
  <2>1. PICK run : run = release[p] /\ run = release'[p]
    BY <1>0
  <2>2. RunHolds(run)
    BY <2>1, OtherRecords
  <2>3. /\ run.at = "idle" => ~run.full
        /\ HeadIsPast(run)' /\ TurnsInOrder(run)' /\ VerifiedHolds(run)'
    BY <1>0, <2>2
    DEF RunHolds, HeadIsPast, TurnsInOrder, VerifiedHolds, Still
  <2>4. LeadsShown(run)'
    BY <1>0, <1>2, <2>2 DEF RunHolds, LeadsShown, V
  <2>5. ReadBackHolds(run)'
    BY <1>0, <2>2 DEF RunHolds, ReadBackHolds, ReadRemotes, Still
  <2>6. SeenHolds(run)'
    BY <1>0, <1>1, <2>2 DEF RunHolds, SeenHolds, Still, Forward
  <2>7. RunHolds(run)'
    BY <2>3, <2>4, <2>5, <2>6 DEF RunHolds
  <2> QED BY <2>1, <2>7
<1> QED BY <1>3, <1>4 DEF ReleaseInv
-----------------------------------------------------------------------------
\* The steps of runs that leave what is published and shown alone.
LEMMA StillCalm ==
  ASSUME PublishInv, ReleaseInv, Still,
         UNCHANGED <<github, formula, installed>>,
         \A v \in Version : OpenPull(v)' => OpenPull(v)
  PROVE  Calm
BY StillGrows, SameRefs DEF PublishInv, Still

LEMMA TrainKept ==
  ASSUME PublishInv, ReleaseInv, NEW p \in Releaser, NEW run,
         release' = [release EXCEPT ![p] = run], train' = train,
         OnTrain(run) => OnTrain(release[p])
  PROVE  OneOnTrain'
<1>1. /\ release'[p] = run
      /\ \A q \in Releaser : q # p => release'[q] = release[q]
  BY DEF PublishInv, PublishTypes
<1> QED BY <1>1 DEF ReleaseInv, OneOnTrain

\* A run that goes on with what it knows.
LEMMA MovesOn ==
  ASSUME NEW was, NEW run, RunHolds(was),
         run.full = was.full, run.version = was.version,
         run.head = was.head, run.verified = was.verified,
         run.overtaken = was.overtaken, run.at # "idle",
         run.full /\ run.at \notin {"train", "head"} =>
           was.at \notin {"train", "head"},
         run.full /\ run.at \in TrainStage \ {"head"} =>
           was.at \in TrainStage \ {"head"},
         ReadRemotes(run) \subseteq ReadRemotes(was),
         SeenHolds(run), TurnsInOrder(run)
  PROVE  RunHolds(run)
<1>1. HeadIsPast(run) /\ LeadsShown(run)
  BY DEF RunHolds, HeadIsPast, LeadsShown
<1>2. ReadBackHolds(run) /\ VerifiedHolds(run)
  BY DEF RunHolds, ReadBackHolds, VerifiedHolds
<1> QED BY <1>1, <1>2 DEF RunHolds

LEMMA NoRunHolds ==
  /\ RunHolds(NoRun) /\ NoRun \in Run /\ ~OnTrain(NoRun) /\ NoRun.verified = {}
  /\ NoRun.at = "idle" /\ ~NoRun.full
<1>1. /\ NoRun.at = "idle" /\ NoRun.full = FALSE /\ NoRun.verified = {}
      /\ NoRun \in Run
  BY NoRunRight DEF NoRun, Right
<1>2. ReadRemotes(NoRun) = {}
  BY <1>1 DEF ReadRemotes, HasPublished
<1> QED BY <1>1, <1>2
     DEF RunHolds, HeadIsPast, LeadsShown, ReadBackHolds, SeenHolds, Turn,
         TurnsInOrder, VerifiedHolds, OnTrain

\* What the harnesses' turns come to.
LEMMA HarnessTurns ==
  /\ Harnesses = <<"claude", "muse">> /\ Head(Harnesses) = "claude"
  /\ Tail(Harnesses) = <<"muse">> /\ Head(<<"muse">>) = "muse"
  /\ Tail(<<"muse">>) = <<>> /\ Harnesses # <<>> /\ <<"muse">> # <<>>
BY DEF Harnesses
-----------------------------------------------------------------------------
\* The record of a run that has begun.
LEMMA BegunRecord ==
  ASSUME PublishInv, ReleaseInv, NEW p \in Releaser, release[p].at # "idle"
  PROVE  /\ release[p] \in Run /\ RunHolds(release[p]) /\ Right(release[p])
         /\ Known(release[p]) /\ Knows(release[p]) /\ V(p) \in Version
         /\ release[p].at \notin Turn => release[p].full
         /\ From(V(p), head)
<1>1. /\ release[p] \in Run /\ RunHolds(release[p]) /\ Right(release[p])
      /\ Known(release[p])
  BY OtherRecords
<1>2. Knows(release[p])
  BY <1>1 DEF Right
<1>3. V(p) \in Version /\ From(V(p), head)
  BY <1>2, History DEF Knows, V, From
<1>4. release[p].at \notin Turn => release[p].full
  BY <1>2 DEF Knows
<1> QED BY <1>1, <1>2, <1>3, <1>4

\* A run goes on, with nothing published, shown or installed.
LEMMA StillMoves ==
  ASSUME PublishInv, ReleaseInv, Still,
         UNCHANGED <<github, formula, installed, train>>,
         \A v \in Version : OpenPull(v)' => OpenPull(v),
         NEW p \in Releaser, NEW was, was = release[p], was.at # "idle",
         NEW run \in Run, release' = [release EXCEPT ![p] = run],
         run.full = was.full, run.version = was.version,
         run.head = was.head, run.verified = was.verified,
         run.overtaken = was.overtaken, run.at \notin {"idle", "tell"},
         run.full /\ run.at \notin {"train", "head"} =>
           was.at \notin {"train", "head"},
         run.full /\ run.at \in TrainStage \ {"head"} =>
           was.at \in TrainStage \ {"head"},
         ReadRemotes(run) \subseteq ReadRemotes(was),
         SeenHolds(run), TurnsInOrder(run), OnTrain(run) => OnTrain(was)
  PROVE  ReleaseInv'
<1>1. RunHolds(was) /\ Known(was)
  BY BegunRecord
<1>2. RunHolds(run)
  BY <1>1, MovesOn
<1>3. Known(run)
  BY <1>1 DEF Known
<1>4. Calm
  BY StillCalm
<1>5. OneOnTrain'
  BY TrainKept
<1> QED BY <1>2, <1>3, <1>4, <1>5, CalmRun

LEMMA PreflightHolds ==
  ASSUME PublishInv, ReleaseInv, NEW p \in Releaser, Preflight(p)
  PROVE  ReleaseInv'
<1>1. PICK full \in BOOLEAN :
        /\ Ready(full)
        /\ release' = [release EXCEPT ![p] =
             [NoRun EXCEPT !.at = IF full THEN "train" ELSE "fetch",
                           !.full = full, !.version = Manifest[head],
                           !.checked = head,
                           !.todo = IF full THEN <<>> ELSE Harnesses]]
  BY DEF Preflight, RunGoes
<1> PICK run : run = [NoRun EXCEPT !.at = IF full THEN "train" ELSE "fetch",
                        !.full = full, !.version = Manifest[head],
                        !.checked = head,
                        !.todo = IF full THEN <<>> ELSE Harnesses]
  OBVIOUS
<1>2. head \in Revision /\ Manifest[head] \in Version
  BY History DEF PublishInv, PublishTypes
<1>3. /\ run \in Run /\ run.at = (IF full THEN "train" ELSE "fetch")
      /\ run.full = full /\ run.verified = {}
      /\ run.todo = (IF full THEN <<>> ELSE Harnesses)
      /\ run.version \in Version
  BY <1>2, Turns DEF NoRun, Run
<1>4. ReadRemotes(run) = {} /\ ~OnTrain(run)
  BY <1>3 DEF ReadRemotes, HasPublished, OnTrain, TrainStage, Turn
<1>5. RunHolds(run) /\ Known(run)
  BY <1>3, <1>4, HarnessTurns
  DEF RunHolds, HeadIsPast, LeadsShown, ReadBackHolds, SeenHolds, TurnsInOrder,
      VerifiedHolds, Known, TrainStage, Turn
<1>6. /\ Still /\ UNCHANGED <<github, formula, pr, installed, train>>
  BY DEF Preflight, Still, world, local
<1>7. Calm
  BY <1>6, StillCalm DEF OpenPull
<1>8. release' = [release EXCEPT ![p] = run]
  BY <1>1
<1>9. OneOnTrain'
  BY <1>4, <1>6, <1>8, TrainKept
<1>10. ~(run.full /\ run.at = "tell")
  BY <1>3
<1> QED BY <1>3, <1>5, <1>7, <1>8, <1>9, <1>10, CalmRun

LEMMA HoldTrainHolds ==
  ASSUME PublishInv, ReleaseInv, NEW p \in Releaser, HoldTrain(p)
  PROVE  ReleaseInv'
<1> PICK was : was = release[p]
  OBVIOUS
<1> PICK run : run = [was EXCEPT !.at = "head"]
  OBVIOUS
<1>1. was.at = "train" /\ release' = [release EXCEPT ![p] = run]
  BY DEF HoldTrain, RunGoes, RunAt
<1>2. was \in Run /\ RunHolds(was) /\ Known(was)
  BY <1>1, BegunRecord
<1>3. /\ run \in Run /\ run.at = "head" /\ run.full = was.full
      /\ run.version = was.version /\ run.head = was.head
      /\ run.verified = was.verified /\ run.overtaken = was.overtaken
  BY <1>2 DEF Run
<1>4. ReadRemotes(run) = {} /\ SeenHolds(run) /\ TurnsInOrder(run)
  BY <1>1, <1>2, <1>3
  DEF RunHolds, ReadRemotes, HasPublished, SeenHolds, TurnsInOrder, Turn
<1>5. RunHolds(run) /\ Known(run)
  BY <1>2, <1>3, <1>4, MovesOn DEF Known
<1>6. /\ Still /\ UNCHANGED <<github, formula, pr, installed>>
      /\ train \subseteq {p} /\ train' = {p}
  BY DEF HoldTrain, Still, world
<1>7. Calm
  BY <1>6, StillCalm DEF OpenPull
<1>8. OneOnTrain'
  <2>1. release'[p] = run /\ \A q \in Releaser \ {p} : release'[q] = release[q]
    BY <1>1 DEF PublishInv, PublishTypes
  <2>2. \A q \in Releaser \ {p} : ~OnTrain(release[q])
    BY <1>6 DEF ReleaseInv, OneOnTrain
  <2> QED BY <1>6, <2>1, <2>2 DEF OneOnTrain
<1> QED BY <1>1, <1>3, <1>5, <1>7, <1>8, CalmRun

LEMMA ReadHeadHolds ==
  ASSUME PublishInv, ReleaseInv, NEW p \in Releaser, ReadHead(p)
  PROVE  ReleaseInv'
<1> PICK was : was = release[p]
  OBVIOUS
<1> PICK run : run = [was EXCEPT !.at = "tag", !.head = head]
  OBVIOUS
<1>1. was.at = "head" /\ release' = [release EXCEPT ![p] = run]
  BY DEF ReadHead, RunGoes
<1>2. was \in Run /\ RunHolds(was) /\ Known(was) /\ was.full
  BY <1>1, BegunRecord DEF Turn
<1>3. head \in Revision /\ head \in Nat
  BY History DEF PublishInv, PublishTypes
<1>4. /\ run \in Run /\ run.at = "tag" /\ run.full = was.full
      /\ run.version = was.version /\ run.head = head
      /\ run.verified = was.verified
  BY <1>2, <1>3 DEF Run
<1>5. run.verified = {}
  BY <1>1, <1>2, <1>4 DEF RunHolds, TurnsInOrder, Turn
<1>6. LeadsShown(run)
  <2>1. \A v \in Shown : From(v, head)
    BY DEF ReleaseInv, ShownIsPast
  <2>2. \A q \in Releaser : release[q].at = "tell" => From(V(q), head)
    BY BegunRecord
  <2> QED BY <1>4, <2>1, <2>2 DEF LeadsShown
<1>7. ReadRemotes(run) = {}
  BY <1>4 DEF ReadRemotes, HasPublished, Turn
<1>8. RunHolds(run) /\ Known(run)
  BY <1>2, <1>3, <1>4, <1>5, <1>6, <1>7
  DEF RunHolds, HeadIsPast, ReadBackHolds, SeenHolds, TurnsInOrder,
      VerifiedHolds, Known, Turn
<1>9. Still /\ UNCHANGED <<github, formula, pr, installed, train>>
  BY DEF ReadHead, Still, world, local
<1>10. Calm
  BY <1>9, StillCalm DEF OpenPull
<1>11. OneOnTrain'
  BY <1>1, <1>2, <1>9, TrainKept DEF OnTrain, TrainStage
<1> QED BY <1>1, <1>4, <1>8, <1>10, <1>11, CalmRun

LEMMA CreateTagHolds ==
  ASSUME PublishInv, ReleaseInv, NEW p \in Releaser, CreateTag(p)
  PROVE  ReleaseInv'
<1> PICK was : was = release[p]
  OBVIOUS
<1> PICK run : run = [was EXCEPT !.at = "push", !.todo = Remotes]
  OBVIOUS
<1>1. /\ was.at = "tag" /\ release' = [release EXCEPT ![p] = run]
      /\ tags' = [tags EXCEPT ![was.version] = IF @ = 0 THEN head ELSE @]
  BY DEF CreateTag, RunGoes, V
<1>2. was \in Run /\ RunHolds(was) /\ Known(was) /\ was.full
  BY <1>1, BegunRecord DEF Turn
<1>3. /\ run \in Run /\ run.at = "push" /\ run.todo = Remotes
      /\ run.full = was.full /\ run.version = was.version
      /\ run.head = was.head /\ run.verified = was.verified
      /\ run.overtaken = was.overtaken
  BY <1>2, Turns DEF Run
<1>4. ReadRemotes(run) = {}
  BY <1>3 DEF ReadRemotes, HasPublished, Remote
<1>5. SeenHolds(run) /\ TurnsInOrder(run) /\ run.verified = {}
  BY <1>1, <1>2, <1>3 DEF RunHolds, SeenHolds, TurnsInOrder, Turn
<1>6. RunHolds(run) /\ Known(run)
  <2>1. Known(run)
    BY <1>2, <1>3 DEF Known
  <2>2. run.at \notin {"idle", "train", "head"}
        /\ was.at \in TrainStage \ {"head"} /\ was.at # "train"
    BY <1>1, <1>3 DEF TrainStage
  <2>3. ReadRemotes(run) \subseteq ReadRemotes(was) /\ RunHolds(was)
    BY <1>2, <1>4
  <2>4. RunHolds(run)
    BY <1>3, <1>5, <2>2, <2>3, MovesOn
  <2> QED BY <2>1, <2>4
<1>7. PublishTypes /\ head \in Revision /\ head \in Nat
  BY History DEF PublishInv, PublishTypes
<1>8. Grows
  BY <1>1, <1>7 DEF CreateTag, PublishTypes, Grows
<1>9. Calm
  BY <1>7, <1>8, SameRefs DEF CreateTag, OpenPull, local
<1>10. OneOnTrain'
  BY <1>1, <1>2, TrainKept DEF CreateTag, OnTrain, TrainStage, local
<1> QED BY <1>1, <1>3, <1>6, <1>9, <1>10, CalmRun

LEMMA ReadBackStep ==
  ASSUME PublishInv, ReleaseInv, NEW p \in Releaser, ReadBack(p)
  PROVE  ReleaseInv'
<1> PICK was : was = release[p]
  OBVIOUS
<1> PICK run : run = [was EXCEPT !.todo = Tail(@),
                        !.at = IF Len(was.todo) = 1 THEN "github" ELSE "push"]
  OBVIOUS
<1>1. /\ was.at = "readback" /\ release' = [release EXCEPT ![p] = run]
      /\ published[Head(was.todo)].stable = was.head
      /\ published[Head(was.todo)].tags[was.version] = was.head
  BY DEF ReadBack, RunGoes, AsPushed, Now, V
<1>2. /\ was \in Run /\ RunHolds(was) /\ Known(was) /\ was.full
      /\ HasTurn(was)
  BY <1>1, BegunRecord DEF Turn, Right
<1>3. /\ was.todo \in Seq(Remote \cup Harness) /\ was.todo # <<>>
      /\ Len(was.todo) \in Nat /\ Tail(was.todo) \in Seq(Remote \cup Harness)
  BY <1>1, <1>2, HeadTailProperties, LenProperties DEF Run, HasTurn
<1>4. /\ run \in Run
      /\ run.at = (IF Len(was.todo) = 1 THEN "github" ELSE "push")
      /\ run.todo = Tail(was.todo)
      /\ run.full = was.full /\ run.version = was.version
      /\ run.head = was.head /\ run.verified = was.verified
  BY <1>2, <1>3 DEF Run
<1>5. \A r \in ReadRemotes(run) : r \in ReadRemotes(was) \/ r = Head(was.todo)
  <2>1. SUFFICES ASSUME NEW r \in ReadRemotes(run), r # Head(was.todo),
                        NEW i \in DOMAIN was.todo, was.todo[i] = r
                 PROVE  FALSE
    BY <1>1, <1>2, <1>4 DEF ReadRemotes, HasPublished
  <2>2. /\ DOMAIN was.todo = 1..Len(was.todo) /\ was.todo[1] = Head(was.todo)
        /\ Len(run.todo) = Len(was.todo) - 1
        /\ DOMAIN run.todo = 1..Len(run.todo)
        /\ \A j \in 1..Len(run.todo) : run.todo[j] = was.todo[j + 1]
    BY <1>3, <1>4, HeadTailProperties, LenProperties
  <2>3. i \in 2..Len(was.todo)
    BY <1>3, <2>1, <2>2
  <2>4. Len(was.todo) # 1 /\ i - 1 \in 1..Len(run.todo) /\ i - 1 + 1 = i
    BY <1>3, <2>2, <2>3
  <2>5. run.at = "push"
    BY <1>4, <2>4
  <2>6. i - 1 \in DOMAIN run.todo /\ run.todo[i - 1] = r
    BY <2>1, <2>2, <2>4
  <2> QED BY <1>2, <1>4, <2>5, <2>6 DEF ReadRemotes
<1>6. run.verified = {}
  BY <1>1, <1>2, <1>4 DEF RunHolds, TurnsInOrder, Turn
<1>7. ReadBackHolds(run)
  <2>1. was.head \in Nat
    BY <1>2, History DEF Run
  <2> QED BY <1>1, <1>2, <1>4, <1>5, <2>1 DEF RunHolds, ReadBackHolds
<1>8. RunHolds(run) /\ Known(run)
  BY <1>1, <1>2, <1>4, <1>6, <1>7
  DEF RunHolds, HeadIsPast, LeadsShown, SeenHolds, TurnsInOrder,
      VerifiedHolds, Known, Turn, TrainStage
<1>9. Still /\ UNCHANGED <<github, formula, pr, installed, train>>
  BY DEF ReadBack, Still, world, local
<1>10. Calm
  BY <1>9, StillCalm DEF OpenPull
<1>11. OneOnTrain'
  BY <1>1, <1>2, <1>9, TrainKept DEF OnTrain, TrainStage
<1>12. run.at # "tell"
  BY <1>4
<1> QED BY <1>1, <1>4, <1>8, <1>10, <1>11, <1>12, CalmRun

LEMMA SeenLatestHolds ==
  ASSUME PublishInv, ReleaseInv, NEW p \in Releaser, SeenLatest(p)
  PROVE  ReleaseInv'
<1> PICK was : was = release[p]
  OBVIOUS
<1> PICK run : run = [was EXCEPT !.at = "tap"]
  OBVIOUS
<1>1. /\ was.at = "latest" /\ release' = [release EXCEPT ![p] = run]
      /\ github.latest = was.version
  BY DEF SeenLatest, RunGoes, RunAt, V
<1>2. was \in Run /\ RunHolds(was) /\ was.full /\ was.version \in Version
  BY <1>1, BegunRecord DEF Turn, V
<1>3. /\ run \in Run /\ run.at = "tap" /\ run.full = was.full
      /\ run.version = was.version /\ run.head = was.head
      /\ run.verified = was.verified /\ run.overtaken = was.overtaken
  BY <1>2 DEF Run
<1>4. ReadRemotes(run) \subseteq ReadRemotes(was)
  BY <1>1, <1>2, <1>3 DEF ReadRemotes, HasPublished
<1>5. SeenHolds(run)
  BY <1>1, <1>2, <1>3, Versions DEF SeenHolds, Forward, Turn
<1>6. TurnsInOrder(run)
  BY <1>1, <1>2, <1>3 DEF RunHolds, TurnsInOrder, Turn
<1>7. Still /\ UNCHANGED <<github, formula, pr, installed, train>>
  BY DEF SeenLatest, Still, world, local
<1> QED BY <1>1, <1>2, <1>3, <1>4, <1>5, <1>6, <1>7, StillMoves
        DEF OpenPull, OnTrain, TrainStage

LEMMA ServesHolds ==
  ASSUME PublishInv, ReleaseInv, NEW p \in Releaser, Serves(p)
  PROVE  ReleaseInv'
<1> PICK was : was = release[p]
  OBVIOUS
<1> PICK run : run = [was EXCEPT !.at = "fetch", !.todo = Harnesses]
  OBVIOUS
<1>1. /\ was.at = "tap" /\ release' = [release EXCEPT ![p] = run]
      /\ formula = was.version
  BY DEF Serves, RunGoes, V
<1>2. was \in Run /\ RunHolds(was) /\ was.full /\ was.version \in Version
  BY <1>1, BegunRecord DEF Turn, V
<1>3. /\ run \in Run /\ run.at = "fetch" /\ run.full = was.full
      /\ run.todo = Harnesses
      /\ run.version = was.version /\ run.head = was.head
      /\ run.verified = was.verified /\ run.overtaken = was.overtaken
  BY <1>2, Turns DEF Run
<1>4. ReadRemotes(run) \subseteq ReadRemotes(was)
  BY <1>1, <1>2, <1>3 DEF ReadRemotes, HasPublished
<1>5. SeenHolds(run)
  <2>1. Forward(run.version, formula)
    BY <1>1, <1>2, <1>3, Versions DEF Forward
  <2>2. \A v \in Version : OpenPull(v) => Forward(run.version, v)
    BY <1>1, <1>3 DEF ReleaseInv, PullsForward
  <2> QED BY <1>1, <1>2, <1>3, <2>1, <2>2 DEF RunHolds, SeenHolds
<1>6. TurnsInOrder(run)
  BY <1>1, <1>2, <1>3, HarnessTurns DEF RunHolds, TurnsInOrder, Turn
<1>7. Still /\ UNCHANGED <<github, formula, pr, installed, train>>
  BY DEF Serves, Still, world, local
<1> QED BY <1>1, <1>2, <1>3, <1>4, <1>5, <1>6, <1>7, StillMoves
        DEF OpenPull, OnTrain, TrainStage

LEMMA ArmHolds ==
  ASSUME PublishInv, ReleaseInv, NEW p \in Releaser, Arm(p)
  PROVE  ReleaseInv'
<1> PICK was : was = release[p]
  OBVIOUS
<1> PICK run : run = [was EXCEPT !.at = "fetch", !.todo = Harnesses,
                                 !.waits = TRUE]
  OBVIOUS
<1>1. was.at = "arm" /\ release' = [release EXCEPT ![p] = run]
  BY DEF Arm, RunGoes
<1>2. was \in Run /\ RunHolds(was) /\ was.full
  BY <1>1, BegunRecord DEF Turn
<1>3. /\ run \in Run /\ run.at = "fetch" /\ run.full = was.full
      /\ run.todo = Harnesses /\ run.waits = TRUE
      /\ run.version = was.version /\ run.head = was.head
      /\ run.verified = was.verified /\ run.overtaken = was.overtaken
  BY <1>2, Turns DEF Run
<1>4. ReadRemotes(run) \subseteq ReadRemotes(was)
  BY <1>1, <1>2, <1>3 DEF ReadRemotes, HasPublished
<1>5. SeenHolds(run)
  BY <1>1, <1>2, <1>3 DEF RunHolds, SeenHolds
<1>6. TurnsInOrder(run)
  BY <1>1, <1>2, <1>3, HarnessTurns DEF RunHolds, TurnsInOrder, Turn
<1>7. Still /\ UNCHANGED <<github, formula, installed, train>>
  BY DEF Arm, Still, local
<1>8. \A v \in Version : OpenPull(v)' => OpenPull(v)
  BY DEF Arm, OpenPull, PublishInv, PublishTypes
<1> QED BY <1>1, <1>2, <1>3, <1>4, <1>5, <1>6, <1>7, <1>8, StillMoves
        DEF OnTrain, TrainStage

LEMMA FetchHolds ==
  ASSUME PublishInv, ReleaseInv, NEW p \in Releaser, Fetch(p)
  PROVE  ReleaseInv'
<1> PICK was : was = release[p]
  OBVIOUS
<1> PICK run : run = [was EXCEPT !.at = "put"]
  OBVIOUS
<1>1. was.at = "fetch" /\ release' = [release EXCEPT ![p] = run]
  BY DEF Fetch, RunGoes, RunAt
<1>2. was \in Run /\ RunHolds(was)
  BY <1>1, BegunRecord
<1>3. /\ run \in Run /\ run.at = "put" /\ run.full = was.full
      /\ run.todo = was.todo /\ run.waits = was.waits
      /\ run.version = was.version /\ run.head = was.head
      /\ run.verified = was.verified /\ run.overtaken = was.overtaken
  BY <1>2 DEF Run
<1>4. ReadRemotes(run) \subseteq ReadRemotes(was)
  BY <1>1, <1>3 DEF ReadRemotes, HasPublished, Turn
<1>5. SeenHolds(run) /\ TurnsInOrder(run)
  BY <1>1, <1>2, <1>3 DEF RunHolds, SeenHolds, TurnsInOrder, Turn
<1>6. OnTrain(run) => OnTrain(was)
  BY <1>1, <1>3 DEF OnTrain
<1>7. Still /\ UNCHANGED <<github, formula, pr, installed, train>>
  BY DEF Fetch, Still, world
<1> QED BY <1>1, <1>2, <1>3, <1>4, <1>5, <1>6, <1>7, StillMoves
        DEF OpenPull, TrainStage

LEMMA NotVerifiedHolds ==
  ASSUME PublishInv, ReleaseInv, NEW p \in Releaser, NotVerified(p)
  PROVE  ReleaseInv'
<1> PICK was : was = release[p]
  OBVIOUS
<1> PICK run : run = [was EXCEPT !.at = "fetch", !.todo = Tail(@)]
  OBVIOUS
<1>1. /\ was.at \in {"put", "verify"}
      /\ release' = [release EXCEPT ![p] = run]
  BY DEF NotVerified, RunGoes, Turned
<1>2. was \in Run /\ RunHolds(was) /\ was.todo # <<>>
  BY <1>1, BegunRecord DEF Right, HasTurn
<1>3. Tail(was.todo) \in Seq(Remote \cup Harness)
  BY <1>2, HeadTailProperties DEF Run
<1>4. /\ run \in Run /\ run.at = "fetch" /\ run.full = was.full
      /\ run.todo = Tail(was.todo) /\ run.waits = was.waits
      /\ run.version = was.version /\ run.head = was.head
      /\ run.verified = was.verified /\ run.overtaken = was.overtaken
  BY <1>2, <1>3 DEF Run
<1>5. ReadRemotes(run) \subseteq ReadRemotes(was)
  BY <1>1, <1>4 DEF ReadRemotes, HasPublished, Turn
<1>6. SeenHolds(run)
  BY <1>1, <1>2, <1>4 DEF RunHolds, SeenHolds, Turn
<1>7. TurnsInOrder(run)
  <2>1. \/ was.todo = <<"claude", "muse">> /\ was.verified = {}
        \/ was.todo = <<"muse">> /\ was.verified \subseteq {"claude"}
    BY <1>1, <1>2 DEF RunHolds, TurnsInOrder
  <2>2. \/ run.todo = <<"muse">> /\ run.verified = {}
        \/ run.todo = <<>>
    BY <1>4, <2>1, HarnessTurns DEF Harnesses
  <2> QED BY <1>4, <2>2 DEF TurnsInOrder, Turn
<1>8. OnTrain(run) => OnTrain(was)
  BY <1>1, <1>4 DEF OnTrain
<1>9. Still /\ UNCHANGED <<github, formula, pr, installed, train>>
  BY DEF NotVerified, Still, world, local
<1> QED BY <1>1, <1>2, <1>4, <1>5, <1>6, <1>7, <1>8, <1>9, StillMoves
        DEF OpenPull, TrainStage

LEMMA VerifyHolds ==
  ASSUME PublishInv, ReleaseInv, NEW p \in Releaser, Verify(p)
  PROVE  ReleaseInv'
<1> PICK was : was = release[p]
  OBVIOUS
<1> PICK run : run = [was EXCEPT !.at = "fetch", !.todo = Tail(@),
                                 !.verified = @ \cup {Head(was.todo)}]
  OBVIOUS
<1>1. /\ was.at = "verify" /\ release' = [release EXCEPT ![p] = run]
      /\ installed[Head(was.todo)] = tags[was.version]
  BY DEF Verify, RunGoes, Turned, Now, V
<1>2. /\ was \in Run /\ RunHolds(was) /\ was.todo # <<>> /\ Knows(was)
      /\ Known(was) /\ was.version \in Version
  BY <1>1, BegunRecord DEF Right, HasTurn, V
<1>3. Tail(was.todo) \in Seq(Remote \cup Harness)
  BY <1>2, HeadTailProperties DEF Run
<1>4. \/ /\ was.todo = <<"claude", "muse">> /\ was.verified = {}
         /\ Tail(was.todo) = <<"muse">> /\ Head(was.todo) = "claude"
      \/ /\ was.todo = <<"muse">> /\ was.verified \subseteq {"claude"}
         /\ Tail(was.todo) = <<>> /\ Head(was.todo) = "muse"
  BY <1>1, <1>2, HarnessTurns DEF RunHolds, TurnsInOrder, Harnesses
<1>5. /\ run \in Run /\ run.at = "fetch" /\ run.full = was.full
      /\ run.todo = Tail(was.todo) /\ run.waits = was.waits
      /\ run.version = was.version /\ run.head = was.head
      /\ run.verified = was.verified \cup {Head(was.todo)}
      /\ run.overtaken = was.overtaken
  BY <1>2, <1>3, <1>4 DEF Run, Harness
<1>6. HeadIsPast(run) /\ LeadsShown(run)
  BY <1>1, <1>2, <1>5 DEF RunHolds, HeadIsPast, LeadsShown, TrainStage
<1>7. ReadBackHolds(run)
  <2>1. ReadRemotes(run) \subseteq ReadRemotes(was)
    BY <1>1, <1>5 DEF ReadRemotes, HasPublished, Turn
  <2> QED BY <1>2, <1>5, <2>1 DEF RunHolds, ReadBackHolds
<1>8. SeenHolds(run)
  BY <1>1, <1>2, <1>5 DEF RunHolds, SeenHolds, Turn
<1>9. TurnsInOrder(run)
  BY <1>4, <1>5 DEF TurnsInOrder, Turn
<1>10. VerifiedHolds(run)
  BY <1>1, <1>2, <1>5 DEF RunHolds, VerifiedHolds
<1>11. RunHolds(run)
  BY <1>5, <1>6, <1>7, <1>8, <1>9, <1>10 DEF RunHolds
<1>12. Known(run)
  BY <1>1, <1>2, <1>5 DEF Known, Knows
<1>13. Still /\ UNCHANGED <<github, formula, pr, installed, train>>
  BY DEF Verify, Still, world, local
<1>14. Calm
  BY <1>13, StillCalm DEF OpenPull
<1>15. OneOnTrain'
  <2>1. OnTrain(run) => OnTrain(was)
    BY <1>1, <1>5 DEF OnTrain
  <2> QED BY <1>1, <1>13, <2>1, TrainKept
<1>16. run.at # "tell"
  BY <1>5
<1> QED BY <1>1, <1>5, <1>11, <1>12, <1>14, <1>15, <1>16, CalmRun

\* A full run has the train to itself until it leaves it.
LEMMA LeaveTrainHolds ==
  ASSUME PublishInv, ReleaseInv, NEW p \in Releaser, LeaveTrain(p)
  PROVE  ReleaseInv'
<1> PICK was : was = release[p]
  OBVIOUS
<1> PICK run : run = [was EXCEPT !.at = "tell"]
  OBVIOUS
<1>1. was.at = "fetch" /\ release' = [release EXCEPT ![p] = run]
  BY DEF LeaveTrain, RunGoes, RunAt
<1>2. was \in Run /\ RunHolds(was) /\ Known(was)
  BY <1>1, BegunRecord
<1>3. /\ run \in Run /\ run.at = "tell" /\ run.full = was.full
      /\ run.todo = was.todo /\ run.waits = was.waits
      /\ run.version = was.version /\ run.head = was.head
      /\ run.verified = was.verified /\ run.overtaken = was.overtaken
  BY <1>2 DEF Run
<1>4. ReadRemotes(run) \subseteq ReadRemotes(was)
  BY <1>1, <1>3 DEF ReadRemotes, HasPublished, Turn
<1>5. SeenHolds(run) /\ TurnsInOrder(run)
  BY <1>1, <1>2, <1>3 DEF RunHolds, SeenHolds, TurnsInOrder, Turn
<1>6. Known(run)
  BY <1>2, <1>3 DEF Known
<1>7. /\ run.at \notin {"idle", "train", "head"} \cup TrainStage
      /\ was.at \notin {"train", "head"}
  BY <1>1, <1>3 DEF TrainStage
<1>8. RunHolds(run)
  BY <1>2, <1>3, <1>4, <1>5, <1>7, MovesOn
<1>9. Still /\ UNCHANGED <<github, formula, pr, installed>>
  BY DEF LeaveTrain, Still, world
<1>10. Calm
  BY <1>9, StillCalm DEF OpenPull
<1>11. run.full => OnTrain(was)
  BY <1>1, <1>3 DEF OnTrain
<1>12. OneOnTrain'
  <2>1. release'[p] = run /\ \A q \in Releaser \ {p} : release'[q] = release[q]
    BY <1>1 DEF PublishInv, PublishTypes
  <2>2. ~OnTrain(run)
    BY <1>7 DEF OnTrain, TrainStage
  <2>3. CASE was.full
    <3>1. \A q \in Releaser \ {p} : ~OnTrain(release[q])
      BY <1>3, <1>11, <2>3 DEF ReleaseInv, OneOnTrain
    <3> QED BY <2>1, <2>2, <3>1 DEF OneOnTrain
  <2>4. CASE ~was.full
    <3>1. train' = train
      BY <2>4 DEF LeaveTrain
    <3> QED BY <1>1, <2>2, <3>1, TrainKept
  <2> QED BY <2>3, <2>4
<1> QED BY <1>1, <1>3, <1>6, <1>8, <1>10, <1>11, <1>12, CalmRun

LEMMA EndHolds ==
  ASSUME PublishInv, ReleaseInv, NEW p \in Releaser, Complete(p) \/ Stops(p)
  PROVE  ReleaseInv'
<1>1. release' = [release EXCEPT ![p] = NoRun]
  BY DEF Complete, Stops, RunGoes
<1>2. Still /\ UNCHANGED <<github, formula, pr, installed, train>>
  BY DEF Complete, Stops, Still, world, local
<1>3. Calm
  BY <1>2, StillCalm DEF OpenPull
<1>4. Known(NoRun)
  BY NoRunHolds DEF Known
<1>5. OneOnTrain'
  BY <1>1, <1>2, NoRunHolds, TrainKept
<1> QED BY <1>1, <1>3, <1>4, <1>5, NoRunHolds, CalmRun

LEMMA RetryHolds ==
  ASSUME PublishInv, ReleaseInv, NEW p \in Releaser, Retry(p)
  PROVE  ReleaseInv'
<1> PICK was : was = release[p]
  OBVIOUS
<1> PICK run : run = [was EXCEPT !.at = StageStart(@), !.todo = <<>>]
  OBVIOUS
<1>1. /\ was.at \in {"tag", "push", "readback", "latest", "arm"}
      /\ release' = [release EXCEPT ![p] = run]
  BY DEF Retry, RunGoes
<1>2. was \in Run /\ RunHolds(was) /\ was.full
  BY <1>1, BegunRecord DEF Turn
<1>3. \/ StageStart(was.at) = "head"
      \/ was.at = "latest" /\ StageStart(was.at) = "github"
      \/ was.at = "arm" /\ StageStart(was.at) = "tap"
  BY <1>1 DEF StageStart
<1>4. /\ run \in Run /\ run.at = StageStart(was.at) /\ run.full = was.full
      /\ run.version = was.version /\ run.head = was.head
      /\ run.verified = was.verified /\ run.overtaken = was.overtaken
  BY <1>2, <1>3, Turns DEF Run
<1>5. ReadRemotes(run) \subseteq ReadRemotes(was)
  BY <1>1, <1>2, <1>3, <1>4 DEF ReadRemotes, HasPublished, Turn
<1>6. SeenHolds(run) /\ TurnsInOrder(run)
  BY <1>1, <1>2, <1>3, <1>4 DEF RunHolds, SeenHolds, TurnsInOrder, Turn
<1>7. /\ OnTrain(run) => OnTrain(was)
      /\ run.at \in TrainStage \ {"head"} => was.at \in TrainStage \ {"head"}
      /\ run.at \notin {"idle", "tell"} /\ was.at \notin {"train", "head"}
  BY <1>1, <1>2, <1>3, <1>4 DEF OnTrain, TrainStage
<1>8. Still /\ UNCHANGED <<github, formula, pr, installed, train>>
  BY DEF Retry, Still, world, local
<1>9. \A v \in Version : OpenPull(v)' => OpenPull(v)
  BY <1>8 DEF OpenPull
<1>10. was.at # "idle"
  BY <1>1
<1> QED BY <1>1, <1>4, <1>5, <1>6, <1>7, <1>8, <1>9, <1>10, StillMoves

-----------------------------------------------------------------------------
\* A push takes nothing from a remote, and the tag that goes with it names a
\* commit of its version, or HEAD has moved.
LEMMA PushHolds ==
  ASSUME PublishInv, ReleaseInv, NEW p \in Releaser, Push(p)
  PROVE  ReleaseInv'
<1> PICK was : was = release[p]
  OBVIOUS
<1> PICK run : run = [was EXCEPT !.at = "readback"]
  OBVIOUS
<1>1. was.at = "push" /\ release' = [release EXCEPT ![p] = run]
  BY DEF Push, RunGoes, RunAt
<1>2. /\ was \in Run /\ RunHolds(was) /\ Known(was) /\ Knows(was) /\ was.full
      /\ was.version \in Version
  BY <1>1, BegunRecord DEF Turn, V
<1>3. /\ run \in Run /\ run.at = "readback" /\ run.full = was.full
      /\ run.todo = was.todo
      /\ run.version = was.version /\ run.head = was.head
      /\ run.verified = was.verified /\ run.overtaken = was.overtaken
  BY <1>2 DEF Run
<1>4. ReadRemotes(run) \subseteq ReadRemotes(was)
  BY <1>1, <1>3 DEF ReadRemotes, HasPublished, Turn
<1>5. SeenHolds(run) /\ TurnsInOrder(run)
  BY <1>1, <1>2, <1>3 DEF RunHolds, SeenHolds, TurnsInOrder, Turn
<1>6. RunHolds(run) /\ Known(run)
  <2>1. Known(run)
    BY <1>2, <1>3 DEF Known
  <2>2. was.at \in TrainStage \ {"head"} /\ was.at # "train"
    BY <1>1 DEF TrainStage
  <2>3. RunHolds(run)
    BY <1>2, <1>3, <1>4, <1>5, <2>2, MovesOn
  <2> QED BY <2>1, <2>3
<1>7. PublishTypes /\ head \in Revision /\ head \in Nat \ {0}
  BY History DEF PublishInv, PublishTypes
<1>8. /\ head' = head /\ green' = green /\ tags' = tags
      /\ UNCHANGED <<github, formula, pr, installed, train>>
  BY DEF Push, local
<1>9. adrift \subseteq adrift' /\ Grows
  <2>1. adrift \subseteq adrift'
    BY DEF Push
  <2> QED BY <1>7, <1>8, <2>1 DEF Grows
<1>10. Calm
  <2>1. CASE UNCHANGED published
    BY <1>7, <1>8, <1>9, <2>1, SameRefs DEF OpenPull
  <2>2. CASE ~UNCHANGED published
    <3> DEFINE Tags == [Version -> Revision \cup {0}]
               Refs == [main : 0..Theirs, stable : Revision \cup {0},
                        tags : Tags]
    <3> PICK r : r = Now(p)
      OBVIOUS
    <3>1. /\ FastForward(r, was.version)
          /\ published' = [published EXCEPT
               ![r] = [main |-> head, stable |-> head,
                       tags |-> [@.tags EXCEPT ![was.version] =
                                   tags[was.version]]]]
          /\ adrift' = IF head = was.checked THEN adrift
                       ELSE adrift \cup {<<was.version, head>>}
      BY <2>2 DEF Push, V
    <3>2. published \in [Remote -> Refs] /\ tags \in Tags
      BY <1>7 DEF PublishTypes
    <3>3. r \in Remote
      BY <2>2, <3>1, <3>2
    <3>4. /\ published'[r].stable = head
          /\ \A v \in Version : published'[r].tags[v] =
               IF v = was.version THEN tags[v] ELSE published[r].tags[v]
      <4> PICK moved : moved = [published[r].tags EXCEPT ![was.version] =
                                  tags[was.version]]
        OBVIOUS
      <4>1. \A v \in Version : moved[v] =
              IF v = was.version THEN tags[v] ELSE published[r].tags[v]
        BY <1>2, <3>2, <3>3
      <4>2. published'[r].stable = head /\ published'[r].tags = moved
        BY <3>1, <3>2, <3>3
      <4> QED BY <4>1, <4>2
    <3>5. \A q \in Remote : q # r => published'[q] = published[q]
      BY <3>1, <3>2, <3>3
    <3>6. /\ published[r].tags[was.version] \in {0, tags[was.version]}
          /\ published[r].stable <= head /\ published[r].stable \in Nat
      BY <3>1, <3>2, <3>3, History DEF FastForward
    <3>7. \A q \in Remote, c \in Revision :
            published[q].stable >= c => published'[q].stable >= c
      BY <1>7, <3>4, <3>5, <3>6, History
    <3>8. \A q \in Remote, v \in Version :
            published[q].tags[v] \in {0, published'[q].tags[v]}
      BY <3>4, <3>5, <3>6
    <3>9. TagsMean'
      <4>1. SUFFICES ASSUME NEW q \in Remote, NEW v \in Version
                     PROVE  LET c == published'[q].tags[v]
                            IN c = 0 \/ Manifest[c] = v \/ Adrift(v)'
        BY DEF TagsMean
      <4>2. CASE q # r \/ v # was.version
        <5>1. published'[q].tags[v] = published[q].tags[v]
          BY <3>4, <3>5, <4>2
        <5> QED BY <1>9, <5>1 DEF ReleaseInv, TagsMean, Adrift
      <4>3. CASE q = r /\ v = was.version
        <5>1. published'[q].tags[v] = tags[was.version]
          BY <3>4, <3>5, <4>3
        <5>2. CASE head = was.checked
          <6>1. tags[was.version] \in {0, was.checked}
            BY <1>2, <1>7, <5>2 DEF Knows
          <6> QED BY <1>2, <4>3, <5>1, <6>1 DEF Knows
        <5>3. CASE head # was.checked
          BY <1>7, <3>1, <4>3, <5>3 DEF Adrift
        <5> QED BY <5>2, <5>3
      <4> QED BY <4>2, <4>3
    <3> QED BY <1>8, <1>9, <3>7, <3>8, <3>9 DEF Calm, OpenPull
  <2> QED BY <2>1, <2>2
<1>11. OneOnTrain'
  BY <1>1, <1>2, <1>8, TrainKept DEF OnTrain, TrainStage
<1> QED BY <1>1, <1>3, <1>6, <1>10, <1>11, CalmRun

\* A run shows its version, which is later than all that was shown or told of.
LEMMA ShowsMore ==
  ASSUME PublishInv, ReleaseInv, Still, UNCHANGED <<formula, installed, train>>,
         NEW p \in Releaser, NEW was, was = release[p], NEW run \in Run,
         release' = [release EXCEPT ![p] = run],
         \/ was.at = "github" /\ run.at = "latest"
         \/ was.at = "tap" /\ run.at = "arm" /\ formula # was.version,
         run.full = was.full, run.version = was.version,
         run.head = was.head, run.verified = was.verified,
         run.overtaken = was.overtaken,
         \A v \in Version : OpenPull(v)' =>
           OpenPull(v) \/ (v = was.version /\ was.at = "tap"),
         \/ github' = github
         \/ github'.latest = was.version /\ was.at = "github"
  PROVE  ReleaseInv'
<1>1. /\ was \in Run /\ RunHolds(was) /\ Knows(was) /\ was.full
      /\ was.version \in Version /\ From(was.version, head) /\ Right(was)
  BY BegunRecord DEF Turn, V
<1>2. PublishTypes /\ Grows
  BY StillGrows DEF PublishInv
<1>3. /\ head' = head /\ tags' = tags /\ published' = published
      /\ adrift' = adrift
  BY DEF Still
<1>4. Shown' \subseteq Shown \cup {was.version}
  BY DEF Shown
<1>5. release'[p] = run /\ \A q \in Releaser \ {p} : release'[q] = release[q]
  BY DEF PublishInv, PublishTypes
<1>6. \A v \in Version : From(v, was.head) => Forward(v, was.version)
  <2>1. HasPublished(was) /\ TagsMean
    BY <1>1 DEF HasPublished, ReleaseInv
  <2> QED BY <1>1, <2>1, IsLater DEF RunHolds
<1>7. LeadsShown(was) /\ was.at \in TrainStage \ {"head"}
  BY <1>1 DEF RunHolds, TrainStage
<1>8. TagsMean' /\ ShownIsPast' /\ OneOnTrain'
  <2>1. TagsMean'
    BY <1>3 DEF ReleaseInv, TagsMean, Adrift
  <2>2. ShownIsPast'
    BY <1>1, <1>3, <1>4 DEF ReleaseInv, ShownIsPast
  <2>3. OneOnTrain'
    BY <1>1, TrainKept DEF OnTrain, TrainStage
  <2> QED BY <2>1, <2>2, <2>3
<1>9. PullsForward'
  <2>1. was.at = "tap" => Forward(formula, was.version)
    <3>1. formula \in Version \cup {0} /\ was.version \in Nat
      BY <1>1, Versions DEF PublishInv, PublishTypes
    <3>2. CASE formula = 0
      BY <3>1, <3>2 DEF Forward
    <3>3. ASSUME formula \in Version, was.at = "tap"
          PROVE  Forward(formula, was.version)
      BY <1>1, <1>6, <1>7, <3>3 DEF LeadsShown, Shown
    <3> QED BY <3>1, <3>2, <3>3
  <2> QED BY <1>3, <2>1 DEF ReleaseInv, PullsForward, Forward
<1>10. NoneTellsNew
  BY <1>5 DEF NoneTellsNew, V
<1>11. RunHolds(run)'
  <2>1. run.verified = {} /\ TurnsInOrder(run)'
    BY <1>1 DEF RunHolds, TurnsInOrder, Turn
  <2>2. HeadIsPast(run)'
    BY <1>1, <1>3 DEF RunHolds, HeadIsPast
  <2>3. LeadsShown(run)'
    BY <1>1, <1>4, <1>7, <1>10 DEF LeadsShown, NoneTellsNew
  <2>4. ReadBackHolds(run)'
    BY <1>1, <1>3 DEF RunHolds, ReadBackHolds, ReadRemotes, HasPublished
  <2>5. SeenHolds(run)'
    BY <1>1, <1>3 DEF RunHolds, SeenHolds, Turn, Forward
  <2> QED BY <2>1, <2>2, <2>3, <2>4, <2>5 DEF RunHolds, VerifiedHolds
<1>12. ASSUME NEW q \in Releaser, q # p PROVE RunHolds(release[q])'
  <2>1. PICK other : other = release[q] /\ other = release'[q]
    BY <1>5, <1>12
  <2>2. RunHolds(other) /\ Right(other)
    BY <2>1, OtherRecords
  <2>3. ~OnTrain(other) /\ (other.full => other.at \in {"train", "tell"})
    <3>1. OnTrain(was)
      BY <1>1, <1>7 DEF OnTrain
    <3>2. ~OnTrain(other)
      BY <1>12, <2>1, <3>1 DEF ReleaseInv, OneOnTrain
    <3> QED BY <2>2, <3>2 DEF OnTrain, TrainStage, RunHolds, Right, Run
  <2>4. HeadIsPast(other)' /\ TurnsInOrder(other)' /\ VerifiedHolds(other)'
    BY <1>3, <2>2 DEF RunHolds, HeadIsPast, TurnsInOrder, VerifiedHolds
  <2>5. LeadsShown(other)'
    BY <2>3 DEF LeadsShown, TrainStage
  <2>6. ReadBackHolds(other)'
    BY <1>3, <2>2 DEF RunHolds, ReadBackHolds, ReadRemotes, HasPublished
  <2>7. SeenHolds(other)'
    <3>1. CASE other.full /\ other.at = "tell"
      <4>1. other.version \in Version /\ From(other.version, was.head)
        BY <1>1, <1>7, <2>1, <2>2, <3>1, History
        DEF LeadsShown, V, Right, Knows
      <4>2. Forward(other.version, was.version)
        BY <1>6, <4>1
      <4> QED BY <1>3, <2>2, <3>1, <4>2 DEF RunHolds, SeenHolds, Forward, Turn
    <3>2. CASE ~(other.full /\ other.at = "tell")
      BY <2>3, <3>2 DEF SeenHolds, Turn
    <3> QED BY <3>1, <3>2
  <2>8. other.at = "idle" => ~other.full
    BY <2>2 DEF RunHolds
  <2> QED BY <2>1, <2>4, <2>5, <2>6, <2>7, <2>8 DEF RunHolds
<1> QED BY <1>5, <1>8, <1>9, <1>11, <1>12 DEF ReleaseInv

LEMMA CreateReleaseHolds ==
  ASSUME PublishInv, ReleaseInv, NEW p \in Releaser, CreateRelease(p)
  PROVE  ReleaseInv'
<1> PICK was : was = release[p]
  OBVIOUS
<1> PICK run : run = [was EXCEPT !.at = "latest"]
  OBVIOUS
<1>1. was.at = "github" /\ release' = [release EXCEPT ![p] = run]
  BY DEF CreateRelease, RunGoes, RunAt
<1>2. was \in Run
  BY <1>1, BegunRecord
<1>3. /\ run \in Run /\ run.at = "latest" /\ run.full = was.full
      /\ run.version = was.version /\ run.head = was.head
      /\ run.verified = was.verified /\ run.overtaken = was.overtaken
  BY <1>2 DEF Run
<1>4. Still /\ UNCHANGED <<formula, pr, installed, train>>
  BY DEF CreateRelease, Still, local
<1>5. github' = github \/ github'.latest = was.version
  BY DEF CreateRelease, V
<1> QED BY ZenonT(30), <1>1, <1>3, <1>4, <1>5, ShowsMore DEF OpenPull

LEMMA OpenPRHolds ==
  ASSUME PublishInv, ReleaseInv, NEW p \in Releaser, OpenPR(p)
  PROVE  ReleaseInv'
<1> PICK was : was = release[p]
  OBVIOUS
<1> PICK run : run = [was EXCEPT !.at = "arm"]
  OBVIOUS
<1>1. /\ was.at = "tap" /\ release' = [release EXCEPT ![p] = run]
      /\ formula # was.version
  BY DEF OpenPR, RunGoes, RunAt, V
<1>2. was \in Run
  BY <1>1, BegunRecord
<1>3. /\ run \in Run /\ run.at = "arm" /\ run.full = was.full
      /\ run.version = was.version /\ run.head = was.head
      /\ run.verified = was.verified /\ run.overtaken = was.overtaken
  BY <1>2 DEF Run
<1>4. Still /\ UNCHANGED <<github, formula, installed, train>>
  BY DEF OpenPR, Still, local
<1>5. \A v \in Version : OpenPull(v)' =>
        OpenPull(v) \/ (v = was.version /\ was.at = "tap")
  BY <1>1 DEF OpenPR, OpenPull, V, PublishInv, PublishTypes
<1>6. /\ was.at = "tap" /\ run.at = "arm" /\ formula # was.version
      /\ github' = github
  BY <1>1, <1>3, <1>4
<1>7. Still /\ UNCHANGED <<formula, installed, train>>
  BY <1>4
<1>8. release' = [release EXCEPT ![p] = run]
  BY <1>1
<1> QED BY ZenonT(30), <1>3, <1>5, <1>6, <1>7, <1>8, ShowsMore

\* Files that are replaced overtake whoever verified those that were there;
\* the run that replaces them has not verified that harness.
LEMMA PutFilesHolds ==
  ASSUME PublishInv, ReleaseInv, NEW p \in Releaser, PutFiles(p)
  PROVE  ReleaseInv'
<1> PICK was : was = release[p]
  OBVIOUS
<1> PICK run : run = [was EXCEPT !.at = "verify"]
  OBVIOUS
<1> PICK h : h = Now(p)
  OBVIOUS
<1>1. /\ was.at = "put" /\ h = Head(was.todo) /\ release'[p] = run
      /\ \A q \in Releaser : q # p =>
           release'[q] = [release[q] EXCEPT !.overtaken =
                            IF h \in release[q].verified THEN @ \cup {h} ELSE @]
  BY DEF PutFiles, RunAt, Now
<1>2. /\ was \in Run /\ RunHolds(was) /\ was.todo # <<>>
  BY <1>1, BegunRecord DEF Right, HasTurn
<1>3. /\ run.at = "verify" /\ run.full = was.full
      /\ run.todo = was.todo /\ run.waits = was.waits
      /\ run.version = was.version /\ run.head = was.head
      /\ run.verified = was.verified /\ run.overtaken = was.overtaken
  BY <1>2 DEF Run
<1>4. h \notin run.verified /\ TurnsInOrder(run)
  BY <1>1, <1>2, <1>3, HarnessTurns
  DEF RunHolds, TurnsInOrder, Turn, Harnesses
<1>5. /\ Still /\ UNCHANGED <<github, formula, pr, train>>
      /\ \A g \in Harness \ {h} : installed'[g] = installed[g]
  BY DEF PutFiles, Still, world, PublishInv, PublishTypes
<1>6. ASSUME NEW q \in Releaser
      PROVE  /\ release'[q].full = release[q].full
             /\ release'[q].version = release[q].version
             /\ release'[q].at = IF q = p THEN "verify" ELSE release[q].at
  <2>1. release[q] \in Run
    BY DEF PublishInv, PublishTypes
  <2>2. CASE q = p
    BY <1>3, <1>1, <2>2
  <2>3. CASE q # p
    BY <1>1, <2>1, <2>3 DEF Run
  <2> QED BY <2>2, <2>3
<1>7. NoneTellsNew
  BY <1>6 DEF NoneTellsNew, V
<1>8. OneOnTrain' /\ TagsMean' /\ PullsForward' /\ ShownIsPast'
  <2>1. \A q \in Releaser : OnTrain(release'[q]) => OnTrain(release[q])
    BY <1>1, <1>6 DEF OnTrain, TrainStage
  <2> QED BY <1>5, <2>1
          DEF ReleaseInv, OneOnTrain, TagsMean, PullsForward, ShownIsPast,
              Shown, OpenPull, Still, Adrift, Forward
<1>9. ASSUME NEW prior, NEW later, prior \in Run, RunHolds(prior),
             later.full = prior.full, later.version = prior.version,
             later.head = prior.head, later.waits = prior.waits,
             later.verified = prior.verified,
             \/ later.at = prior.at
             \/ prior.at = "put" /\ later.at = "verify",
             TurnsInOrder(later),
             later.at \in {"push", "readback"} => later.todo = prior.todo,
             \A g \in later.verified \ later.overtaken :
               g # h /\ g \notin prior.overtaken
      PROVE  RunHolds(later)'
  <2>1. HeadIsPast(later)'
    BY <1>5, <1>9 DEF RunHolds, HeadIsPast, Still
  <2>2. LeadsShown(later)'
    BY <1>5, <1>7, <1>9
    DEF RunHolds, LeadsShown, NoneTellsNew, Shown, OpenPull, TrainStage
  <2>3. ReadBackHolds(later)'
    <3>1. ReadRemotes(later)' = ReadRemotes(prior)
      BY <1>9 DEF ReadRemotes, HasPublished, Turn
    <3> QED BY <1>5, <1>9, <3>1 DEF RunHolds, ReadBackHolds, Still
  <2>4. SeenHolds(later)'
    BY <1>5, <1>9 DEF RunHolds, SeenHolds, Still, Forward, OpenPull, Turn
  <2>5. VerifiedHolds(later)'
    BY <1>5, <1>9 DEF RunHolds, VerifiedHolds, Still, Run
  <2>6. later.at = "idle" => ~later.full
    BY <1>9 DEF RunHolds
  <2>7. TurnsInOrder(later)'
    BY <1>9 DEF TurnsInOrder
  <2> QED BY <2>1, <2>2, <2>3, <2>4, <2>5, <2>6, <2>7 DEF RunHolds
<1>10. RunHolds(run)'
  BY <1>1, <1>2, <1>3, <1>4, <1>9
<1>11. ASSUME NEW q \in Releaser, q # p PROVE RunHolds(release[q])'
  <2> PICK prior : prior = release[q]
    OBVIOUS
  <2> PICK later : later = release'[q]
    OBVIOUS
  <2>1. prior \in Run /\ RunHolds(prior)
    BY OtherRecords
  <2>2. later = [prior EXCEPT !.overtaken =
                 IF h \in prior.verified THEN @ \cup {h} ELSE @]
    BY <1>1, <1>11
  <2>3. /\ later.full = prior.full /\ later.version = prior.version
        /\ later.head = prior.head /\ later.waits = prior.waits
        /\ later.verified = prior.verified /\ later.at = prior.at
        /\ later.todo = prior.todo
        /\ later.overtaken =
             IF h \in prior.verified THEN prior.overtaken \cup {h}
             ELSE prior.overtaken
    BY <2>1, <2>2 DEF Run
  <2>4. \A g \in later.verified \ later.overtaken : g # h /\ g \notin prior.overtaken
    BY <2>3
  <2>5. TurnsInOrder(later)
    BY <2>1, <2>3 DEF RunHolds, TurnsInOrder
  <2>6. RunHolds(later)'
    BY <1>9, <2>1, <2>3, <2>4, <2>5
  <2> QED BY <2>6
<1> QED BY <1>1, <1>8, <1>10, <1>11 DEF ReleaseInv

LEMMA ReleaseBegins == PublishInit => ReleaseInv
<1> SUFFICES ASSUME PublishInit PROVE ReleaseInv
  OBVIOUS
<1>1. \A p \in Releaser : release[p] = NoRun
  BY DEF PublishInit
<1>2. \A v \in Version : ~OpenPull(v)
  BY DEF PublishInit, OpenPull
<1>3. Shown = {}
  BY <1>2, Versions DEF PublishInit, Shown
<1>4. TagsMean
  BY DEF PublishInit, TagsMean
<1> QED BY <1>1, <1>2, <1>3, <1>4, NoRunHolds
        DEF ReleaseInv, OneOnTrain, PullsForward, ShownIsPast

\* No step of a release or of the world takes back what others rely on.
LEMMA ReleaseStep ==
  PublishInv /\ ReleaseInv /\ [PublishNext]_publishVars => ReleaseInv'
<1> SUFFICES ASSUME PublishInv, ReleaseInv, [PublishNext]_publishVars
             PROVE  ReleaseInv'
  OBVIOUS
<1>1. CASE UNCHANGED publishVars
  <2>1. Still /\ UNCHANGED <<github, formula, pr, installed, train, release>>
    BY <1>1 DEF publishVars, world, local, Still
  <2>2. Calm
    BY <2>1, StillCalm DEF OpenPull
  <2>3. OneOnTrain'
    BY <2>1 DEF ReleaseInv, OneOnTrain
  <2> QED BY <2>1, <2>2, <2>3, CalmWorld
<1>2. CASE PublishNext
  BY <1>2, WorldHolds, TapMergeHolds, PreflightHolds, HoldTrainHolds,
     ReadHeadHolds, CreateTagHolds, PushHolds, ReadBackStep,
     CreateReleaseHolds, SeenLatestHolds, ServesHolds, OpenPRHolds, ArmHolds,
     FetchHolds, PutFilesHolds, VerifyHolds, NotVerifiedHolds,
     LeaveTrainHolds, EndHolds, RetryHolds
  DEF PublishNext
<1> QED BY <1>1, <1>2

\* Only a merge moves what the tap serves.
LEMMA TapGoesForward ==
  ASSUME PublishInv, ReleaseInv, [PublishNext]_publishVars
  PROVE  TapForward
<1>1. CASE formula' = formula
  <2>1. formula \in Nat
    BY Versions DEF PublishInv, PublishTypes
  <2> QED BY <1>1, <2>1 DEF TapForward, Forward
<1>2. ASSUME NEW v \in Version, TapMerges(v) PROVE TapForward
  BY <1>2 DEF TapMerges, ReleaseInv, PullsForward, OpenPull, TapForward
<1>3. formula' = formula \/ \E v \in Version : TapMerges(v)
  BY DEF PublishNext, publishVars, world, NewCommit, PushMain, CIPasses,
     FreeTrain, TapCloses, Preflight, HoldTrain, ReadHead, CreateTag, Push,
     ReadBack, CreateRelease, SeenLatest, Serves, OpenPR, Arm, Fetch,
     PutFiles, Verify, NotVerified, LeaveTrain, Complete, Stops, Retry
<1> QED BY <1>1, <1>2, <1>3

\* What a run knows when it says that its release is complete.
LEMMA CompleteKnows ==
  ASSUME PublishInv, ReleaseInv
  PROVE  CompleteIsTrue
<1> SUFFICES ASSUME NEW p \in Releaser, Complete(p)
             PROVE  /\ \A h \in Harness \ release[p].overtaken :
                         installed[h] = tags[V(p)]
                    /\ release[p].full =>
                         /\ \A r \in Remote :
                              /\ published[r].tags[V(p)] = tags[V(p)]
                              /\ published[r].stable >= tags[V(p)]
                         /\ Forward(V(p), github.latest)
                         /\ Forward(V(p), formula)
  BY DEF CompleteIsTrue
<1> PICK was : was = release[p]
  OBVIOUS
<1>1. was.at = "tell" /\ was.verified = Harness /\ Merged(p)
  BY DEF Complete, RunGoes
<1>2. RunHolds(was) /\ V(p) \in Version /\ was.version = V(p)
  BY <1>1, BegunRecord DEF V
<1>3. \A h \in Harness \ was.overtaken : installed[h] = tags[V(p)]
  BY <1>1, <1>2 DEF RunHolds, VerifiedHolds
<1>4. ASSUME was.full
      PROVE  /\ \A r \in Remote : /\ published[r].tags[V(p)] = tags[V(p)]
                                  /\ published[r].stable >= tags[V(p)]
             /\ Forward(V(p), github.latest) /\ Forward(V(p), formula)
  <2>1. was.head \in Revision /\ was.head # 0
    BY <1>1, <1>2, <1>4, History DEF RunHolds, HeadIsPast
  <2>2. ReadRemotes(was) = Remote
    BY <1>1, <1>4 DEF ReadRemotes, HasPublished, Turn
  <2>3. \A r \in Remote : /\ published[r].tags[V(p)] = was.head
                          /\ published[r].stable >= was.head
    BY <1>2, <2>2 DEF RunHolds, ReadBackHolds
  <2>4. tags[V(p)] = was.head
    <3>1. PICK r \in Remote : published[r].tags[V(p)] = was.head
      BY <2>3, Versions
    <3> QED BY <1>2, <2>1, <3>1 DEF PublishInv, TagsKept
  <2>5. Forward(V(p), github.latest)
    BY <1>1, <1>2, <1>4 DEF RunHolds, SeenHolds, Turn
  <2>6. Forward(V(p), formula)
    <3>1. CASE was.waits
      BY <1>1, <1>2, <3>1, Versions DEF Merged, Forward
    <3>2. CASE ~was.waits
      BY <1>1, <1>2, <1>4, <3>2 DEF RunHolds, SeenHolds, Turn
    <3> QED BY <3>1, <3>2
  <2> QED BY <2>3, <2>4, <2>5, <2>6
<1> QED BY <1>3, <1>4

\* Nothing stable names is unchecked, the tap never goes back but for a run
\* whose HEAD moved, and a release said to be complete is (release.py:26).
THEOREM PublishIsKept == PublishSpec => PublishKept
<1>1. PublishInit => PublishInv /\ ReleaseInv
  BY PublishBegins, ReleaseBegins
<1>2. PublishInv /\ ReleaseInv /\ [PublishNext]_publishVars =>
        (PublishInv /\ ReleaseInv)'
  BY PublishStep, ReleaseStep
<1> DEFINE Promised == StableIsChecked' /\ TapForward /\ CompleteIsTrue
<1>3. PublishInv /\ ReleaseInv /\ [PublishNext]_publishVars =>
        [Promised]_publishVars
  BY PublishStep, TapGoesForward, CompleteKnows DEF PublishInv
<1>4. PublishKept <=> [][Promised]_publishVars
  BY PTL DEF PublishKept
<1> HIDE DEF Promised
<1> QED BY <1>1, <1>2, <1>3, <1>4, PTL DEF PublishSpec
-----------------------------------------------------------------------------
(* CommitCheck                                                             *)

\* A line counts as approved, for whoever reads it, only if it was.
OnlyApproved ==
  /\ \A l \in allowed \cup granted : grants[l] > 0
  /\ \A c \in Commit : \A l \in check[c].allowed \cup check[c].granted :
       grants[l] > 0

\* A check that refused nothing has still to judge what it read and nobody
\* approved, or it passed it as moved, or HEAD had it unjudged.
PlacesJudged ==
  \A c \in Running, l \in staged :
    \/ l \in check[c].unseen \/ l.place \in catalogs
    \/ l \in check[c].todo \/ l \in check[c].passed
    \/ l \in excused \/ grants[l] > 0

\* The texts that count as approved.
KnownTexts == {x \in Phrase : KnownText(x)}

\* ... and so for the texts, of which HEAD has those that passed as moved.
TextsJudged ==
  \A c \in Running, l \in staged :
    \/ l \in check[c].unseen \/ l.place \in catalogs
    \/ l \in check[c].todo \/ l.text \in KnownTexts

\* A check that ends has judged every line and saved what it spent.
NothingHeld ==
  \A c \in Commit :
    /\ check[c].at \in {"idle", "commit"} => check[c].granted = {}
    /\ check[c].at = "commit" => check[c].todo = {}
    /\ check[c].at \in {"idle", "diff", "moved"} => check[c].passed = {}

\* What a check has of the file is the file, unless another has written it.
ReadIsFresh ==
  \A c \in Commit :
    check[c].at \in {"diff", "moved", "judge"} /\ ~check[c].overtaken
      => check[c].allowed = allowed

CommitInv ==
  /\ CheckTypes /\ OnlyApproved /\ PlacesJudged /\ TextsJudged
  /\ NothingHeld /\ ReadIsFresh
  /\ NewTextIsApproved /\ PlaceIsApproved /\ SpentIsKept

CheckRecord ==
  [at : {"idle", "diff", "moved", "judge", "commit"},
   allowed : SUBSET Disclosure, todo : SUBSET Disclosure, granted : SUBSET Disclosure,
   unseen : SUBSET Disclosure, passed : SUBSET Disclosure,
   refused : BOOLEAN, overtaken : BOOLEAN]

\* A check that judges a line keeps the types of what it has.
LEMMA JudgeTyped ==
  ASSUME CheckTypes, NEW c \in Commit, NEW l \in Disclosure, NEW r,
         JudgesLine(c, l, r),
         r \in {Rest(c, l), Refused(c, l),
                [Rest(c, l) EXCEPT !.granted = Rest(c, l).granted \cup {l}]}
  PROVE  check' \in [Commit -> CheckRecord]
<1>1. check \in [Commit -> CheckRecord]
  BY DEF CheckTypes, CheckRecord
<1>2. Rest(c, l) \in CheckRecord
  BY <1>1 DEF Rest, CheckRecord
<1>3. ASSUME NEW q \in CheckRecord
      PROVE  /\ [q EXCEPT !.refused = TRUE, !.unseen = {}, !.passed = {}]
                  \in CheckRecord
             /\ [q EXCEPT !.granted = q.granted \cup {l}] \in CheckRecord
  BY DEF CheckRecord
<1>4. r \in CheckRecord
  BY <1>2, <1>3 DEF Refused
<1> QED BY <1>1, <1>4 DEF JudgesLine, Checks

LEMMA CheckTypesStep ==
  CheckTypes /\ [CheckNext]_checkVars => CheckTypes'
<1> SUFFICES ASSUME CheckTypes, [CheckNext]_checkVars
             PROVE  CheckTypes'
  OBVIOUS
<1>a. ASSUME NEW c \in Commit, NEW l \in Disclosure,
             \/ PassAllowed(c, l) \/ SpendLine(c, l)
             \/ WasteLine(c, l) \/ AskLine(c, l)
      PROVE  CheckTypes'
  <2>1. check' \in [Commit -> CheckRecord]
    <3>1. Rest(c, l).granted = check[c].granted
      BY DEF Rest, CheckTypes
    <3> QED BY <1>a, <3>1, JudgeTyped
         DEF PassAllowed, SpendLine, WasteLine, AskLine
  <2>2. /\ UNCHANGED <<repository, allowed, grants, unasked, excused>>
        /\ granted' \subseteq granted /\ lost' \subseteq lost \cup {l}
    BY <1>a DEF PassAllowed, SpendLine, WasteLine, AskLine, history
  <2> QED BY <2>1, <2>2 DEF CheckTypes, CheckRecord, repository
<1>b. check \in [Commit -> CheckRecord]
  BY DEF CheckTypes, CheckRecord
<1>1. ASSUME NEW l \in Disclosure, StageLine(l) PROVE CheckTypes'
  <2>1. \A q \in CheckRecord :
          [q EXCEPT !.unseen = q.unseen \cup {l}] \in CheckRecord
    BY DEF CheckRecord
  <2>2. check' \in [Commit -> CheckRecord]
    BY <1>b, <1>1, <2>1 DEF StageLine
  <2>3. /\ staged' = staged \cup {l}
        /\ UNCHANGED <<catalogs, inHead, allowed, granted, grants, history>>
    BY <1>1 DEF StageLine
  <2> QED BY <2>2, <2>3 DEF CheckTypes, CheckRecord, history
<1>5. ASSUME NEW c \in Commit, ReadStaged(c) PROVE CheckTypes'
  <2> DEFINE r == [check[c] EXCEPT !.at = "moved", !.todo = Added]
  <2>0. staged \in SUBSET Disclosure
    BY DEF CheckTypes
  <2>1. Added \in SUBSET Disclosure
    BY <2>0 DEF Added
  <2>2. r \in CheckRecord
    BY <1>b, <2>1 DEF CheckRecord
  <2>3. /\ check' = [check EXCEPT ![c] = r]
        /\ UNCHANGED <<repository, allowed, granted, grants, history>>
    BY <1>5 DEF ReadStaged, Checks
  <2> HIDE DEF r
  <2>4. check' \in [Commit -> CheckRecord]
    BY <1>b, <2>2, <2>3
  <2> QED BY <2>3, <2>4 DEF CheckTypes, CheckRecord, repository, history
<1>8. ASSUME NEW c \in Commit, CommitIndex(c) PROVE CheckTypes'
  <2>1. staged \in SUBSET Disclosure /\ Texts(Unjudged(c)) \in SUBSET Phrase
    BY DEF CheckTypes, Texts, Unjudged, Disclosure
  <2>2. NoCheck \in CheckRecord
    BY DEF NoCheck, CheckRecord
  <2>3. check' \in [Commit -> CheckRecord]
    BY <1>b, <1>8, <2>2 DEF CommitIndex, Checks
  <2>4. /\ inHead' = staged /\ unasked' = unasked \cup Texts(Unjudged(c))
        /\ excused' \subseteq staged
        /\ UNCHANGED <<catalogs, staged, allowed, granted, grants, lost>>
    BY <1>8 DEF CommitIndex
  <2> QED BY <2>1, <2>3, <2>4 DEF CheckTypes, CheckRecord
<1> USE DEF CheckTypes, CheckRecord, Checks, NoCheck, repository, history
<1>2. ASSUME NEW l \in Disclosure, RemoveLine(l) PROVE CheckTypes'
  BY <1>2 DEF RemoveLine
<1>3. ASSUME NEW l \in Disclosure, ApproveLine(l) PROVE CheckTypes'
  <2>1. /\ grants[l] \in 0..Again /\ grants[l] < Again
        /\ grants' = [grants EXCEPT ![l] = grants[l] + 1]
    BY <1>3 DEF ApproveLine
  <2>2. grants[l] + 1 \in 0..Again
    BY <2>1, CheckAssumption
  <2>3. grants' \in [Disclosure -> 0..Again]
    BY <2>1, <2>2
  <2>4. granted' \subseteq Disclosure
    BY <1>3 DEF ApproveLine
  <2>5. UNCHANGED <<repository, allowed, check, history>>
    BY <1>3 DEF ApproveLine
  <2> QED BY <2>3, <2>4, <2>5
<1>4. ASSUME NEW c \in Commit, ReadAllowed(c) PROVE CheckTypes'
  BY <1>4 DEF ReadAllowed
<1>6. ASSUME NEW c \in Commit, PassMoved(c) PROVE CheckTypes'
  BY ZenonT(30), <1>6 DEF PassMoved
<1>7. ASSUME NEW c \in Commit, JudgedAll(c) PROVE CheckTypes'
  <2> DEFINE Ended == [check[c] EXCEPT
                        !.at = IF @ = "judge" THEN "commit" ELSE @,
                        !.allowed = {}, !.granted = {}, !.overtaken = FALSE]
             Late(o) == check[o].overtaken \/
               (allowed' # allowed /\ check[o].at \in
                                        {"diff", "moved", "judge"})
  <2>1. Ended \in CheckRecord
    OBVIOUS
  <2>2. \A o \in Commit, b \in BOOLEAN :
          [check[o] EXCEPT !.overtaken = b] \in CheckRecord
    OBVIOUS
  <2>3. check' = [o \in Commit |-> IF o = c THEN Ended ELSE
                   [check[o] EXCEPT !.overtaken = Late(o)]]
    BY <1>7 DEF JudgedAll
  <2>4. \A o \in Commit : Late(o) \in BOOLEAN
    OBVIOUS
  <2> HIDE DEF Ended, Late
  <2>5. check' \in [Commit -> CheckRecord]
    <3>1. \A o \in Commit : check'[o] \in CheckRecord
      BY <2>1, <2>2, <2>3, <2>4, ZenonT(30)
    <3> QED BY <2>3, <3>1
  <2>6. allowed' \subseteq Disclosure /\ lost' \subseteq Disclosure
    BY <1>7 DEF JudgedAll, AllowedNow
  <2> QED BY <1>7, <2>5, <2>6 DEF JudgedAll
<1>9. ASSUME NEW c \in Commit, RefuseCommit(c) PROVE CheckTypes'
  BY <1>9 DEF RefuseCommit
<1>10. ASSUME NEW c \in Commit, CheckDies(c) PROVE CheckTypes'
  BY <1>10 DEF CheckDies
<1>11. CASE UNCHANGED checkVars
  BY <1>11 DEF checkVars
<1> QED
  BY <1>a, <1>1, <1>2, <1>3, <1>4, <1>5, <1>6, <1>7, <1>8, <1>9, <1>10, <1>11
  DEF CheckNext

LEMMA OnlyApprovedStep ==
  CheckTypes /\ OnlyApproved /\ [CheckNext]_checkVars =>
    OnlyApproved'
<1> SUFFICES ASSUME CheckTypes, OnlyApproved,
                    [CheckNext]_checkVars
             PROVE  OnlyApproved'
  OBVIOUS
<1> USE DEF CheckTypes, OnlyApproved, Checks, JudgesLine, Rest, Refused, NoCheck, repository,
            history
<1>1. ASSUME NEW l \in Disclosure, StageLine(l) PROVE OnlyApproved'
  BY <1>1 DEF StageLine
<1>2. ASSUME NEW l \in Disclosure, RemoveLine(l) PROVE OnlyApproved'
  BY <1>2 DEF RemoveLine
<1>3. ASSUME NEW l \in Disclosure, ApproveLine(l) PROVE OnlyApproved'
  BY <1>3 DEF ApproveLine
<1>4. ASSUME NEW c \in Commit, NEW l \in Disclosure, PassAllowed(c, l)
      PROVE  OnlyApproved'
  BY <1>4 DEF PassAllowed
<1>5. ASSUME NEW c \in Commit, NEW l \in Disclosure, SpendLine(c, l)
      PROVE  OnlyApproved'
  BY <1>5 DEF SpendLine
<1>6. ASSUME NEW c \in Commit, NEW l \in Disclosure, WasteLine(c, l)
      PROVE  OnlyApproved'
  BY <1>6 DEF WasteLine
<1>7. ASSUME NEW c \in Commit, NEW l \in Disclosure, AskLine(c, l) PROVE OnlyApproved'
  BY <1>7 DEF AskLine
<1>8. ASSUME NEW c \in Commit, ReadAllowed(c) PROVE OnlyApproved'
  BY <1>8 DEF ReadAllowed
<1>9. ASSUME NEW c \in Commit, ReadStaged(c) PROVE OnlyApproved'
  BY <1>9 DEF ReadStaged
<1>10. ASSUME NEW c \in Commit, PassMoved(c) PROVE OnlyApproved'
  BY <1>10 DEF PassMoved
<1>11. ASSUME NEW c \in Commit, JudgedAll(c) PROVE OnlyApproved'
  BY <1>11 DEF JudgedAll, AllowedNow
<1>12. ASSUME NEW c \in Commit, CommitIndex(c) PROVE OnlyApproved'
  BY <1>12 DEF CommitIndex, NothingRefused
<1>13. ASSUME NEW c \in Commit, RefuseCommit(c) PROVE OnlyApproved'
  BY <1>13 DEF RefuseCommit
<1>14. ASSUME NEW c \in Commit, CheckDies(c) PROVE OnlyApproved'
  BY <1>14 DEF CheckDies
<1>15. CASE UNCHANGED checkVars
  BY <1>15 DEF checkVars
<1> QED
  BY <1>1, <1>2, <1>3, <1>4, <1>5, <1>6, <1>7, <1>8, <1>9, <1>10, <1>11, <1>12,
     <1>13, <1>14, <1>15
  DEF CheckNext

\* What was approved somewhere, or got into HEAD unasked, stays so.
LEMMA KnownStays ==
  CheckTypes /\ [CheckNext]_checkVars => KnownTexts \subseteq KnownTexts'
<1> SUFFICES ASSUME CheckTypes, [CheckNext]_checkVars
             PROVE  KnownTexts \subseteq KnownTexts'
  OBVIOUS
<1>1. unasked \subseteq unasked'
  BY DEF CheckNext, StageLine, RemoveLine, ApproveLine, PassAllowed, SpendLine,
      WasteLine, AskLine, ReadAllowed, ReadStaged, PassMoved, JudgedAll,
      CommitIndex, RefuseCommit, CheckDies, checkVars, history
<1>2. ASSUME NEW k \in Disclosure, grants[k] > 0 PROVE grants'[k] > 0
  <2>1. ASSUME NEW l \in Disclosure, ApproveLine(l) PROVE grants'[k] > 0
    BY <1>2, <2>1 DEF ApproveLine, CheckTypes
  <2>2. CASE UNCHANGED grants
    BY <1>2, <2>2
  <2> QED BY <2>1, <2>2
    DEF CheckNext, StageLine, RemoveLine, PassAllowed, SpendLine, WasteLine,
        AskLine, ReadAllowed, ReadStaged, PassMoved, JudgedAll, CommitIndex,
        RefuseCommit, CheckDies, checkVars
<1>3. ASSUME NEW x \in Phrase, KnownText(x) PROVE KnownText(x)'
  <2>1. CASE x \in unasked
    BY <1>1, <2>1, Zenon DEF KnownText
  <2>2. CASE \E k \in Disclosure : k.text = x /\ grants[k] > 0
    BY <1>2, <2>2, Zenon DEF KnownText
  <2> QED BY <1>3, <2>1, <2>2, Zenon DEF KnownText
<1> QED BY <1>3, Zenon DEF KnownTexts

LEMMA KnownNow ==
  CheckTypes /\ NewTextIsApproved =>
    /\ \A l \in inHead : l.text \in KnownTexts
    /\ \A l \in Disclosure : grants[l] > 0 => l.text \in KnownTexts
<1>1. \A l \in Disclosure : l.text \in Phrase
  BY DEF Disclosure
<1>2. CheckTypes => inHead \in SUBSET Disclosure
  BY DEF CheckTypes
<1>3. \A l \in Disclosure : grants[l] > 0 => KnownText(l.text)
  BY Zenon DEF KnownText
<1> QED BY <1>1, <1>2, <1>3, Zenon DEF KnownTexts, NewTextIsApproved

\* A line staged since a check read the index is unseen; what it read and
\* passed was in HEAD, in the file or granted.
LEMMA PlacesStep ==
  CheckTypes /\ OnlyApproved /\ PlaceIsApproved /\ NothingHeld /\ PlacesJudged
  /\ [CheckNext]_checkVars =>
    PlacesJudged'
<1> SUFFICES ASSUME CheckTypes, OnlyApproved, PlaceIsApproved, NothingHeld,
                    PlacesJudged,
                    [CheckNext]_checkVars
             PROVE  PlacesJudged'
  OBVIOUS
<1> USE DEF CheckTypes, PlacesJudged, NothingHeld, OnlyApproved,
            PlaceIsApproved, Running, Checks, JudgesLine, Rest, Refused, NoCheck, repository,
            history
<1>1. ASSUME NEW l \in Disclosure, StageLine(l) PROVE PlacesJudged'
  BY <1>1 DEF StageLine
<1>2. ASSUME NEW l \in Disclosure, RemoveLine(l) PROVE PlacesJudged'
  BY <1>2 DEF RemoveLine
<1>3. ASSUME NEW l \in Disclosure, ApproveLine(l) PROVE PlacesJudged'
  BY <1>3 DEF ApproveLine
<1>4. ASSUME NEW c \in Commit, NEW l \in Disclosure, PassAllowed(c, l)
      PROVE  PlacesJudged'
  BY <1>4 DEF PassAllowed
<1>5. ASSUME NEW c \in Commit, NEW l \in Disclosure, SpendLine(c, l)
      PROVE  PlacesJudged'
  BY <1>5 DEF SpendLine
<1>6. ASSUME NEW c \in Commit, NEW l \in Disclosure, WasteLine(c, l)
      PROVE  PlacesJudged'
  BY <1>6 DEF WasteLine
<1>7. ASSUME NEW c \in Commit, NEW l \in Disclosure, AskLine(c, l) PROVE PlacesJudged'
  BY <1>7 DEF AskLine
<1>8. ASSUME NEW c \in Commit, ReadAllowed(c) PROVE PlacesJudged'
  BY <1>8 DEF ReadAllowed
<1>9. ASSUME NEW c \in Commit, ReadStaged(c) PROVE PlacesJudged'
  BY <1>9 DEF ReadStaged, Added
<1>10. ASSUME NEW c \in Commit, PassMoved(c) PROVE PlacesJudged'
  BY <1>10 DEF PassMoved
<1>11. ASSUME NEW c \in Commit, JudgedAll(c) PROVE PlacesJudged'
  BY <1>11 DEF JudgedAll, AllowedNow
<1>12. ASSUME NEW c \in Commit, CommitIndex(c) PROVE PlacesJudged'
  BY <1>12 DEF CommitIndex, NothingRefused
<1>13. ASSUME NEW c \in Commit, RefuseCommit(c) PROVE PlacesJudged'
  BY <1>13 DEF RefuseCommit
<1>14. ASSUME NEW c \in Commit, CheckDies(c) PROVE PlacesJudged'
  BY <1>14 DEF CheckDies
<1>15. CASE UNCHANGED checkVars
  BY <1>15 DEF checkVars
<1> QED
  BY <1>1, <1>2, <1>3, <1>4, <1>5, <1>6, <1>7, <1>8, <1>9, <1>10, <1>11, <1>12,
     <1>13, <1>14, <1>15
  DEF CheckNext

\* What passes as moved has a text of HEAD's.
LEMMA TextsStep ==
  CheckTypes /\ OnlyApproved /\ NewTextIsApproved /\ TextsJudged /\
  [CheckNext]_checkVars =>
    TextsJudged'
<1> SUFFICES ASSUME CheckTypes, OnlyApproved, NewTextIsApproved, TextsJudged,
                    [CheckNext]_checkVars
             PROVE  TextsJudged'
  OBVIOUS
<1> USE DEF CheckTypes, TextsJudged, OnlyApproved, Running, Checks,
            JudgesLine, Rest, Refused, NoCheck, repository, history
<1>a. KnownTexts \subseteq KnownTexts'
  BY KnownStays
<1>b. /\ \A l \in inHead : l.text \in KnownTexts
      /\ \A l \in Disclosure : grants[l] > 0 => l.text \in KnownTexts
  BY KnownNow
<1>1. ASSUME NEW l \in Disclosure, StageLine(l) PROVE TextsJudged'
  BY <1>a, <1>b, <1>1 DEF StageLine
<1>2. ASSUME NEW l \in Disclosure, RemoveLine(l) PROVE TextsJudged'
  BY <1>a, <1>b, <1>2 DEF RemoveLine
<1>3. ASSUME NEW l \in Disclosure, ApproveLine(l) PROVE TextsJudged'
  BY <1>a, <1>b, <1>3 DEF ApproveLine
<1>4. ASSUME NEW c \in Commit, NEW l \in Disclosure, PassAllowed(c, l)
      PROVE  TextsJudged'
  BY <1>a, <1>b, <1>4 DEF PassAllowed
<1>5. ASSUME NEW c \in Commit, NEW l \in Disclosure, SpendLine(c, l)
      PROVE  TextsJudged'
  BY <1>a, <1>b, <1>5 DEF SpendLine
<1>6. ASSUME NEW c \in Commit, NEW l \in Disclosure, WasteLine(c, l)
      PROVE  TextsJudged'
  BY <1>a, <1>b, <1>6 DEF WasteLine
<1>7. ASSUME NEW c \in Commit, NEW l \in Disclosure, AskLine(c, l) PROVE TextsJudged'
  BY <1>a, <1>b, <1>7 DEF AskLine
<1>8. ASSUME NEW c \in Commit, ReadAllowed(c) PROVE TextsJudged'
  BY <1>a, <1>b, <1>8 DEF ReadAllowed
<1>9. ASSUME NEW c \in Commit, ReadStaged(c) PROVE TextsJudged'
  BY <1>a, <1>b, <1>9 DEF ReadStaged, Added
<1>10. ASSUME NEW c \in Commit, PassMoved(c) PROVE TextsJudged'
  BY <1>a, <1>b, <1>10 DEF PassMoved, InHead
<1>11. ASSUME NEW c \in Commit, JudgedAll(c) PROVE TextsJudged'
  BY <1>a, <1>b, <1>11 DEF JudgedAll, AllowedNow
<1>12. ASSUME NEW c \in Commit, CommitIndex(c) PROVE TextsJudged'
  BY <1>a, <1>b, <1>12 DEF CommitIndex, NothingRefused
<1>13. ASSUME NEW c \in Commit, RefuseCommit(c) PROVE TextsJudged'
  BY <1>a, <1>b, <1>13 DEF RefuseCommit
<1>14. ASSUME NEW c \in Commit, CheckDies(c) PROVE TextsJudged'
  BY <1>a, <1>b, <1>14 DEF CheckDies
<1>15. CASE UNCHANGED checkVars
  BY <1>a, <1>b, <1>15 DEF checkVars
<1> QED
  BY <1>1, <1>2, <1>3, <1>4, <1>5, <1>6, <1>7, <1>8, <1>9, <1>10, <1>11, <1>12,
     <1>13, <1>14, <1>15
  DEF CheckNext

LEMMA NothingHeldStep ==
  CheckTypes /\ NothingHeld /\ [CheckNext]_checkVars =>
    NothingHeld'
<1> SUFFICES ASSUME CheckTypes, NothingHeld,
                    [CheckNext]_checkVars
             PROVE  NothingHeld'
  OBVIOUS
<1> USE DEF CheckTypes, NothingHeld, Checks, JudgesLine, Rest, Refused, NoCheck, repository,
            history
<1>1. ASSUME NEW l \in Disclosure, StageLine(l) PROVE NothingHeld'
  BY <1>1 DEF StageLine
<1>2. ASSUME NEW l \in Disclosure, RemoveLine(l) PROVE NothingHeld'
  BY <1>2 DEF RemoveLine
<1>3. ASSUME NEW l \in Disclosure, ApproveLine(l) PROVE NothingHeld'
  BY <1>3 DEF ApproveLine
<1>4. ASSUME NEW c \in Commit, NEW l \in Disclosure, PassAllowed(c, l)
      PROVE  NothingHeld'
  BY <1>4 DEF PassAllowed
<1>5. ASSUME NEW c \in Commit, NEW l \in Disclosure, SpendLine(c, l)
      PROVE  NothingHeld'
  BY <1>5 DEF SpendLine
<1>6. ASSUME NEW c \in Commit, NEW l \in Disclosure, WasteLine(c, l)
      PROVE  NothingHeld'
  BY <1>6 DEF WasteLine
<1>7. ASSUME NEW c \in Commit, NEW l \in Disclosure, AskLine(c, l) PROVE NothingHeld'
  BY <1>7 DEF AskLine
<1>8. ASSUME NEW c \in Commit, ReadAllowed(c) PROVE NothingHeld'
  BY <1>8 DEF ReadAllowed
<1>9. ASSUME NEW c \in Commit, ReadStaged(c) PROVE NothingHeld'
  BY <1>9 DEF ReadStaged
<1>10. ASSUME NEW c \in Commit, PassMoved(c) PROVE NothingHeld'
  BY <1>10 DEF PassMoved
<1>11. ASSUME NEW c \in Commit, JudgedAll(c) PROVE NothingHeld'
  BY <1>11 DEF JudgedAll, AllowedNow
<1>12. ASSUME NEW c \in Commit, CommitIndex(c) PROVE NothingHeld'
  BY <1>12 DEF CommitIndex, NothingRefused
<1>13. ASSUME NEW c \in Commit, RefuseCommit(c) PROVE NothingHeld'
  BY <1>13 DEF RefuseCommit
<1>14. ASSUME NEW c \in Commit, CheckDies(c) PROVE NothingHeld'
  BY <1>14 DEF CheckDies
<1>15. CASE UNCHANGED checkVars
  BY <1>15 DEF checkVars
<1> QED
  BY <1>1, <1>2, <1>3, <1>4, <1>5, <1>6, <1>7, <1>8, <1>9, <1>10, <1>11, <1>12,
     <1>13, <1>14, <1>15
  DEF CheckNext

LEMMA ReadIsFreshStep ==
  CheckTypes /\ ReadIsFresh /\ [CheckNext]_checkVars =>
    ReadIsFresh'
<1> SUFFICES ASSUME CheckTypes, ReadIsFresh,
                    [CheckNext]_checkVars
             PROVE  ReadIsFresh'
  OBVIOUS
<1> USE DEF CheckTypes, ReadIsFresh, Checks, JudgesLine, Rest, Refused, NoCheck, repository,
            history
<1>1. ASSUME NEW l \in Disclosure, StageLine(l) PROVE ReadIsFresh'
  BY <1>1 DEF StageLine
<1>2. ASSUME NEW l \in Disclosure, RemoveLine(l) PROVE ReadIsFresh'
  BY <1>2 DEF RemoveLine
<1>3. ASSUME NEW l \in Disclosure, ApproveLine(l) PROVE ReadIsFresh'
  BY <1>3 DEF ApproveLine
<1>4. ASSUME NEW c \in Commit, NEW l \in Disclosure, PassAllowed(c, l)
      PROVE  ReadIsFresh'
  BY <1>4 DEF PassAllowed
<1>5. ASSUME NEW c \in Commit, NEW l \in Disclosure, SpendLine(c, l)
      PROVE  ReadIsFresh'
  BY <1>5 DEF SpendLine
<1>6. ASSUME NEW c \in Commit, NEW l \in Disclosure, WasteLine(c, l)
      PROVE  ReadIsFresh'
  BY <1>6 DEF WasteLine
<1>7. ASSUME NEW c \in Commit, NEW l \in Disclosure, AskLine(c, l) PROVE ReadIsFresh'
  BY <1>7 DEF AskLine
<1>8. ASSUME NEW c \in Commit, ReadAllowed(c) PROVE ReadIsFresh'
  BY <1>8 DEF ReadAllowed
<1>9. ASSUME NEW c \in Commit, ReadStaged(c) PROVE ReadIsFresh'
  BY <1>9 DEF ReadStaged
<1>10. ASSUME NEW c \in Commit, PassMoved(c) PROVE ReadIsFresh'
  BY <1>10 DEF PassMoved
<1>11. ASSUME NEW c \in Commit, JudgedAll(c) PROVE ReadIsFresh'
  BY <1>11 DEF JudgedAll, AllowedNow
<1>12. ASSUME NEW c \in Commit, CommitIndex(c) PROVE ReadIsFresh'
  BY <1>12 DEF CommitIndex, NothingRefused
<1>13. ASSUME NEW c \in Commit, RefuseCommit(c) PROVE ReadIsFresh'
  BY <1>13 DEF RefuseCommit
<1>14. ASSUME NEW c \in Commit, CheckDies(c) PROVE ReadIsFresh'
  BY <1>14 DEF CheckDies
<1>15. CASE UNCHANGED checkVars
  BY <1>15 DEF checkVars
<1> QED
  BY <1>1, <1>2, <1>3, <1>4, <1>5, <1>6, <1>7, <1>8, <1>9, <1>10, <1>11, <1>12,
     <1>13, <1>14, <1>15
  DEF CheckNext

\* What HEAD gets is known or was not judged.
LEMMA NewTextStep ==
  CheckTypes /\ TextsJudged /\ NothingHeld /\ NewTextIsApproved /\
  [CheckNext]_checkVars =>
    NewTextIsApproved'
<1> SUFFICES ASSUME CheckTypes, TextsJudged, NothingHeld, NewTextIsApproved,
                    [CheckNext]_checkVars
             PROVE  \A l \in inHead' : l.text \in KnownTexts'
  BY DEF NewTextIsApproved, KnownTexts
<1>a. KnownTexts \subseteq KnownTexts'
  BY KnownStays
<1>b. /\ \A l \in inHead : l.text \in KnownTexts
      /\ \A l \in Disclosure : grants[l] > 0 => l.text \in KnownTexts
  BY KnownNow
<1>1. ASSUME NEW c \in Commit, CommitIndex(c), NEW l \in staged
      PROVE  l.text \in KnownTexts'
  <2>1. CASE l \in Unjudged(c)
    <3>1. l.text \in Texts(Unjudged(c)) /\ l.text \in Phrase
      BY <2>1 DEF Texts, CheckTypes, Disclosure
    <3>2. l.text \in unasked'
      BY <1>1, <3>1 DEF CommitIndex
    <3>3. KnownText(l.text)'
      BY <3>2, Zenon DEF KnownText
    <3> QED BY <3>1, <3>3 DEF KnownTexts
  <2>2. CASE l \notin Unjudged(c)
    BY <1>a, <1>1, <2>2 DEF CommitIndex, Checks, NothingRefused, Unjudged, TextsJudged,
                            NothingHeld, Running
  <2> QED BY <2>1, <2>2
<1>2. ASSUME NEW c \in Commit, CommitIndex(c)
      PROVE  \A l \in inHead' : l.text \in KnownTexts'
  BY <1>1, <1>2 DEF CommitIndex
<1>3. CASE inHead' \subseteq inHead
  BY <1>a, <1>b, <1>3
<1> QED BY <1>2, <1>3
  DEF CheckNext, StageLine, RemoveLine, ApproveLine, PassAllowed, SpendLine,
      WasteLine, AskLine, ReadAllowed, ReadStaged, PassMoved, JudgedAll,
      RefuseCommit, CheckDies, checkVars, repository

LEMMA PlaceStep ==
  CheckTypes /\ PlacesJudged /\ NothingHeld /\ PlaceIsApproved /\
  [CheckNext]_checkVars =>
    PlaceIsApproved'
<1> SUFFICES ASSUME CheckTypes, PlacesJudged, NothingHeld, PlaceIsApproved,
                    [CheckNext]_checkVars
             PROVE  PlaceIsApproved'
  OBVIOUS
<1> USE DEF CheckTypes, PlacesJudged, NothingHeld, PlaceIsApproved, Running,
            Checks, JudgesLine, Rest, Refused, NoCheck, repository, history
<1>1. ASSUME NEW l \in Disclosure, StageLine(l) PROVE PlaceIsApproved'
  BY <1>1 DEF StageLine
<1>2. ASSUME NEW l \in Disclosure, RemoveLine(l) PROVE PlaceIsApproved'
  BY <1>2 DEF RemoveLine
<1>3. ASSUME NEW l \in Disclosure, ApproveLine(l) PROVE PlaceIsApproved'
  BY <1>3 DEF ApproveLine
<1>4. ASSUME NEW c \in Commit, NEW l \in Disclosure, PassAllowed(c, l)
      PROVE  PlaceIsApproved'
  BY <1>4 DEF PassAllowed
<1>5. ASSUME NEW c \in Commit, NEW l \in Disclosure, SpendLine(c, l)
      PROVE  PlaceIsApproved'
  BY <1>5 DEF SpendLine
<1>6. ASSUME NEW c \in Commit, NEW l \in Disclosure, WasteLine(c, l)
      PROVE  PlaceIsApproved'
  BY <1>6 DEF WasteLine
<1>7. ASSUME NEW c \in Commit, NEW l \in Disclosure, AskLine(c, l)
      PROVE  PlaceIsApproved'
  BY <1>7 DEF AskLine
<1>8. ASSUME NEW c \in Commit, ReadAllowed(c) PROVE PlaceIsApproved'
  BY <1>8 DEF ReadAllowed
<1>9. ASSUME NEW c \in Commit, ReadStaged(c) PROVE PlaceIsApproved'
  BY <1>9 DEF ReadStaged
<1>10. ASSUME NEW c \in Commit, PassMoved(c) PROVE PlaceIsApproved'
  BY <1>10 DEF PassMoved
<1>11. ASSUME NEW c \in Commit, JudgedAll(c) PROVE PlaceIsApproved'
  BY <1>11 DEF JudgedAll, AllowedNow
<1>12. ASSUME NEW c \in Commit, CommitIndex(c) PROVE PlaceIsApproved'
  BY <1>12 DEF CommitIndex, NothingRefused, Unjudged
<1>13. ASSUME NEW c \in Commit, RefuseCommit(c) PROVE PlaceIsApproved'
  BY <1>13 DEF RefuseCommit
<1>14. ASSUME NEW c \in Commit, CheckDies(c) PROVE PlaceIsApproved'
  BY <1>14 DEF CheckDies
<1>15. CASE UNCHANGED checkVars
  BY <1>15 DEF checkVars
<1> QED
  BY <1>1, <1>2, <1>3, <1>4, <1>5, <1>6, <1>7, <1>8, <1>9, <1>10, <1>11, <1>12,
     <1>13, <1>14, <1>15
  DEF CheckNext

LEMMA SpentStep ==
  CheckTypes /\ NothingHeld /\ ReadIsFresh /\ SpentIsKept /\
  [CheckNext]_checkVars =>
    SpentIsKept'
<1> SUFFICES ASSUME CheckTypes, NothingHeld, ReadIsFresh, SpentIsKept,
                    [CheckNext]_checkVars
             PROVE  SpentIsKept'
  OBVIOUS
<1> USE DEF CheckTypes, NothingHeld, ReadIsFresh, SpentIsKept, InFlight,
            Checks, JudgesLine, Rest, Refused, NoCheck, repository, history
<1>1. ASSUME NEW l \in Disclosure, StageLine(l) PROVE SpentIsKept'
  BY <1>1 DEF StageLine
<1>2. ASSUME NEW l \in Disclosure, RemoveLine(l) PROVE SpentIsKept'
  BY <1>2 DEF RemoveLine
<1>3. ASSUME NEW l \in Disclosure, ApproveLine(l) PROVE SpentIsKept'
  BY <1>3 DEF ApproveLine
<1>4. ASSUME NEW c \in Commit, NEW l \in Disclosure, PassAllowed(c, l)
      PROVE  SpentIsKept'
  BY <1>4 DEF PassAllowed
<1>5. ASSUME NEW c \in Commit, NEW l \in Disclosure, SpendLine(c, l)
      PROVE  SpentIsKept'
  BY <1>5 DEF SpendLine
<1>6. ASSUME NEW c \in Commit, NEW l \in Disclosure, WasteLine(c, l)
      PROVE  SpentIsKept'
  BY <1>6 DEF WasteLine
<1>7. ASSUME NEW c \in Commit, NEW l \in Disclosure, AskLine(c, l) PROVE SpentIsKept'
  BY <1>7 DEF AskLine
<1>8. ASSUME NEW c \in Commit, ReadAllowed(c) PROVE SpentIsKept'
  BY <1>8 DEF ReadAllowed
<1>9. ASSUME NEW c \in Commit, ReadStaged(c) PROVE SpentIsKept'
  BY <1>9 DEF ReadStaged
<1>10. ASSUME NEW c \in Commit, PassMoved(c) PROVE SpentIsKept'
  BY <1>10 DEF PassMoved
<1>11. ASSUME NEW c \in Commit, JudgedAll(c) PROVE SpentIsKept'
  BY <1>11 DEF JudgedAll, AllowedNow
<1>12. ASSUME NEW c \in Commit, CommitIndex(c) PROVE SpentIsKept'
  BY <1>12 DEF CommitIndex, NothingRefused
<1>13. ASSUME NEW c \in Commit, RefuseCommit(c) PROVE SpentIsKept'
  BY <1>13 DEF RefuseCommit
<1>14. ASSUME NEW c \in Commit, CheckDies(c) PROVE SpentIsKept'
  BY <1>14 DEF CheckDies
<1>15. CASE UNCHANGED checkVars
  BY <1>15 DEF checkVars
<1> QED
  BY <1>1, <1>2, <1>3, <1>4, <1>5, <1>6, <1>7, <1>8, <1>9, <1>10, <1>11, <1>12,
     <1>13, <1>14, <1>15
  DEF CheckNext

LEMMA CommitStep == CommitInv /\ [CheckNext]_checkVars => CommitInv'
BY CheckTypesStep, OnlyApprovedStep, PlacesStep, TextsStep, NothingHeldStep,
   ReadIsFreshStep, NewTextStep, PlaceStep, SpentStep DEF CommitInv

LEMMA CommitInit == CheckInit => CommitInv
<1> SUFFICES ASSUME CheckInit PROVE CommitInv
  OBVIOUS
<1>1. CheckTypes
  BY CheckAssumption DEF CheckInit, CheckTypes, NoCheck, Texts, Disclosure
<1>2. NewTextIsApproved /\ PlaceIsApproved
  <2>1. \A l \in inHead : l.text \in unasked
    BY DEF CheckInit, Texts
  <2>2. NewTextIsApproved
    BY <2>1, Zenon DEF NewTextIsApproved, KnownText
  <2> QED BY <2>2 DEF CheckInit, PlaceIsApproved
<1> QED BY <1>1, <1>2 DEF CheckInit, CommitInv, OnlyApproved, PlacesJudged,
   TextsJudged, Running, NothingHeld, ReadIsFresh, SpentIsKept, NoCheck

\* What the checks read, judge and write keeps its types.
THEOREM CommitTyped == CheckSpec => []CheckTypes
<1>1. CommitInv => CheckTypes
  BY DEF CommitInv
<1> QED BY <1>1, CommitInit, CommitStep, PTL DEF CheckSpec

\* However many commits run at once: no text gets into HEAD that was approved
\* nowhere, and no line in a place it was not approved for, but for what no
\* check judged and what HEAD had somewhere; and no approval is forgotten but
\* as the property says.
THEOREM CommitApproved == CheckSpec => []ApprovedLines
<1>1. CommitInv => ApprovedLines
  BY DEF CommitInv, ApprovedLines
<1> QED BY <1>1, CommitInit, CommitStep, PTL DEF CheckSpec
-----------------------------------------------------------------------------
(* Deploy                                                                  *)

\* What a call keeps, and what of it belongs together.
DeployCall ==
  [at : {"idle", "read", "stamp", "fill", "after"}, command : Seq(Site),
   todo : Seq(Site), kind : {"deploy", "deploy-rapid"}, spent : Age,
   stamp : Age, near : SUBSET Site]

CallIsWhole(r) ==
  /\ r.command \in Command \cup {<<>>}
  /\ Sites(r.todo) \subseteq Sites(r.command)
  /\ r.at \in {"stamp", "fill"} => r.todo # <<>>
  /\ r.at \in {"idle", "after"} => r.todo = <<>>
  /\ r.at = "read" => r.command # <<>>
  /\ r.at = "fill" => r.stamp <= r.spent

CallsInv ==
  /\ record \in [Site -> Age] /\ latest \in [Site -> Age]
  /\ clashed \subseteq Site
  /\ deploy \in [Caller -> DeployCall]
  /\ \A u \in Caller : CallIsWhole(deploy[u])

\* The sites whose deploy is in its file, since the approval was spent.
Marked(r) ==
  IF r.at \in {"stamp", "fill", "after"}
  THEN Sites(r.command) \ Sites(r.todo) ELSE {}

\* Two calls write one file only where a clash is on record.
OneWriter ==
  \A u, v \in Caller : u # v /\ deploy[u].at = "fill" /\ deploy[v].at = "fill"
    /\ Head(deploy[u].todo) = Head(deploy[v].todo)
    => Head(deploy[u].todo) \in clashed

\* A time is no older than the last deploy of the site, nor than the approval
\* of a call that has recorded the site.
NoOlder(age, s) ==
  /\ age <= latest[s]
  /\ \A u \in Caller : s \in Marked(deploy[u]) => age <= deploy[u].spent

\* So is what a file says, but while it is being written, and what is going to
\* be written there.
RecordIsFresh ==
  \A s \in Site \ clashed : BeingWritten(s) \/ NoOlder(record[s], s)

StampIsFresh ==
  \A u \in Caller : deploy[u].at = "fill" /\ Head(deploy[u].todo) \notin clashed
    => NoOlder(deploy[u].stamp, Head(deploy[u].todo))

\* An ordinary deploy found no site deployed within the window.
OrdinaryIsFirst ==
  \A u \in Caller :
    deploy[u].kind = "deploy" => deploy[u].near \subseteq clashed

DeployInv ==
  /\ CallsInv /\ OneWriter /\ RecordIsFresh /\ StampIsFresh /\ OrdinaryIsFirst

LEMMA TodoSplits ==
  ASSUME NEW t \in Seq(Site), t # <<>>
  PROVE  /\ Head(t) \in Site /\ Tail(t) \in Seq(Site)
         /\ Sites(t) = {Head(t)} \cup Sites(Tail(t))
         /\ Len(t) = 1 <=> Tail(t) = <<>>
<1>1. /\ Len(t) \in Nat /\ Len(t) > 0 /\ DOMAIN t = 1..Len(t)
      /\ Head(t) = t[1] /\ Head(t) \in Site
      /\ Tail(t) \in Seq(Site) /\ Len(Tail(t)) = Len(t) - 1
      /\ DOMAIN Tail(t) = 1..(Len(t) - 1)
      /\ \A i \in 1..(Len(t) - 1) : Tail(t)[i] = t[i + 1]
  BY HeadTailProperties
<1>2. Len(t) = 1 <=> Tail(t) = <<>>
  <2>1. Len(<<>>) = 0
    BY EmptySeq
  <2>2. Tail(t) # <<>> => Len(Tail(t)) \in Nat \ {0}
    BY <1>1, EmptySeq
  <2> QED BY <1>1, <2>1, <2>2
<1>3. Sites(t) = {Head(t)} \cup Sites(Tail(t))
  <2>1. ASSUME NEW i \in 1..Len(t) PROVE t[i] \in {Head(t)} \cup Sites(Tail(t))
    <3>1. CASE i = 1
      BY <1>1, <3>1
    <3>2. CASE i # 1
      <4>1. i - 1 \in 1..(Len(t) - 1) /\ Tail(t)[i - 1] = t[i]
        BY <1>1, <3>2
      <4> QED BY <1>1, <4>1 DEF Sites
    <3> QED BY <3>1, <3>2
  <2>2. ASSUME NEW i \in 1..(Len(t) - 1) PROVE Tail(t)[i] \in Sites(t)
    BY <1>1 DEF Sites
  <2>3. Head(t) \in Sites(t)
    BY <1>1 DEF Sites
  <2> QED BY <1>1, <2>1, <2>2, <2>3 DEF Sites
<1> QED BY <1>1, <1>2, <1>3

LEMMA Ages ==
  /\ 0 \in Age /\ Window \in Age /\ Age \subseteq Nat
  /\ \A age \in Age : Older(age) \in Age
  /\ \A a, b \in Age : a <= b => Older(a) <= Older(b)
BY DeployAssumption DEF Age, Older

LEMMA NewCall ==
  ASSUME NEW u \in Caller, CallsInv, NEW r \in DeployCall, CallIsWhole(r),
         deploy' = [deploy EXCEPT ![u] = r],
         record' \in [Site -> Age], latest' \in [Site -> Age],
         clashed' \subseteq Site
  PROVE  CallsInv'
BY DEF CallsInv

LEMMA EmptySites == Sites(<<>>) = {}
BY DEF Sites

LEMMA NoCall == NoDeploy \in DeployCall /\ CallIsWhole(NoDeploy)
<1> USE DEF NoDeploy
<1>1. NoDeploy \in DeployCall
  BY Ages DEF DeployCall
<1>2. CallIsWhole(NoDeploy)
  BY EmptySites DEF CallIsWhole
<1> QED BY <1>1, <1>2

LEMMA CallsStep == CallsInv /\ [DeployNext]_deployVars => CallsInv'
<1> SUFFICES ASSUME CallsInv, [DeployNext]_deployVars PROVE CallsInv'
  OBVIOUS
<1> USE Ages
<1>a. ASSUME NEW u \in Caller
      PROVE  deploy[u] \in DeployCall /\ CallIsWhole(deploy[u])
  BY DEF CallsInv
<1>b. /\ record \in [Site -> Age] /\ latest \in [Site -> Age]
      /\ clashed \subseteq Site
  BY DEF CallsInv
<1>1. CASE PassTime
  <2>1. record' \in [Site -> Age] /\ latest' \in [Site -> Age]
    BY <1>1, <1>b DEF PassTime
  <2>2. ASSUME NEW u \in Caller
        PROVE  deploy'[u] \in DeployCall /\ CallIsWhole(deploy'[u])
    <3>1. deploy'[u] = [deploy[u] EXCEPT !.spent = Older(deploy[u].spent),
                                         !.stamp = Older(deploy[u].stamp)]
      BY <1>1 DEF PassTime
    <3>2. /\ Older(deploy[u].spent) \in Age /\ Older(deploy[u].stamp) \in Age
          /\ deploy[u].stamp <= deploy[u].spent
               => Older(deploy[u].stamp) <= Older(deploy[u].spent)
      <4>1. deploy[u].spent \in Age /\ deploy[u].stamp \in Age
        BY <1>a DEF DeployCall
      <4> QED BY <4>1
    <3> HIDE Ages
    <3>3. deploy'[u] \in DeployCall
      BY <1>a, <3>1, <3>2 DEF DeployCall
    <3>4. CallIsWhole(deploy'[u])
      BY <1>a, <3>1, <3>2 DEF DeployCall, CallIsWhole
    <3> QED BY <3>3, <3>4
  <2>3. deploy' \in [Caller -> DeployCall]
    <3>1. deploy' = [u \in Caller |-> deploy'[u]]
      BY <1>1 DEF PassTime
    <3> QED BY <2>2, <3>1
  <2> QED BY <1>1, <1>b, <2>1, <2>2, <2>3 DEF CallsInv, PassTime
<1>2. ASSUME NEW u \in Caller, NEW c \in Command, BeginDeploy(u, c)
      PROVE  CallsInv'
  <2> DEFINE r == [NoDeploy EXCEPT !.at = "read", !.command = c, !.todo = c]
  <2>1. c \in Seq(Site) /\ c # <<>>
    BY DeployAssumption
  <2>2. r \in DeployCall
    BY <2>1, NoCall DEF DeployCall
  <2>3. CallIsWhole(r)
    BY <2>1, NoCall DEF DeployCall, CallIsWhole
  <2> QED BY <1>2, <1>b, <2>2, <2>3, NewCall DEF BeginDeploy, Judges, Calls
<1>3. ASSUME NEW u \in Caller, ReadRecord(u) PROVE CallsInv'
  <2>1. PICK kind \in {"deploy", "deploy-rapid"}, near \in SUBSET Site :
          deploy' = [deploy EXCEPT ![u] = [deploy[u] EXCEPT
            !.todo = Tail(deploy[u].todo), !.kind = kind, !.near = near]]
    <3>1. Head(deploy[u].todo) \in Site /\ deploy[u].todo # <<>>
      BY <1>3, <1>a, TodoSplits DEF DeployCall, ReadRecord
    <3> QED BY <1>3, <1>a, <3>1 DEF ReadRecord, Judges, Calls, DeployCall
  <2> DEFINE r == [deploy[u] EXCEPT !.todo = Tail(deploy[u].todo),
                                    !.kind = kind, !.near = near]
  <2>2. /\ Tail(deploy[u].todo) \in Seq(Site)
        /\ Sites(Tail(deploy[u].todo)) \subseteq Sites(deploy[u].todo)
    BY <1>3, <1>a, TodoSplits DEF DeployCall, ReadRecord
  <2>3. r \in DeployCall
    BY <1>a, <2>2 DEF DeployCall
  <2>4. CallIsWhole(r)
    BY <1>3, <1>a, <2>2 DEF DeployCall, CallIsWhole, ReadRecord, Judges, Calls
  <2> QED BY <1>3, <1>b, <2>1, <2>3, <2>4, NewCall DEF ReadRecord, Judges
<1>4. ASSUME NEW u \in Caller, SpendApproval(u) PROVE CallsInv'
  <2>1. PICK kind \in {"deploy", "deploy-rapid"} :
          deploy' = [deploy EXCEPT ![u] = [deploy[u] EXCEPT !.at = "stamp",
            !.kind = kind, !.spent = 0, !.todo = deploy[u].command]]
    BY <1>4, <1>a DEF SpendApproval, Judges, Calls, DeployCall
  <2> DEFINE r == [deploy[u] EXCEPT !.at = "stamp", !.kind = kind, !.spent = 0,
                                    !.todo = deploy[u].command]
  <2>2. r \in DeployCall
    BY <1>a DEF DeployCall
  <2>3. CallIsWhole(r)
    BY <1>4, <1>a DEF DeployCall, CallIsWhole, SpendApproval, Judged
  <2> QED BY <1>4, <1>b, <2>1, <2>2, <2>3, NewCall DEF SpendApproval, Judges
<1>5. ASSUME NEW u \in Caller, AskApproval(u) PROVE CallsInv'
  BY <1>5, <1>b, NoCall, NewCall DEF AskApproval, Judges, Calls
<1>6. ASSUME NEW u \in Caller, OpenRecord(u) PROVE CallsInv'
  <2> DEFINE r == [deploy[u] EXCEPT !.at = "fill", !.stamp = 0]
  <2>1. r \in DeployCall
    BY <1>a DEF DeployCall
  <2>2. deploy[u].at = "stamp" /\ deploy[u].todo # <<>>
    BY <1>6, <1>a DEF OpenRecord, Calls, CallIsWhole
  <2>3. Head(deploy[u].todo) \in Site
    BY <1>a, <2>2, TodoSplits DEF DeployCall
  <2>4. 0 <= deploy[u].spent
    <3>1. deploy[u].spent \in Age
      BY <1>a DEF DeployCall
    <3> QED BY <3>1, DeployAssumption DEF Age
  <2>5. CallIsWhole(r)
    BY <1>a, <2>2, <2>4 DEF DeployCall, CallIsWhole
  <2> QED BY <1>6, <1>b, <2>1, <2>3, <2>5, NewCall DEF OpenRecord, Calls
<1>7. ASSUME NEW u \in Caller, FillRecord(u) PROVE CallsInv'
  <2> DEFINE r == [deploy[u] EXCEPT !.todo = Tail(deploy[u].todo),
                     !.stamp = Window,
                     !.at = IF Len(deploy[u].todo) = 1 THEN "after"
                            ELSE "stamp"]
  <2>1. deploy[u].at = "fill" /\ deploy[u].todo # <<>>
    BY <1>7, <1>a DEF FillRecord, Calls, CallIsWhole
  <2>2. /\ Head(deploy[u].todo) \in Site /\ Tail(deploy[u].todo) \in Seq(Site)
        /\ Sites(Tail(deploy[u].todo)) \subseteq Sites(deploy[u].todo)
        /\ Len(deploy[u].todo) = 1 <=> Tail(deploy[u].todo) = <<>>
    BY <1>a, <2>1, TodoSplits DEF DeployCall
  <2>3. r \in DeployCall
    BY <1>a, <2>2 DEF DeployCall
  <2>4. CallIsWhole(r)
    BY <1>a, <2>1, <2>2 DEF DeployCall, CallIsWhole
  <2>5. record' \in [Site -> Age] /\ deploy' = [deploy EXCEPT ![u] = r]
        /\ latest' = latest /\ clashed' = clashed
    BY <1>7, <1>a, <1>b, <2>2 DEF FillRecord, Calls, DeployCall
  <2> QED BY <1>b, <2>3, <2>4, <2>5, NewCall
<1>8. ASSUME NEW u \in Caller, LetDeploy(u) PROVE CallsInv'
  <2>1. latest' \in [Site -> Age]
    BY <1>8, <1>a, <1>b DEF LetDeploy, DeployCall
  <2> QED BY <1>8, <1>b, <2>1, NoCall, NewCall DEF LetDeploy, Calls
<1>9. ASSUME NEW u \in Caller, RefuseDeploy(u) PROVE CallsInv'
  BY <1>9, <1>b, NoCall, NewCall DEF RefuseDeploy, Judges, Calls
<1>10. ASSUME NEW u \in Caller, DeployDies(u) PROVE CallsInv'
  BY <1>10, <1>b, NoCall, NewCall DEF DeployDies, Calls
<1>11. CASE UNCHANGED deployVars
  BY <1>11 DEF deployVars, CallsInv
<1> QED
  BY <1>1, <1>2, <1>3, <1>4, <1>5, <1>6, <1>7, <1>8, <1>9, <1>10, <1>11
  DEF DeployNext

\* The call writes nothing and has nothing recorded.
Quiets(u) ==
  \E r \in DeployCall :
    /\ deploy' = [deploy EXCEPT ![u] = r] /\ deploy[u].at # "fill"
    /\ r.at # "fill" /\ Marked(r) = {}
    /\ UNCHANGED <<record, latest, clashed>>

LEMMA QuietSteps ==
  ASSUME CallsInv, CallsInv', NEW u \in Caller,
         \/ \E c \in Command : BeginDeploy(u, c)
         \/ ReadRecord(u) \/ SpendApproval(u) \/ AskApproval(u)
         \/ RefuseDeploy(u)
  PROVE  Quiets(u)
<1>1. PICK r : deploy' = [deploy EXCEPT ![u] = r] /\ deploy[u].at # "fill"
               /\ r.at \in {"idle", "read", "stamp"}
               /\ (r.at = "stamp" => r.todo = r.command)
               /\ UNCHANGED <<record, latest, clashed>>
  <2>1. deploy[u] \in DeployCall
    BY DEF CallsInv
  <2>2. CASE \E c \in Command : BeginDeploy(u, c)
    BY <2>2 DEF BeginDeploy, Judges, Calls, NoDeploy
  <2>3. CASE ReadRecord(u)
    BY <2>1, <2>3 DEF ReadRecord, Judges, Calls, DeployCall
  <2>4. CASE SpendApproval(u)
    BY <2>1, <2>4 DEF SpendApproval, Judges, Calls, DeployCall
  <2>5. CASE AskApproval(u)
    BY <2>5 DEF AskApproval, Judges, Calls, NoDeploy
  <2>6. CASE RefuseDeploy(u)
    BY <2>6 DEF RefuseDeploy, Judges, Calls, NoDeploy
  <2> QED BY <2>2, <2>3, <2>4, <2>5, <2>6
<1>2. r \in DeployCall
  <2>1. deploy'[u] = r
    BY <1>1 DEF CallsInv
  <2> QED BY <2>1 DEF CallsInv
<1>3. Marked(r) = {}
  BY <1>1 DEF Marked
<1> QED BY <1>1, <1>2, <1>3 DEF Quiets

LEMMA TimePasses ==
  ASSUME CallsInv, PassTime, NEW u \in Caller
  PROVE  /\ deploy'[u].at = deploy[u].at /\ deploy'[u].todo = deploy[u].todo
         /\ deploy'[u].command = deploy[u].command
         /\ deploy'[u].kind = deploy[u].kind /\ deploy'[u].near = deploy[u].near
         /\ deploy'[u].spent = Older(deploy[u].spent)
         /\ deploy'[u].stamp = Older(deploy[u].stamp)
<1>1. deploy[u] \in DeployCall
  BY DEF CallsInv
<1>2. deploy'[u] = [deploy[u] EXCEPT !.spent = Older(deploy[u].spent),
                                     !.stamp = Older(deploy[u].stamp)]
  BY DEF PassTime
<1> QED BY <1>1, <1>2 DEF DeployCall

\* A step of one call leaves the calls of the others alone.
LEMMA OthersStay ==
  ASSUME CallsInv, NEW u \in Caller, NEW r, deploy' = [deploy EXCEPT ![u] = r]
  PROVE  deploy'[u] = r /\ \A v \in Caller : v # u => deploy'[v] = deploy[v]
BY DEF CallsInv

LEMMA OneWriterStep ==
  CallsInv /\ CallsInv' /\ OneWriter /\ [DeployNext]_deployVars => OneWriter'
<1> SUFFICES ASSUME CallsInv, CallsInv', OneWriter, [DeployNext]_deployVars
             PROVE  OneWriter'
  OBVIOUS
<1> USE DEF OneWriter
<1>1. CASE PassTime
  <2>1. \A u \in Caller :
          deploy'[u].at = deploy[u].at /\ deploy'[u].todo = deploy[u].todo
    BY <1>1, TimePasses
  <2>2. clashed' = clashed
    BY <1>1 DEF PassTime
  <2> QED BY <2>1, <2>2
<1>2. ASSUME NEW u \in Caller, Quiets(u) PROVE OneWriter'
  BY <1>2, OthersStay DEF Quiets
<1>3. ASSUME NEW u \in Caller, OpenRecord(u) PROVE OneWriter'
  <2>1. /\ deploy'[u].at = "fill" /\ deploy'[u].todo = deploy[u].todo
        /\ \A v \in Caller : v # u => deploy'[v] = deploy[v]
    BY <1>3 DEF OpenRecord, Calls, CallsInv, DeployCall
  <2>2. /\ clashed \subseteq clashed'
        /\ BeingWritten(Head(deploy[u].todo))
             => Head(deploy[u].todo) \in clashed'
    BY <1>3 DEF OpenRecord
  <2> QED BY <2>1, <2>2 DEF BeingWritten, Writing
<1>4. ASSUME NEW u \in Caller, FillRecord(u) PROVE OneWriter'
  <2>1. /\ deploy'[u].at # "fill"
        /\ \A v \in Caller : v # u => deploy'[v] = deploy[v]
    BY <1>4 DEF FillRecord, Calls, CallsInv, DeployCall
  <2> QED BY <1>4, <2>1 DEF FillRecord
<1>5. ASSUME NEW u \in Caller, LetDeploy(u) PROVE OneWriter'
  BY <1>5, OthersStay DEF LetDeploy, Calls, NoDeploy
<1>6. ASSUME NEW u \in Caller, DeployDies(u) PROVE OneWriter'
  BY <1>6, OthersStay DEF DeployDies, Calls, NoDeploy
<1>7. CASE UNCHANGED deployVars
  BY <1>7 DEF deployVars
<1> HIDE DEF OneWriter
<1> QED
  BY QuietSteps, <1>1, <1>2, <1>3, <1>4, <1>5, <1>6, <1>7 DEF DeployNext

\* What the times of a step are compared with is a number.
LEMMA Numbers ==
  ASSUME CallsInv
  PROVE  /\ \A s \in Site : record[s] \in Nat /\ latest[s] \in Nat
         /\ \A u \in Caller :
              deploy[u].spent \in Nat /\ deploy[u].stamp \in Nat
<1>1. Age \subseteq Nat
  BY Ages
<1>2. ASSUME NEW s \in Site PROVE record[s] \in Age /\ latest[s] \in Age
  BY DEF CallsInv
<1>3. ASSUME NEW u \in Caller
      PROVE  deploy[u].spent \in Age /\ deploy[u].stamp \in Age
  BY DEF CallsInv, DeployCall
<1> QED BY <1>1, <1>2, <1>3

FreshInv == RecordIsFresh /\ StampIsFresh

LEMMA FreshPasses ==
  ASSUME CallsInv, FreshInv, PassTime PROVE FreshInv'
<1>1. \A u \in Caller :
        /\ deploy'[u].at = deploy[u].at /\ deploy'[u].todo = deploy[u].todo
        /\ deploy'[u].command = deploy[u].command
        /\ deploy'[u].spent = Older(deploy[u].spent)
        /\ deploy'[u].stamp = Older(deploy[u].stamp)
  BY TimePasses
<1>2. \A s \in Site : record'[s] = Older(record[s]) /\
                      latest'[s] = Older(latest[s])
  BY DEF PassTime
<1>3. clashed' = clashed
  BY DEF PassTime
<1>4. ASSUME NEW s \in Site, NEW age \in Age, NoOlder(age, s)
      PROVE  /\ Older(age) <= latest'[s]
             /\ \A u \in Caller :
                  s \in Marked(deploy'[u]) => Older(age) <= deploy'[u].spent
  <2>2. latest[s] \in Age /\ \A u \in Caller : deploy[u].spent \in Age
    BY DEF CallsInv, DeployCall
  <2>3. Older(age) <= latest'[s]
    BY <1>2, <1>4, <2>2, Ages DEF NoOlder
  <2>4. ASSUME NEW u \in Caller, s \in Marked(deploy'[u])
        PROVE  Older(age) <= deploy'[u].spent
    <3>1. s \in Marked(deploy[u])
      BY <1>1, <2>4 DEF Marked
    <3>2. age <= deploy[u].spent
      BY <1>4, <3>1 DEF NoOlder
    <3> QED BY <1>1, <2>2, <3>2, Ages
  <2> QED BY <2>3, <2>4
<1>5. RecordIsFresh'
  <2> SUFFICES ASSUME NEW s \in Site \ clashed, ~BeingWritten(s)'
               PROVE  NoOlder(record[s], s)'
    BY <1>3 DEF RecordIsFresh
  <2>1. ~BeingWritten(s)
    BY <1>1 DEF BeingWritten, Writing
  <2>2. NoOlder(record[s], s) /\ record[s] \in Age
    BY <2>1 DEF FreshInv, RecordIsFresh, CallsInv
  <2> QED BY <1>2, <1>4, <2>2 DEF NoOlder
<1>6. StampIsFresh'
  <2> SUFFICES ASSUME NEW u \in Caller, deploy'[u].at = "fill",
                      Head(deploy'[u].todo) \notin clashed'
               PROVE  NoOlder(deploy[u].stamp, Head(deploy[u].todo))'
    BY DEF StampIsFresh
  <2> DEFINE s == Head(deploy[u].todo)
  <2>1. s \in Site
    BY <1>1, TodoSplits DEF CallsInv, CallIsWhole, DeployCall
  <2>2. NoOlder(deploy[u].stamp, s) /\ deploy[u].stamp \in Age
    BY <1>1, <1>3 DEF FreshInv, StampIsFresh, CallsInv, DeployCall
  <2> HIDE DEF s
  <2>3. /\ Older(deploy[u].stamp) <= latest'[s]
        /\ \A v \in Caller : s \in Marked(deploy'[v]) =>
             Older(deploy[u].stamp) <= deploy'[v].spent
    BY <1>4, <2>1, <2>2
  <2>4. Head(deploy'[u].todo) = s
    BY <1>1 DEF s
  <2> QED BY <1>1, <2>3, <2>4 DEF NoOlder
<1> QED BY <1>5, <1>6 DEF FreshInv

\* A call that neither writes nor has anything recorded after its step.
LEMMA FreshAside ==
  ASSUME CallsInv, CallsInv', FreshInv, NEW u \in Caller,
         \A v \in Caller : v # u => deploy'[v] = deploy[v],
         Marked(deploy'[u]) = {}, deploy'[u].at # "fill",
         clashed \subseteq clashed', record' = record,
         \A s \in Site : \/ latest'[s] = latest[s]
                         \/ /\ s \in Marked(deploy[u])
                            /\ latest'[s] = deploy[u].spent,
         deploy[u].at = "fill" => Head(deploy[u].todo) \in clashed'
  PROVE  FreshInv'
<1>1. ASSUME NEW s \in Site, NEW age, NoOlder(age, s) PROVE NoOlder(age, s)'
  <2>1. age <= latest'[s]
    BY <1>1 DEF NoOlder
  <2> QED BY <1>1, <2>1 DEF NoOlder
<1>2. RecordIsFresh'
  <2> SUFFICES ASSUME NEW s \in Site \ clashed', ~BeingWritten(s)'
               PROVE  NoOlder(record[s], s)'
    BY DEF RecordIsFresh
  <2>1. ~BeingWritten(s)
    BY DEF BeingWritten, Writing
  <2>2. NoOlder(record[s], s)
    BY <2>1 DEF FreshInv, RecordIsFresh
  <2> QED BY <1>1, <2>2 DEF NoOlder
<1>3. StampIsFresh'
  <2> SUFFICES ASSUME NEW v \in Caller, deploy'[v].at = "fill",
                      Head(deploy'[v].todo) \notin clashed'
               PROVE  NoOlder(deploy[v].stamp, Head(deploy[v].todo))'
    BY DEF StampIsFresh
  <2>1. v # u /\ deploy'[v] = deploy[v]
    OBVIOUS
  <2>2. Head(deploy[v].todo) \in Site
    BY <2>1, TodoSplits DEF CallsInv, CallIsWhole, DeployCall
  <2>3. NoOlder(deploy[v].stamp, Head(deploy[v].todo))
    BY <2>1 DEF FreshInv, StampIsFresh
  <2> QED BY <1>1, <2>1, <2>2, <2>3 DEF NoOlder
<1> QED BY <1>2, <1>3 DEF FreshInv

\* The other fields of a call that writes.
LEMMA OpeningCall ==
  ASSUME NEW r \in DeployCall, NEW n, n = [r EXCEPT !.at = "fill", !.stamp = 0]
  PROVE  /\ n.at = "fill" /\ n.stamp = 0 /\ n.todo = r.todo
         /\ n.command = r.command /\ n.spent = r.spent
         /\ n.near = r.near /\ n.kind = r.kind
BY DEF DeployCall

LEMMA FillingCall ==
  ASSUME NEW r \in DeployCall, NEW n,
         n = [r EXCEPT !.todo = Tail(r.todo), !.stamp = Window,
                !.at = IF Len(r.todo) = 1 THEN "after" ELSE "stamp"]
  PROVE  /\ n.at \in {"stamp", "after"} /\ n.todo = Tail(r.todo)
         /\ n.command = r.command /\ n.spent = r.spent
         /\ n.near = r.near /\ n.kind = r.kind
<1>1. n.at = IF Len(r.todo) = 1 THEN "after" ELSE "stamp"
  BY DEF DeployCall
<1>2. n.at \in {"stamp", "after"}
  BY <1>1
<1> QED BY <1>2 DEF DeployCall

LEMMA FreshOpens ==
  ASSUME CallsInv, CallsInv', FreshInv, NEW u \in Caller, OpenRecord(u)
  PROVE  FreshInv'
<1> DEFINE s0 == Head(deploy[u].todo)
<1>1. /\ deploy[u].at = "stamp" /\ deploy'[u].at = "fill"
      /\ deploy'[u].todo = deploy[u].todo
      /\ deploy'[u].command = deploy[u].command
      /\ deploy'[u].spent = deploy[u].spent /\ deploy'[u].stamp = 0
  <2>1. deploy[u] \in DeployCall
    BY DEF CallsInv
  <2>2. deploy[u].at = "stamp" /\
          deploy' = [deploy EXCEPT ![u] =
                       [deploy[u] EXCEPT !.at = "fill", !.stamp = 0]]
    BY DEF OpenRecord, Calls
  <2>3. deploy'[u] = [deploy[u] EXCEPT !.at = "fill", !.stamp = 0]
    BY <2>2 DEF CallsInv
  <2> QED BY ZenonT(30), <2>1, <2>2, <2>3, OpeningCall
<1>2. \A v \in Caller : v # u => deploy'[v] = deploy[v]
  BY DEF OpenRecord, Calls, CallsInv
<1>3. s0 \in Site
  BY <1>1, TodoSplits DEF CallsInv, CallIsWhole, DeployCall
<1>4. /\ latest' = latest /\ clashed \subseteq clashed'
      /\ \A s \in Site : s # s0 => record'[s] = record[s]
  BY DEF OpenRecord, CallsInv
<1>5. \A v \in Caller : /\ Marked(deploy'[v]) = Marked(deploy[v])
                        /\ deploy'[v].spent = deploy[v].spent
  BY <1>1, <1>2 DEF Marked
<1>6. ASSUME NEW s \in Site, NEW age, NoOlder(age, s) PROVE NoOlder(age, s)'
  BY <1>4, <1>5, <1>6 DEF NoOlder
<1>7. RecordIsFresh'
  <2> SUFFICES ASSUME NEW s \in Site \ clashed', ~BeingWritten(s)'
               PROVE  NoOlder(record[s], s)'
    BY DEF RecordIsFresh
  <2>1. s # s0 /\ ~BeingWritten(s)
    BY <1>1, <1>2 DEF BeingWritten, Writing
  <2>2. NoOlder(record[s], s)
    BY <1>4, <2>1 DEF FreshInv, RecordIsFresh
  <2> QED BY <1>4, <1>6, <2>1, <2>2 DEF NoOlder
<1>8. StampIsFresh'
  <2> SUFFICES ASSUME NEW v \in Caller, deploy'[v].at = "fill",
                      Head(deploy'[v].todo) \notin clashed'
               PROVE  NoOlder(deploy[v].stamp, Head(deploy[v].todo))'
    BY DEF StampIsFresh
  <2>1. CASE v = u
    <3>1. 0 <= latest'[s0] /\ \A w \in Caller : 0 <= deploy'[w].spent
      BY <1>3, <1>4, <1>5, Numbers
    <3> QED BY <1>1, <2>1, <3>1 DEF NoOlder
  <2>2. CASE v # u
    <3>1. deploy'[v] = deploy[v]
      BY <1>2, <2>2
    <3>2. Head(deploy[v].todo) \in Site
      BY <3>1, TodoSplits DEF CallsInv, CallIsWhole, DeployCall
    <3>3. NoOlder(deploy[v].stamp, Head(deploy[v].todo))
      BY <1>4, <3>1 DEF FreshInv, StampIsFresh
    <3> QED BY <1>6, <3>1, <3>2, <3>3 DEF NoOlder
  <2> QED BY <2>1, <2>2
<1> QED BY <1>7, <1>8 DEF FreshInv

LEMMA FreshFills ==
  ASSUME CallsInv, CallsInv', OneWriter, FreshInv, NEW u \in Caller,
         FillRecord(u)
  PROVE  FreshInv'
<1> DEFINE s0 == Head(deploy[u].todo)
<1>1. /\ deploy[u].at = "fill" /\ deploy'[u].at \in {"stamp", "after"}
      /\ deploy'[u].todo = Tail(deploy[u].todo)
      /\ deploy'[u].command = deploy[u].command
      /\ deploy'[u].spent = deploy[u].spent
  <2>1. deploy[u] \in DeployCall
    BY DEF CallsInv
  <2>2. deploy[u].at = "fill" /\ deploy' = [deploy EXCEPT ![u] =
          [deploy[u] EXCEPT !.todo = Tail(deploy[u].todo), !.stamp = Window,
             !.at = IF Len(deploy[u].todo) = 1 THEN "after" ELSE "stamp"]]
    BY DEF FillRecord, Calls
  <2>3. deploy'[u] =
          [deploy[u] EXCEPT !.todo = Tail(deploy[u].todo), !.stamp = Window,
             !.at = IF Len(deploy[u].todo) = 1 THEN "after" ELSE "stamp"]
    BY <2>2 DEF CallsInv
  <2> QED BY ZenonT(30), <2>1, <2>2, <2>3, FillingCall
<1>2. \A v \in Caller : v # u => deploy'[v] = deploy[v]
  BY DEF FillRecord, Calls, CallsInv
<1>3. /\ s0 \in Site /\ deploy[u].stamp <= deploy[u].spent
      /\ Sites(deploy[u].todo) = {s0} \cup Sites(Tail(deploy[u].todo))
  BY <1>1, TodoSplits DEF CallsInv, CallIsWhole, DeployCall
<1>4. /\ latest' = latest /\ clashed' = clashed
      /\ record'[s0] = deploy[u].stamp
      /\ \A s \in Site : s # s0 => record'[s] = record[s]
  BY <1>3 DEF FillRecord, CallsInv
<1>5. /\ Marked(deploy'[u]) \subseteq Marked(deploy[u]) \cup {s0}
      /\ \A v \in Caller : v # u => Marked(deploy'[v]) = Marked(deploy[v])
      /\ \A v \in Caller : deploy'[v].spent = deploy[v].spent
  BY <1>1, <1>2, <1>3 DEF Marked
<1>6. ASSUME NEW s \in Site, NEW age, NoOlder(age, s),
             s = s0 => age <= deploy[u].spent
      PROVE  NoOlder(age, s)'
  BY <1>4, <1>5, <1>6 DEF NoOlder
<1> HIDE DEF s0
<1>7. RecordIsFresh'
  <2> SUFFICES ASSUME NEW s \in Site \ clashed', ~BeingWritten(s)'
               PROVE  NoOlder(record[s], s)'
    BY DEF RecordIsFresh
  <2>1. CASE s = s0
    <3>1. NoOlder(deploy[u].stamp, s)
      BY <1>1, <1>4, <2>1 DEF FreshInv, StampIsFresh, s0
    <3> QED BY <1>3, <1>4, <1>6, <2>1, <3>1 DEF NoOlder
  <2>2. CASE s # s0
    <3>1. ~BeingWritten(s)
      BY <1>1, <1>2, <2>2 DEF BeingWritten, Writing, s0
    <3>2. NoOlder(record[s], s)
      BY <1>4, <3>1 DEF FreshInv, RecordIsFresh
    <3> QED BY <1>4, <1>6, <2>2, <3>2 DEF NoOlder
  <2> QED BY <2>1, <2>2
<1>8. StampIsFresh'
  <2> SUFFICES ASSUME NEW v \in Caller, deploy'[v].at = "fill",
                      Head(deploy'[v].todo) \notin clashed'
               PROVE  NoOlder(deploy[v].stamp, Head(deploy[v].todo))'
    BY DEF StampIsFresh
  <2>1. v # u /\ deploy'[v] = deploy[v]
    BY <1>1, <1>2
  <2>2. Head(deploy[v].todo) \in Site /\ Head(deploy[v].todo) # s0
    BY <1>1, <1>4, <2>1, TodoSplits
    DEF CallsInv, CallIsWhole, DeployCall, OneWriter, s0
  <2>3. NoOlder(deploy[v].stamp, Head(deploy[v].todo))
    BY <1>4, <2>1 DEF FreshInv, StampIsFresh
  <2> QED BY <1>6, <2>1, <2>2, <2>3 DEF NoOlder
<1> QED BY <1>7, <1>8 DEF FreshInv

LEMMA FreshStep ==
  CallsInv /\ CallsInv' /\ OneWriter /\ FreshInv /\ [DeployNext]_deployVars
  => FreshInv'
<1> SUFFICES ASSUME CallsInv, CallsInv', OneWriter, FreshInv,
                    [DeployNext]_deployVars
             PROVE  FreshInv'
  OBVIOUS
<1>1. ASSUME NEW u \in Caller, Quiets(u) PROVE FreshInv'
  <2>1. PICK r : /\ deploy' = [deploy EXCEPT ![u] = r] /\ deploy[u].at # "fill"
                 /\ r.at # "fill" /\ Marked(r) = {}
                 /\ UNCHANGED <<record, latest, clashed>>
    BY <1>1 DEF Quiets
  <2>2. /\ deploy'[u] = r
        /\ \A v \in Caller : v # u => deploy'[v] = deploy[v]
    BY <2>1, OthersStay
  <2>3. Marked(deploy'[u]) = {} /\ deploy'[u].at # "fill"
    BY <2>1, <2>2
  <2>4. /\ clashed \subseteq clashed' /\ record' = record
        /\ \A s \in Site : latest'[s] = latest[s]
    BY <2>1
  <2> QED BY <2>1, <2>2, <2>3, <2>4, FreshAside
<1>2. ASSUME NEW u \in Caller, LetDeploy(u) PROVE FreshInv'
  <2>1. /\ deploy'[u] = NoDeploy
        /\ \A v \in Caller : v # u => deploy'[v] = deploy[v]
    BY <1>2, OthersStay DEF LetDeploy, Calls
  <2>2. Marked(deploy'[u]) = {} /\ deploy'[u].at # "fill"
    BY <2>1 DEF Marked, NoDeploy
  <2>3. deploy[u].at = "after" /\ deploy[u].todo = <<>>
    BY <1>2 DEF LetDeploy, Calls, CallsInv, CallIsWhole
  <2>4. Marked(deploy[u]) = Sites(deploy[u].command)
    BY <2>3, EmptySites DEF Marked
  <2>5. \A s \in Site : \/ latest'[s] = latest[s]
                        \/ /\ s \in Marked(deploy[u])
                           /\ latest'[s] = deploy[u].spent
    <3>1. latest' = [s \in Site |-> IF s \in Marked(deploy[u])
                                    THEN deploy[u].spent ELSE latest[s]]
      BY <1>2, <2>4 DEF LetDeploy
    <3> QED BY <3>1
  <2>6. record' = record /\ clashed' = clashed
    BY <1>2 DEF LetDeploy
  <2>7. clashed \subseteq clashed' /\ deploy[u].at # "fill"
    BY <2>3, <2>6
  <2> QED BY <2>1, <2>2, <2>3, <2>5, <2>6, <2>7, FreshAside
<1>3. ASSUME NEW u \in Caller, DeployDies(u) PROVE FreshInv'
  <2>1. /\ deploy'[u] = NoDeploy
        /\ \A v \in Caller : v # u => deploy'[v] = deploy[v]
    BY <1>3, OthersStay DEF DeployDies, Calls
  <2>2. Marked(deploy'[u]) = {} /\ deploy'[u].at # "fill"
    BY <2>1 DEF Marked, NoDeploy
  <2>3. clashed \subseteq clashed' /\ record' = record /\ latest' = latest
    BY <1>3 DEF DeployDies
  <2>4. deploy[u].at = "fill" => Head(deploy[u].todo) \in clashed'
    <3> SUFFICES ASSUME deploy[u].at = "fill"
                 PROVE  Head(deploy[u].todo) \in clashed'
      OBVIOUS
    <3>1. Head(deploy[u].todo) \in Site
      BY TodoSplits DEF CallsInv, CallIsWhole, DeployCall
    <3> QED BY <1>3, <3>1 DEF DeployDies, Writing
  <2>5. \A s \in Site : latest'[s] = latest[s]
    BY <2>3
  <2> QED BY <2>1, <2>2, <2>3, <2>4, <2>5, FreshAside
<1>4. CASE UNCHANGED deployVars
  BY <1>4 DEF deployVars, FreshInv, RecordIsFresh, StampIsFresh, BeingWritten,
     Writing, NoOlder, Marked
<1> QED
  BY <1>1, <1>2, <1>3, <1>4, QuietSteps, FreshPasses, FreshOpens, FreshFills
  DEF DeployNext

\* A site is judged to be deployed first only if its file, which is not being
\* written, shows no deploy within the window, and then there was none.
LEMMA OrdinaryStep ==
  CallsInv /\ FreshInv /\ OrdinaryIsFirst /\ [DeployNext]_deployVars
  => OrdinaryIsFirst'
<1> SUFFICES ASSUME CallsInv, FreshInv, OrdinaryIsFirst,
                    [DeployNext]_deployVars
             PROVE  OrdinaryIsFirst'
  OBVIOUS
<1>0. CASE PassTime
  BY <1>0, TimePasses DEF PassTime, OrdinaryIsFirst
<1>1. clashed \subseteq clashed'
  BY DEF DeployNext, deployVars, PassTime, BeginDeploy, ReadRecord,
     SpendApproval, AskApproval, OpenRecord, FillRecord, LetDeploy,
     RefuseDeploy, DeployDies, Judges
<1>2. ASSUME NEW u \in Caller, NEW r, deploy' = [deploy EXCEPT ![u] = r],
             r.kind = "deploy" => r.near \subseteq clashed'
      PROVE  OrdinaryIsFirst'
  BY <1>1, <1>2, OthersStay DEF OrdinaryIsFirst
<1>3. ASSUME NEW u \in Caller, NEW r, deploy' = [deploy EXCEPT ![u] = r],
             r.near = deploy[u].near,
             r.kind \in {deploy[u].kind, "deploy-rapid"}
      PROVE  OrdinaryIsFirst'
  BY <1>1, <1>2, <1>3 DEF OrdinaryIsFirst
<1>4. ASSUME NEW u \in Caller, deploy' = [deploy EXCEPT ![u] = NoDeploy]
      PROVE  OrdinaryIsFirst'
  BY <1>2, <1>4 DEF NoDeploy
<1>5. \A u \in Caller : deploy[u] \in DeployCall
  BY DEF CallsInv
<1>6. ASSUME NEW u \in Caller, ReadRecord(u) PROVE OrdinaryIsFirst'
  <2> DEFINE s == Head(deploy[u].todo)
             near == latest[s] < Window /\ ~BeingWritten(s)
             r == [deploy[u] EXCEPT !.todo = Tail(@),
                    !.kind = IF Recent(s) THEN "deploy-rapid" ELSE @,
                    !.near = IF near THEN @ \cup {s} ELSE @]
  <2>1. s \in Site
    BY <1>5, <1>6, TodoSplits DEF ReadRecord, DeployCall
  <2>2. near => Recent(s) \/ s \in clashed
    <3> SUFFICES ASSUME near, s \notin clashed PROVE record[s] < Window
      BY DEF Recent
    <3>1. NoOlder(record[s], s)
      BY <2>1 DEF FreshInv, RecordIsFresh
    <3>2. record[s] <= latest[s] /\ latest[s] < Window
      BY <3>1 DEF NoOlder
    <3> QED BY <2>1, <3>2, Numbers, DeployAssumption
  <2>3. deploy' = [deploy EXCEPT ![u] = r]
    BY <1>6 DEF ReadRecord, Judges, Calls
  <2>4. /\ r.kind = IF Recent(s) THEN "deploy-rapid" ELSE deploy[u].kind
        /\ r.near = IF near THEN deploy[u].near \cup {s} ELSE deploy[u].near
    BY <1>5 DEF DeployCall
  <2> HIDE DEF s, near, r
  <2>5. r.kind = "deploy" => r.near \subseteq clashed
    BY <2>2, <2>4 DEF OrdinaryIsFirst
  <2> QED BY <1>1, <1>2, <2>3, <2>5
<1>7. ASSUME NEW u \in Caller,
             SpendApproval(u) \/ OpenRecord(u) \/ FillRecord(u)
      PROVE  OrdinaryIsFirst'
  <2>1. PICK r : /\ deploy' = [deploy EXCEPT ![u] = r]
                 /\ r.near = deploy[u].near
                 /\ r.kind \in {deploy[u].kind, "deploy-rapid"}
    <3>1. CASE SpendApproval(u)
      BY ZenonT(30), <1>5, <3>1 DEF SpendApproval, Judges, Calls, DeployCall
    <3>2. CASE OpenRecord(u)
      <4>1. deploy' = [deploy EXCEPT ![u] =
              [deploy[u] EXCEPT !.at = "fill", !.stamp = 0]]
        BY <3>2 DEF OpenRecord, Calls
      <4> DEFINE r == [deploy[u] EXCEPT !.at = "fill", !.stamp = 0]
      <4>2. r.near = deploy[u].near /\ r.kind = deploy[u].kind
        BY <1>5, OpeningCall
      <4> HIDE DEF r
      <4>3. deploy' = [deploy EXCEPT ![u] = r]
        BY <4>1 DEF r
      <4> QED BY <4>2, <4>3
    <3>3. CASE FillRecord(u)
      <4>1. deploy' = [deploy EXCEPT ![u] =
              [deploy[u] EXCEPT !.todo = Tail(deploy[u].todo), !.stamp = Window,
                 !.at = IF Len(deploy[u].todo) = 1 THEN "after" ELSE "stamp"]]
        BY <3>3 DEF FillRecord, Calls
      <4>2. deploy'[u] =
              [deploy[u] EXCEPT !.todo = Tail(deploy[u].todo), !.stamp = Window,
                 !.at = IF Len(deploy[u].todo) = 1 THEN "after" ELSE "stamp"]
        BY <4>1 DEF CallsInv
      <4>3. deploy' = [deploy EXCEPT ![u] = deploy'[u]]
        BY <4>1, <4>2
      <4>4. deploy[u] \in DeployCall
        BY <1>5
      <4>5. deploy'[u].near = deploy[u].near /\ deploy'[u].kind = deploy[u].kind
        BY <4>2, <4>4, FillingCall
      <4> QED BY <4>3, <4>5
    <3> QED BY <1>7, <3>1, <3>2, <3>3
  <2> QED BY <1>3, <2>1
<1>8. ASSUME NEW u \in Caller, NEW c \in Command, BeginDeploy(u, c)
      PROVE  OrdinaryIsFirst'
  <2>1. deploy' = [deploy EXCEPT ![u] =
          [NoDeploy EXCEPT !.at = "read", !.command = c, !.todo = c]]
    BY <1>8 DEF BeginDeploy, Judges, Calls
  <2>2. [NoDeploy EXCEPT !.at = "read", !.command = c, !.todo = c].near = {}
    BY DEF NoDeploy
  <2> QED BY <1>2, <2>1, <2>2
<1>9. ASSUME NEW u \in Caller, AskApproval(u) \/ LetDeploy(u) \/
             RefuseDeploy(u) \/ DeployDies(u)
      PROVE  OrdinaryIsFirst'
  BY <1>4, <1>9 DEF AskApproval, LetDeploy, RefuseDeploy, DeployDies, Judges,
     Calls
<1>10. CASE UNCHANGED deployVars
  BY <1>10 DEF deployVars, OrdinaryIsFirst
<1> QED
  BY <1>0, <1>6, <1>7, <1>8, <1>9, <1>10 DEF DeployNext

LEMMA DeployStep == DeployInv /\ [DeployNext]_deployVars => DeployInv'
BY CallsStep, OneWriterStep, FreshStep, OrdinaryStep DEF DeployInv, FreshInv

LEMMA DeployBegins == DeployInit => DeployInv
<1> SUFFICES ASSUME DeployInit PROVE DeployInv
  OBVIOUS
<1>1. CallsInv
  BY NoCall, Ages DEF DeployInit, CallsInv
<1>2. \A u \in Caller : /\ deploy[u].at = "idle" /\ deploy[u].near = {}
                        /\ Marked(deploy[u]) = {}
  BY DEF DeployInit, NoDeploy, Marked
<1>3. \A s \in Site : record[s] = Window /\ latest[s] = Window
  BY DEF DeployInit
<1>4. OneWriter /\ StampIsFresh /\ OrdinaryIsFirst
  BY <1>2 DEF OneWriter, StampIsFresh, OrdinaryIsFirst
<1>5. RecordIsFresh
  BY <1>2, <1>3, DeployAssumption DEF RecordIsFresh, NoOlder
<1> QED BY <1>1, <1>4, <1>5 DEF DeployInv

\* The files of deploys, the calls and what they keep have their types.
THEOREM DeployTyped == DeploySpec => []DeployTypes
<1>1. DeployInv => DeployTypes
  <2> SUFFICES ASSUME DeployInv PROVE DeployTypes
    OBVIOUS
  <2>1. \A u \in Caller : deploy[u] \in DeployCall /\ CallIsWhole(deploy[u])
    BY DEF DeployInv, CallsInv
  <2> QED BY <2>1 DEF DeployInv, CallsInv, DeployTypes, DeployCall, CallIsWhole
<1> QED BY <1>1, DeployBegins, DeployStep, PTL DEF DeploySpec

\* For any number of sessions, sites and commands, and whoever is killed: an
\* ordinary deploy goes out only if no site of it had been deployed within the
\* window, but for files that two calls wrote at once or one left empty.
THEOREM DeployIsApproved == DeploySpec => RapidIsApproved
<1> DEFINE Approved == \A u \in Caller :
             LetDeploy(u) /\ deploy[u].kind = "deploy" =>
               deploy[u].near \subseteq clashed
<1>1. DeployInv => Approved
  BY DEF DeployInv, OrdinaryIsFirst
<1>2. DeployInv /\ [DeployNext]_deployVars =>
        DeployInv' /\ [Approved]_deployVars
  BY <1>1, DeployStep
<1> HIDE DEF Approved
<1>3. DeploySpec => [][Approved]_deployVars
  BY <1>2, DeployBegins, PTL DEF DeploySpec
<1> QED BY <1>3 DEF RapidIsApproved, Approved
-----------------------------------------------------------------------------
(* BoardMove                                                               *)

MoveRecord ==
  [at : {"idle", "test", "rename", "write", "archive"}, name : Name,
   old : Copies, new : Copies]

MoveFiles ==
  /\ written \in 0..MaxItems
  /\ old \in [Name -> File] /\ new \in [Name -> File]
  /\ move \in [Mover -> MoveRecord]
  /\ late \subseteq Item /\ twice \subseteq Name

At(p, f, step) == move[p].name = f /\ move[p].at = step

\* A merge about to write has what the two files have by now, but for what came
\* late; of a log, it has what the file it appends to has not.
MergeHolds ==
  \A p \in Mover :
    /\ At(p, "session", "write") =>
         (Items(move[p].old) \cup Items(move[p].new)) \ late =
           (Items(old["session"]) \cup Items(new["session"])) \ late
    /\ At(p, "log", "write") =>
         Items(old["log"]) \ late
           \subseteq Items(move[p].old) \cup Items(new["log"])

\* The file about to go to the archive has nothing that the other has not.
ArchiveHolds ==
  \A p \in Mover : move[p].at = "archive" =>
    Items(old[move[p].name]) \ late \subseteq Items(new[move[p].name])

\* No item is ahead of those written: the next is in no file and in no memory.
Numbered ==
  /\ \A f \in Name : Items(old[f]) \cup Items(new[f]) \subseteq 1..written
  /\ \A p \in Mover :
       Items(move[p].old) \cup Items(move[p].new) \subseteq 1..written

\* While one process at a time merges the log: each file has a line once, no
\* line is in both but before the archive, and none in the file that a merge
\* has still to append to.
OneByOne == \A i \in Item : In(old["log"])[i] <= 1 /\ In(new["log"])[i] <= 1

MergesLog(p) == move[p].name = "log" /\ move[p].at # "idle"

OneMover == \A p, q \in Mover : MergesLog(p) /\ MergesLog(q) => p = q

Apart ==
  \/ Items(old["log"]) \cap Items(new["log"]) = {}
  \/ \E p \in Mover : At(p, "log", "archive")

ReadApart ==
  \A p \in Mover : At(p, "log", "write") =>
    /\ Items(move[p].old) \cap Items(new["log"]) = {}
    /\ \A i \in Item : move[p].old[i] <= 1

LogInv == "log" \notin twice => OneByOne /\ OneMover /\ Apart /\ ReadApart

MoveInv ==
  /\ MoveFiles /\ MergeHolds /\ ArchiveHolds /\ ItemsKept /\ Numbered /\ LogInv

LEMMA FileItems ==
  /\ Blank \in Copies /\ Items(NoFile) = {} /\ Items(Blank) = {}
  /\ \A c \in Copies : c # NoFile /\ c \in File /\ In(c) = c
  /\ \A file \in File : /\ In(file) \in Copies /\ Items(In(file)) = Items(file)
                        /\ Items(file) \subseteq Item
  /\ \A c \in Copies, i \in Item : /\ c[i] \in 0..2
                                   /\ i \in Items(c) <=> c[i] > 0
<1>1. NoFile \notin Copies
  BY MoveAssumption DEF Copies, Item
<1>2. Blank \in Copies /\ \A i \in Item : Blank[i] = 0
  BY DEF Blank, Copies
<1>3. \A c \in Copies : c # NoFile /\ c \in File /\ In(c) = c
  BY <1>1 DEF In, File
<1>4. In(NoFile) = Blank
  BY DEF In
<1>5. Items(NoFile) = {} /\ Items(Blank) = {}
  BY <1>2, <1>3, <1>4 DEF Items
<1>6. \A file \in File : In(file) \in Copies /\ In(In(file)) = In(file)
  BY <1>2, <1>3, <1>4 DEF File
<1>7. \A c \in Copies, i \in Item : /\ c[i] \in 0..2
                                    /\ i \in Items(c) <=> c[i] > 0
  BY <1>3 DEF Items, Copies
<1> QED BY <1>2, <1>3, <1>5, <1>6, <1>7 DEF Items

\* A file with one more item.
LEMMA WrittenFile ==
  ASSUME NEW file \in File, NEW n \in Item, NEW w \in Copies,
         \A i \in Item : w[i] = IF i = n THEN 1 ELSE In(file)[i]
  PROVE  /\ Items(w) = Items(file) \cup {n}
         /\ \A i \in Item : In(w)[i] = IF i = n THEN 1 ELSE In(file)[i]
<1>1. In(w) = w /\ \A i \in Item : i \in Items(w) <=> w[i] > 0
  BY FileItems
<1>2. \A i \in Item : /\ In(file)[i] \in 0..2
                      /\ i \in Items(file) <=> In(file)[i] > 0
  BY FileItems DEF Items
<1>3. n \in Items(w)
  <2>1. w[n] = 1 /\ 1 > 0
    OBVIOUS
  <2> QED BY <1>1, <2>1
<1>4. \A i \in Item : i # n => (i \in Items(w) <=> i \in Items(file))
  BY <1>1, <1>2
<1>5. Items(w) \subseteq Item /\ Items(file) \subseteq Item
  BY DEF Items
<1> QED BY <1>1, <1>3, <1>4, <1>5

LEMMA PutItem ==
  ASSUME NEW c \in Copies, NEW n \in Item
  PROVE  \E w \in Copies :
           /\ w = [c EXCEPT ![n] = 1]
           /\ \A i \in Item : w[i] = IF i = n THEN 1 ELSE c[i]
<1>1. [c EXCEPT ![n] = 1] \in Copies
  BY DEF Copies
<1>2. \A i \in Item : [c EXCEPT ![n] = 1][i] = IF i = n THEN 1 ELSE c[i]
  BY DEF Copies
<1> QED BY <1>1, <1>2

LEMMA MergedFiles ==
  ASSUME MoveFiles, NEW p \in Mover
  PROVE  /\ Union(p) \in Copies
         /\ Items(Union(p)) = Items(move[p].old) \cup Items(move[p].new)
<1>1. move[p].old \in Copies /\ move[p].new \in Copies
  BY DEF MoveFiles, MoveRecord
<1>2. \A i \in Item : /\ move[p].old[i] \in 0..2 /\ move[p].new[i] \in 0..2
                      /\ i \in Items(move[p].old) <=> move[p].old[i] > 0
                      /\ i \in Items(move[p].new) <=> move[p].new[i] > 0
  BY <1>1, FileItems
<1>3. \A i \in Item : Union(p)[i] =
        IF move[p].old[i] + move[p].new[i] > 0 THEN 1 ELSE 0
  BY DEF Union
<1>4. Union(p) \in Copies
  BY DEF Union, Copies
<1>5. \A i \in Item : i \in Items(Union(p)) <=> Union(p)[i] > 0
  BY <1>4, FileItems
<1>6. \A i \in Item : i \in Items(Union(p)) <=>
        i \in Items(move[p].old) \cup Items(move[p].new)
  BY <1>2, <1>3, <1>5
<1> QED BY <1>4, <1>6 DEF Items

LEMMA AppendedFile ==
  ASSUME NEW file \in File, NEW lines \in Copies, NEW w,
         w = [i \in Item |-> Sum(In(file)[i], lines[i])]
  PROVE  /\ w \in Copies /\ Items(w) = Items(file) \cup Items(lines)
         /\ \A i \in Item : In(w)[i] = Sum(In(file)[i], lines[i])
<1>1. \A i \in Item : /\ In(file)[i] \in 0..2 /\ lines[i] \in 0..2
                      /\ i \in Items(file) <=> In(file)[i] > 0
                      /\ i \in Items(lines) <=> lines[i] > 0
  BY FileItems
<1>2. \A m, n \in 0..2 : /\ Sum(m, n) \in 0..2
                         /\ Sum(m, n) > 0 <=> m > 0 \/ n > 0
  BY DEF Sum
<1>3. w \in Copies
  BY <1>1, <1>2 DEF Copies
<1>4. In(w) = w /\ \A i \in Item : i \in Items(w) <=> w[i] > 0
  BY <1>3, FileItems
<1>5. \A i \in Item : i \in Items(w) <=> i \in Items(file) \cup Items(lines)
  BY <1>1, <1>2, <1>4
<1> QED BY <1>3, <1>4, <1>5 DEF Items

\* What each step does to the files, in the items they have.
LEMMA OldWritten ==
  ASSUME MoveFiles, NEW f \in Name, WriteOld(f)
  PROVE  /\ written' = written + 1 /\ written' \in Item
         /\ old' \in [Name -> File] /\ new' = new
         /\ \A g \in Name : g # f => old'[g] = old[g]
         /\ Items(old'[f]) = Items(old[f]) \cup {written'}
         /\ \A i \in Item : In(old'[f])[i] =
                              IF i = written' THEN 1 ELSE In(old[f])[i]
         /\ move' = move /\ twice' = twice
         /\ late \subseteq late' /\ late' \subseteq late \cup {written'}
         /\ Merging(f, {"write", "archive"}) => written' \in late'
<1>1. /\ written < MaxItems /\ written' = written + 1
      /\ move' = move /\ twice' = twice /\ new' = new
      /\ old' = [old EXCEPT ![f] = [In(old[f]) EXCEPT ![written'] = 1]]
  BY DEF WriteOld, WriteItem
<1>2. /\ late \subseteq late' /\ late' \subseteq late \cup {written'}
      /\ Merging(f, {"write", "archive"}) => written' \in late'
  BY DEF WriteOld
<1>3. written' \in Item
  BY <1>1, MoveAssumption DEF MoveFiles, Item
<1>4. old \in [Name -> File] /\ old[f] \in File /\ In(old[f]) \in Copies
  BY FileItems DEF MoveFiles
<1>5. PICK w \in Copies :
        /\ w = [In(old[f]) EXCEPT ![written'] = 1]
        /\ \A i \in Item : w[i] = IF i = written' THEN 1 ELSE In(old[f])[i]
  BY <1>3, <1>4, PutItem
<1>6. /\ old' \in [Name -> File] /\ old'[f] = w
      /\ \A g \in Name : g # f => old'[g] = old[g]
  <2>1. w \in File /\ old' = [old EXCEPT ![f] = w]
    BY <1>1, <1>5, FileItems
  <2> QED BY <1>4, <2>1
<1>7. \A i \in Item : w[i] = IF i = written' THEN 1 ELSE In(old[f])[i]
  BY <1>5
<1>8. /\ Items(w) = Items(old[f]) \cup {written'}
      /\ \A i \in Item : In(w)[i] =
                           IF i = written' THEN 1 ELSE In(old[f])[i]
  BY <1>3, <1>4, <1>7, WrittenFile
<1> QED BY <1>1, <1>2, <1>3, <1>6, <1>8

LEMMA NewWritten ==
  ASSUME MoveFiles, NEW f \in Name, WriteNew(f)
  PROVE  /\ written' = written + 1 /\ written' \in Item
         /\ new' \in [Name -> File] /\ old' = old
         /\ \A g \in Name : g # f => new'[g] = new[g]
         /\ Items(new'[f]) = Items(new[f]) \cup {written'}
         /\ \A i \in Item : In(new'[f])[i] =
                              IF i = written' THEN 1 ELSE In(new[f])[i]
         /\ move' = move /\ twice' = twice
         /\ late \subseteq late' /\ late' \subseteq late \cup {written'}
         /\ f = "session" /\ Merging(f, {"rename", "write"})
              => written' \in late'
<1>1. /\ written < MaxItems /\ written' = written + 1
      /\ move' = move /\ twice' = twice /\ old' = old
      /\ new' = [new EXCEPT ![f] = [In(new[f]) EXCEPT ![written'] = 1]]
  BY DEF WriteNew, WriteItem
<1>2. /\ late \subseteq late' /\ late' \subseteq late \cup {written'}
      /\ f = "session" /\ Merging(f, {"rename", "write"})
              => written' \in late'
  BY DEF WriteNew
<1>3. written' \in Item
  BY <1>1, MoveAssumption DEF MoveFiles, Item
<1>4. new \in [Name -> File] /\ new[f] \in File /\ In(new[f]) \in Copies
  BY FileItems DEF MoveFiles
<1>5. PICK w \in Copies :
        /\ w = [In(new[f]) EXCEPT ![written'] = 1]
        /\ \A i \in Item : w[i] = IF i = written' THEN 1 ELSE In(new[f])[i]
  BY <1>3, <1>4, PutItem
<1>6. /\ new' \in [Name -> File] /\ new'[f] = w
      /\ \A g \in Name : g # f => new'[g] = new[g]
  <2>1. w \in File /\ new' = [new EXCEPT ![f] = w]
    BY <1>1, <1>5, FileItems
  <2> QED BY <1>4, <2>1
<1>7. \A i \in Item : w[i] = IF i = written' THEN 1 ELSE In(new[f])[i]
  BY <1>5
<1>8. /\ Items(w) = Items(new[f]) \cup {written'}
      /\ \A i \in Item : In(w)[i] =
                           IF i = written' THEN 1 ELSE In(new[f])[i]
  BY <1>3, <1>4, <1>7, WrittenFile
<1> QED BY <1>1, <1>2, <1>3, <1>6, <1>8

\* The record of a merge after its step, and those of the others.
LEMMA MoveRecords ==
  ASSUME MoveFiles, NEW p \in Mover
  PROVE  /\ NoMove \in MoveRecord
         /\ \A f \in Name : [NoMove EXCEPT !.at = "test", !.name = f]
                              \in MoveRecord
         /\ To(p, "rename") \in MoveRecord
         /\ \A a, b \in Copies :
              /\ [move[p] EXCEPT !.at = "write", !.old = a, !.new = b]
                   \in MoveRecord
              /\ [move[p] EXCEPT !.at = "archive", !.old = a, !.new = b]
                   \in MoveRecord
<1>1. move[p] \in MoveRecord
  BY DEF MoveFiles
<1>2. Blank \in Copies
  BY FileItems
<1>3. NoMove \in MoveRecord
  BY <1>2 DEF NoMove, MoveRecord, Name
<1>4. \A f \in Name : [NoMove EXCEPT !.at = "test", !.name = f] \in MoveRecord
  BY <1>2 DEF NoMove, MoveRecord, Name
<1>5. To(p, "rename") \in MoveRecord
  BY <1>1 DEF To, MoveRecord
<1>6. \A a, b \in Copies :
        /\ [move[p] EXCEPT !.at = "write", !.old = a, !.new = b] \in MoveRecord
        /\ [move[p] EXCEPT !.at = "archive", !.old = a, !.new = b]
             \in MoveRecord
  BY <1>1 DEF MoveRecord
<1> QED BY <1>3, <1>4, <1>5, <1>6

LEMMA Moved ==
  ASSUME MoveFiles, NEW p \in Mover, NEW step, NEW r \in MoveRecord,
         Moves(p, step, r)
  PROVE  /\ move[p].at = step /\ move' \in [Mover -> MoveRecord]
         /\ move'[p] = r /\ \A q \in Mover : q # p => move'[q] = move[q]
         /\ written' = written
BY DEF Moves, MoveFiles

LEMMA Begun ==
  ASSUME MoveFiles, NEW p \in Mover, NEW f \in Name, BeginMove(p, f)
  PROVE  /\ move' \in [Mover -> MoveRecord] /\ written' = written
         /\ move[p].at = "idle"
         /\ move'[p].at = "test" /\ move'[p].name = f
         /\ move'[p].old = Blank /\ move'[p].new = Blank
         /\ \A q \in Mover : q # p => move'[q] = move[q]
         /\ old' = old /\ new' = new /\ late' = late
         /\ twice' = IF Merging(f, {"test", "rename", "write", "archive"})
                     THEN twice \cup {f} ELSE twice
<1> DEFINE r == [NoMove EXCEPT !.at = "test", !.name = f]
<1>1. r \in MoveRecord
  BY MoveRecords
<1>2. r.at = "test" /\ r.name = f /\ r.old = Blank /\ r.new = Blank
  BY DEF NoMove
<1> HIDE DEF r
<1>3. Moves(p, "idle", r)
  BY DEF BeginMove, r
<1>4. /\ move[p].at = "idle" /\ move' \in [Mover -> MoveRecord]
      /\ move'[p] = r /\ \A q \in Mover : q # p => move'[q] = move[q]
      /\ written' = written
  BY <1>1, <1>3, Moved
<1> QED BY <1>2, <1>4 DEF BeginMove

LEMMA Freed ==
  ASSUME MoveFiles, NEW p \in Mover, FreeName(p)
  PROVE  /\ move' \in [Mover -> MoveRecord] /\ written' = written
         /\ move[p].at = "test" /\ move'[p].at = "rename"
         /\ move'[p].name = move[p].name /\ move'[p].old = move[p].old
         /\ move'[p].new = move[p].new
         /\ \A q \in Mover : q # p => move'[q] = move[q]
         /\ old' = old /\ new' = new /\ late' = late /\ twice' = twice
<1>1. To(p, "rename") \in MoveRecord
  BY MoveRecords
<1>2. /\ To(p, "rename").at = "rename" /\ To(p, "rename").name = move[p].name
      /\ To(p, "rename").old = move[p].old
      /\ To(p, "rename").new = move[p].new
  BY DEF To, MoveFiles, MoveRecord
<1>3. Moves(p, "test", To(p, "rename"))
  BY DEF FreeName
<1>4. /\ move[p].at = "test" /\ move' \in [Mover -> MoveRecord]
      /\ move'[p] = To(p, "rename")
      /\ \A q \in Mover : q # p => move'[q] = move[q]
      /\ written' = written
  BY <1>1, <1>3, Moved
<1> QED BY <1>2, <1>4 DEF FreeName

LEMMA Renamed ==
  ASSUME MoveFiles, NEW p \in Mover, Rename(p), NEW f, f = move[p].name
  PROVE  /\ move' \in [Mover -> MoveRecord] /\ written' = written
         /\ f \in Name /\ move[p].at = "rename" /\ move'[p] = NoMove
         /\ \A q \in Mover : q # p => move'[q] = move[q]
         /\ \A g \in Name : g # f => old'[g] = old[g] /\ new'[g] = new[g]
         /\ old' \in [Name -> File] /\ new' \in [Name -> File]
         /\ \/ old'[f] = old[f] /\ new'[f] = new[f] /\ late' = late
            \/ /\ old'[f] = NoFile /\ new'[f] = old[f]
               /\ late' = late \cup Items(new[f])
         /\ twice' = twice
<1>1. /\ move[p].at = "rename" /\ move' \in [Mover -> MoveRecord]
      /\ move'[p] = NoMove /\ \A q \in Mover : q # p => move'[q] = move[q]
      /\ written' = written
  <2>1. NoMove \in MoveRecord /\ Moves(p, "rename", NoMove)
    BY MoveRecords DEF Rename
  <2> QED BY <2>1, Moved
<1>2. f \in Name /\ old \in [Name -> File] /\ new \in [Name -> File]
  BY DEF MoveFiles, MoveRecord
<1>3. NoFile \in File
  BY DEF File
<1> QED BY <1>1, <1>2, <1>3 DEF Rename

LEMMA BothRead ==
  ASSUME MoveFiles, NEW p \in Mover, ReadBoth(p), NEW f, f = move[p].name
  PROVE  /\ move' \in [Mover -> MoveRecord] /\ written' = written
         /\ f \in Name /\ move[p].at = "test" /\ move'[p].at = "write"
         /\ move'[p].name = f /\ move'[p].old = In(old[f])
         /\ f = "session" => move'[p].new = new[f]
         /\ f = "log" => move'[p].new = Blank
         /\ \A q \in Mover : q # p => move'[q] = move[q]
         /\ old' = old /\ new' = new /\ late' = late /\ twice' = twice
<1> DEFINE a == In(old[f])
           b == IF f = "session" THEN new[f] ELSE Blank
           r == [move[p] EXCEPT !.at = "write", !.old = a, !.new = b]
<1>1. f \in Name /\ old[f] \in File /\ new[f] \in File /\ new[f] # NoFile
  BY DEF MoveFiles, MoveRecord, ReadBoth
<1>2. a \in Copies /\ b \in Copies
  BY <1>1, FileItems DEF File
<1>3. Moves(p, "test", r)
  BY DEF ReadBoth
<1> HIDE DEF a, b
<1>4. r \in MoveRecord
  BY <1>2, MoveRecords
<1>5. r.at = "write" /\ r.name = f /\ r.old = a /\ r.new = b
  BY DEF MoveFiles, MoveRecord
<1> HIDE DEF r
<1>6. /\ move[p].at = "test" /\ move' \in [Mover -> MoveRecord]
      /\ move'[p] = r /\ \A q \in Mover : q # p => move'[q] = move[q]
      /\ written' = written
  BY <1>3, <1>4, Moved
<1>7. /\ move'[p].old = In(old[f])
      /\ f = "session" => move'[p].new = new[f]
      /\ f = "log" => move'[p].new = Blank
  BY <1>5, <1>6 DEF a, b
<1> QED BY <1>1, <1>5, <1>6, <1>7 DEF ReadBoth

LEMMA MergeWritten ==
  ASSUME MoveFiles, NEW p \in Mover, WriteMerged(p), NEW f, f = move[p].name
  PROVE  /\ move' \in [Mover -> MoveRecord] /\ written' = written
         /\ f \in Name /\ move[p].at = "write" /\ move'[p].at = "archive"
         /\ move'[p].name = f
         /\ move'[p].old = Blank /\ move'[p].new = Blank
         /\ \A q \in Mover : q # p => move'[q] = move[q]
         /\ old' = old /\ new' \in [Name -> File]
         /\ \A g \in Name : g # f => new'[g] = new[g]
         /\ f = "session" => Items(new'[f]) =
                               Items(move[p].old) \cup Items(move[p].new)
         /\ f = "log" =>
              /\ Items(new'[f]) = Items(new[f]) \cup Items(move[p].old)
              /\ \A i \in Item : In(new'[f])[i] =
                                   Sum(In(new[f])[i], move[p].old[i])
         /\ late' = late /\ twice' = twice
<1> DEFINE r == [move[p] EXCEPT !.at = "archive", !.old = Blank, !.new = Blank]
           w == [i \in Item |-> Sum(In(new[f])[i], move[p].old[i])]
<1>1. Moves(p, "write", r)
  BY DEF WriteMerged
<1>2. /\ f \in Name /\ new \in [Name -> File] /\ new[f] \in File
      /\ move[p].old \in Copies
  BY DEF MoveFiles, MoveRecord
<1>3. r \in MoveRecord
  BY FileItems, MoveRecords
<1>4. r.at = "archive" /\ r.name = f /\ r.old = Blank /\ r.new = Blank
  BY DEF MoveFiles, MoveRecord
<1>5. /\ w \in Copies /\ Items(w) = Items(new[f]) \cup Items(move[p].old)
      /\ \A i \in Item : In(w)[i] = Sum(In(new[f])[i], move[p].old[i])
  BY <1>2, AppendedFile
<1>6. new' = [new EXCEPT ![f] = IF f = "session" THEN Union(p) ELSE w]
  BY DEF WriteMerged
<1> HIDE DEF r, w
<1>7. /\ move[p].at = "write" /\ move' \in [Mover -> MoveRecord]
      /\ move'[p] = r /\ \A q \in Mover : q # p => move'[q] = move[q]
      /\ written' = written
  BY <1>1, <1>3, Moved
<1>8. /\ Union(p) \in File /\ w \in File
      /\ Items(Union(p)) = Items(move[p].old) \cup Items(move[p].new)
  BY <1>5, MergedFiles, FileItems
<1>9. /\ new' \in [Name -> File]
      /\ \A g \in Name : g # f => new'[g] = new[g]
      /\ new'[f] = IF f = "session" THEN Union(p) ELSE w
  BY <1>2, <1>6, <1>8
<1>10. UNCHANGED <<old, late, twice>>
  BY DEF WriteMerged
<1> QED BY <1>2, <1>4, <1>5, <1>7, <1>8, <1>9, <1>10

LEMMA Archived ==
  ASSUME MoveFiles, NEW p \in Mover, ToArchive(p), NEW f, f = move[p].name
  PROVE  /\ move' \in [Mover -> MoveRecord] /\ written' = written
         /\ f \in Name /\ move[p].at = "archive" /\ move'[p] = NoMove
         /\ \A q \in Mover : q # p => move'[q] = move[q]
         /\ old' \in [Name -> File] /\ old'[f] = NoFile
         /\ \A g \in Name : g # f => old'[g] = old[g]
         /\ new' = new /\ late' = late /\ twice' = twice
<1>1. NoMove \in MoveRecord /\ Moves(p, "archive", NoMove)
  BY MoveRecords DEF ToArchive
<1>2. /\ move[p].at = "archive" /\ move' \in [Mover -> MoveRecord]
      /\ move'[p] = NoMove /\ \A q \in Mover : q # p => move'[q] = move[q]
      /\ written' = written
  BY <1>1, Moved
<1>3. f \in Name /\ old \in [Name -> File] /\ NoFile \in File
  BY DEF MoveFiles, MoveRecord, File
<1> QED BY <1>2, <1>3 DEF ToArchive

LEMMA Died ==
  ASSUME MoveFiles, NEW p \in Mover, MoveDies(p)
  PROVE  /\ move' \in [Mover -> MoveRecord] /\ written' = written
         /\ move[p].at # "idle" /\ move'[p] = NoMove
         /\ \A q \in Mover : q # p => move'[q] = move[q]
         /\ old' = old /\ new' = new /\ late' = late
         /\ twice' = IF move[p].at = "archive" THEN twice \cup {move[p].name}
                     ELSE twice
<1>1. NoMove \in MoveRecord /\ Moves(p, move[p].at, NoMove)
  BY MoveRecords DEF MoveDies
<1>2. /\ move' \in [Mover -> MoveRecord]
      /\ move'[p] = NoMove /\ \A q \in Mover : q # p => move'[q] = move[q]
      /\ written' = written
  BY <1>1, Moved
<1> QED BY <1>2 DEF MoveDies

LEMMA NoMoveFields ==
  /\ NoMove.at = "idle" /\ NoMove.name = "log"
  /\ NoMove.old = Blank /\ NoMove.new = Blank
BY DEF NoMove

LEMMA FilesStep == MoveFiles /\ [MoveNext]_moveVars => MoveFiles'
<1> SUFFICES ASSUME MoveFiles, [MoveNext]_moveVars PROVE MoveFiles'
  OBVIOUS
<1>0. /\ written \in 0..MaxItems /\ late \subseteq Item /\ twice \subseteq Name
      /\ old \in [Name -> File] /\ new \in [Name -> File]
      /\ move \in [Mover -> MoveRecord]
  BY DEF MoveFiles
<1>a. \A n \in Item : n \in 0..MaxItems
  BY DEF Item
<1>1. ASSUME NEW f \in Name, WriteOld(f) PROVE MoveFiles'
  BY <1>0, <1>a, <1>1, OldWritten DEF MoveFiles
<1>2. ASSUME NEW f \in Name, WriteNew(f) PROVE MoveFiles'
  BY <1>0, <1>a, <1>2, NewWritten DEF MoveFiles
<1>3. ASSUME NEW p \in Mover, NEW f \in Name, BeginMove(p, f) PROVE MoveFiles'
  BY <1>0, <1>3, Begun DEF MoveFiles
<1>4. ASSUME NEW p \in Mover, FreeName(p) PROVE MoveFiles'
  BY <1>0, <1>4, Freed DEF MoveFiles
<1>5. ASSUME NEW p \in Mover, Rename(p) PROVE MoveFiles'
  <2>1. Items(new[move[p].name]) \subseteq Item
    BY DEF Items
  <2>2. /\ move' \in [Mover -> MoveRecord] /\ written' = written
        /\ old' \in [Name -> File] /\ new' \in [Name -> File]
        /\ late' \subseteq late \cup Items(new[move[p].name])
        /\ twice' = twice
    BY <1>5, Renamed
  <2> QED BY <1>0, <2>1, <2>2 DEF MoveFiles
<1>6. ASSUME NEW p \in Mover, ReadBoth(p) PROVE MoveFiles'
  BY <1>0, <1>6, BothRead DEF MoveFiles
<1>7. ASSUME NEW p \in Mover, WriteMerged(p) PROVE MoveFiles'
  BY <1>0, <1>7, MergeWritten DEF MoveFiles
<1>8. ASSUME NEW p \in Mover, ToArchive(p) PROVE MoveFiles'
  BY <1>0, <1>8, Archived DEF MoveFiles
<1>9. ASSUME NEW p \in Mover, MoveDies(p) PROVE MoveFiles'
  <2>1. move[p].name \in Name
    BY <1>0 DEF MoveRecord
  <2> QED BY <1>0, <1>9, <2>1, Died DEF MoveFiles
<1>10. CASE UNCHANGED moveVars
  BY <1>10 DEF moveVars, MoveFiles
<1> QED
  BY <1>1, <1>2, <1>3, <1>4, <1>5, <1>6, <1>7, <1>8, <1>9, <1>10 DEF MoveNext

\* No step but a write leaves late and what was read; a write adds its item.
LEMMA NumberedStep ==
  MoveFiles /\ Numbered /\ [MoveNext]_moveVars => Numbered'
<1> SUFFICES ASSUME MoveFiles, Numbered, [MoveNext]_moveVars PROVE Numbered'
  OBVIOUS
<1>0. /\ \A f \in Name : Items(old[f]) \cup Items(new[f]) \subseteq 1..written
      /\ \A p \in Mover :
           Items(move[p].old) \cup Items(move[p].new) \subseteq 1..written
  BY DEF Numbered
<1>a. /\ Items(NoFile) = {} /\ Items(Blank) = {}
      /\ \A f \in Name : Items(In(old[f])) = Items(old[f])
  BY FileItems DEF MoveFiles
<1>b. \A f \in Name : WriteOld(f) \/ WriteNew(f) =>
        /\ 1..written \subseteq 1..(written + 1)
        /\ written + 1 \in 1..(written + 1)
  BY DEF MoveFiles
<1>c. NoMove.old = Blank /\ NoMove.new = Blank
  BY NoMoveFields
<1>1. ASSUME NEW f \in Name, WriteOld(f) PROVE Numbered'
  BY <1>0, <1>b, <1>1, OldWritten DEF Numbered
<1>2. ASSUME NEW f \in Name, WriteNew(f) PROVE Numbered'
  BY <1>0, <1>b, <1>2, NewWritten DEF Numbered
<1>3. ASSUME NEW p \in Mover, NEW f \in Name, BeginMove(p, f) PROVE Numbered'
  BY <1>0, <1>a, <1>3, Begun DEF Numbered
<1>4. ASSUME NEW p \in Mover, FreeName(p) PROVE Numbered'
  BY <1>0, <1>4, Freed DEF Numbered
<1>5. ASSUME NEW p \in Mover, Rename(p) PROVE Numbered'
  BY <1>0, <1>a, <1>c, <1>5, Renamed DEF Numbered
<1>6. ASSUME NEW p \in Mover, ReadBoth(p) PROVE Numbered'
  <2>1. Items(move'[p].old) \cup Items(move'[p].new) \subseteq 1..written
    BY <1>0, <1>a, <1>6, BothRead DEF Name
  <2> QED BY <1>0, <1>6, <2>1, BothRead DEF Numbered
<1>7. ASSUME NEW p \in Mover, WriteMerged(p) PROVE Numbered'
  <2>1. Items(new'[move[p].name]) \subseteq 1..written
    <3>1. CASE move[p].name = "session"
      BY <1>0, <1>7, <3>1, MergeWritten
    <3>2. CASE move[p].name = "log"
      BY <1>0, <1>7, <3>2, MergeWritten
    <3> QED BY <3>1, <3>2 DEF MoveFiles, MoveRecord, Name
  <2> QED BY <1>0, <1>a, <1>7, <2>1, MergeWritten DEF Numbered
<1>8. ASSUME NEW p \in Mover, ToArchive(p) PROVE Numbered'
  BY <1>0, <1>a, <1>c, <1>8, Archived DEF Numbered
<1>9. ASSUME NEW p \in Mover, MoveDies(p) PROVE Numbered'
  BY <1>0, <1>a, <1>c, <1>9, Died DEF Numbered
<1>10. CASE UNCHANGED moveVars
  BY <1>0, <1>10 DEF moveVars, Numbered
<1> QED
  BY <1>1, <1>2, <1>3, <1>4, <1>5, <1>6, <1>7, <1>8, <1>9, <1>10 DEF MoveNext

\* What a merge of a session's file has read stays what is there, but for what
\* is late: a write there is late, and a rename or another merge puts there only
\* what was in one of the two files.
LEMMA MergeStep ==
  MoveFiles /\ MergeHolds /\ ArchiveHolds /\ [MoveNext]_moveVars => MergeHolds'
<1> SUFFICES ASSUME MoveFiles, MergeHolds, ArchiveHolds, [MoveNext]_moveVars
             PROVE  MergeHolds'
  OBVIOUS
<1>a. ASSUME NEW q \in Mover, At(q, "session", "write")
      PROVE  (Items(move[q].old) \cup Items(move[q].new)) \ late =
               (Items(old["session"]) \cup Items(new["session"])) \ late
  BY <1>a DEF MergeHolds
<1>b. ASSUME NEW q \in Mover, At(q, "log", "write")
      PROVE  Items(old["log"]) \ late
               \subseteq Items(move[q].old) \cup Items(new["log"])
  BY <1>b DEF MergeHolds
<1>c. /\ Items(NoFile) = {} /\ "session" \in Name /\ "log" \in Name
      /\ \A f \in Name : Items(In(old[f])) = Items(old[f])
      /\ \A f \in Name : f \in {"session", "log"}
  BY FileItems DEF MoveFiles, Name
<1>d. NoMove.at = "idle"
  BY NoMoveFields
<1>1. ASSUME NEW f \in Name, WriteOld(f) PROVE MergeHolds'
  <2>0. /\ move' = move /\ new' = new /\ late \subseteq late'
        /\ \A g \in Name : g # f => old'[g] = old[g]
        /\ Items(old'[f]) = Items(old[f]) \cup {written'}
    BY <1>1, OldWritten
  <2>1. \A q \in Mover : At(q, f, "write") => written' \in late'
    BY <1>1, OldWritten DEF Merging, At
  <2>2. \A q \in Mover : At(q, "session", "write") =>
          Items(old["session"]) \ late' = Items(old'["session"]) \ late'
    BY <1>c, <2>0, <2>1
  <2>3. \A q \in Mover : At(q, "log", "write") =>
          Items(old["log"]) \ late' = Items(old'["log"]) \ late'
    BY <1>c, <2>0, <2>1
  <2> QED BY <1>a, <1>b, <2>0, <2>2, <2>3 DEF MergeHolds, At
<1>2. ASSUME NEW f \in Name, WriteNew(f) PROVE MergeHolds'
  <2>0. /\ move' = move /\ old' = old /\ late \subseteq late'
        /\ \A g \in Name : g # f => new'[g] = new[g]
        /\ Items(new'[f]) = Items(new[f]) \cup {written'}
    BY <1>2, NewWritten
  <2>1. f = "session" =>
          \A q \in Mover : At(q, "session", "write") => written' \in late'
    BY <1>2, NewWritten DEF Merging, At
  <2>2. \A q \in Mover : At(q, "session", "write") =>
          Items(new["session"]) \ late' = Items(new'["session"]) \ late'
    BY <1>c, <2>0, <2>1
  <2>3. Items(new["log"]) \subseteq Items(new'["log"])
    BY <1>c, <2>0
  <2> QED BY <1>a, <1>b, <2>0, <2>2, <2>3 DEF MergeHolds, At
<1>3. ASSUME NEW p \in Mover, NEW f \in Name, BeginMove(p, f) PROVE MergeHolds'
  BY <1>3, Begun DEF MergeHolds, At
<1>4. ASSUME NEW p \in Mover, FreeName(p) PROVE MergeHolds'
  BY <1>4, Freed DEF MergeHolds, At
<1>5. ASSUME NEW p \in Mover, Rename(p) PROVE MergeHolds'
  <2> DEFINE f == move[p].name
  <2>0. /\ f \in Name /\ move'[p].at = "idle"
        /\ \A q \in Mover : q # p => move'[q] = move[q]
        /\ \A g \in Name : g # f => old'[g] = old[g] /\ new'[g] = new[g]
        /\ late \subseteq late'
        /\ \/ old'[f] = old[f] /\ new'[f] = new[f]
           \/ /\ old'[f] = NoFile /\ new'[f] = old[f]
              /\ Items(new[f]) \subseteq late'
    BY <1>5, <1>d, Renamed
  <2> HIDE DEF f
  <2>1. \A g \in Name : (Items(old'[g]) \cup Items(new'[g])) \ late' =
                          (Items(old[g]) \cup Items(new[g])) \ late'
    BY <1>c, <2>0
  <2>2. Items(old'["log"]) \subseteq Items(old["log"])
    BY <1>c, <2>0
  <2>3. (Items(old'["log"]) \cap Items(new["log"])) \ late'
          \subseteq Items(new'["log"])
    BY <1>c, <2>0
  <2> QED BY <1>a, <1>b, <1>c, <2>0, <2>1, <2>2, <2>3 DEF MergeHolds, At
<1>6. ASSUME NEW p \in Mover, ReadBoth(p) PROVE MergeHolds'
  <2> DEFINE f == move[p].name
  <2>0. /\ f \in Name /\ move'[p].name = f /\ move'[p].old = In(old[f])
        /\ f = "session" => move'[p].new = new[f]
        /\ \A q \in Mover : q # p => move'[q] = move[q]
        /\ old' = old /\ new' = new /\ late' = late
    BY <1>6, BothRead
  <2> HIDE DEF f
  <2>1. Items(move'[p].old) = Items(old[f])
    BY <1>c, <2>0
  <2> QED BY <1>a, <1>b, <2>0, <2>1 DEF MergeHolds, At
<1>7. ASSUME NEW p \in Mover, WriteMerged(p) PROVE MergeHolds'
  <2> DEFINE f == move[p].name
  <2>0. /\ f \in Name /\ At(p, f, "write") /\ move'[p].at = "archive"
        /\ \A q \in Mover : q # p => move'[q] = move[q]
        /\ old' = old /\ late' = late
        /\ \A g \in Name : g # f => new'[g] = new[g]
        /\ f = "session" => Items(new'[f]) =
                              Items(move[p].old) \cup Items(move[p].new)
        /\ f = "log" =>
             Items(new'[f]) = Items(new[f]) \cup Items(move[p].old)
    BY <1>7, MergeWritten DEF At
  <2> HIDE DEF f
  <2>1. (Items(old["session"]) \cup Items(new'["session"])) \ late =
          (Items(old["session"]) \cup Items(new["session"])) \ late
    <3>1. CASE f = "session"
      BY <1>a, <2>0, <3>1
    <3>2. CASE f # "session"
      BY <1>c, <2>0, <3>2
    <3> QED BY <3>1, <3>2
  <2>2. Items(new["log"]) \subseteq Items(new'["log"])
    BY <1>c, <2>0
  <2> QED BY <1>a, <1>b, <2>0, <2>1, <2>2 DEF MergeHolds, At
<1>8. ASSUME NEW p \in Mover, ToArchive(p) PROVE MergeHolds'
  <2> DEFINE f == move[p].name
  <2>0. /\ f \in Name /\ move[p].at = "archive" /\ move'[p].at = "idle"
        /\ \A q \in Mover : q # p => move'[q] = move[q]
        /\ old'[f] = NoFile /\ new' = new /\ late' = late
        /\ \A g \in Name : g # f => old'[g] = old[g]
    BY <1>8, <1>d, Archived
  <2>1. Items(old[f]) \ late \subseteq Items(new[f])
    BY <2>0 DEF ArchiveHolds
  <2> HIDE DEF f
  <2>2. \A g \in Name : (Items(old'[g]) \cup Items(new[g])) \ late =
                          (Items(old[g]) \cup Items(new[g])) \ late
    BY <1>c, <2>0, <2>1
  <2>3. Items(old'["log"]) \subseteq Items(old["log"])
    BY <1>c, <2>0
  <2> QED BY <1>a, <1>b, <1>c, <2>0, <2>2, <2>3 DEF MergeHolds, At
<1>9. ASSUME NEW p \in Mover, MoveDies(p) PROVE MergeHolds'
  BY <1>9, <1>d, Died DEF MergeHolds, At
<1>10. CASE UNCHANGED moveVars
  BY <1>10 DEF moveVars, MergeHolds, At
<1> QED
  BY <1>1, <1>2, <1>3, <1>4, <1>5, <1>6, <1>7, <1>8, <1>9, <1>10 DEF MoveNext

LEMMA ArchiveStep ==
  MoveFiles /\ MergeHolds /\ ArchiveHolds /\ [MoveNext]_moveVars
  => ArchiveHolds'
<1> SUFFICES ASSUME MoveFiles, MergeHolds, ArchiveHolds, [MoveNext]_moveVars
             PROVE  ArchiveHolds'
  OBVIOUS
<1>a. ASSUME NEW q \in Mover, move[q].at = "archive"
      PROVE  /\ move[q].name \in Name
             /\ Items(old[move[q].name]) \ late
                  \subseteq Items(new[move[q].name])
  BY <1>a DEF ArchiveHolds, MoveFiles, MoveRecord
<1>c. Items(NoFile) = {} /\ \A f \in Name : f \in {"session", "log"}
  BY FileItems DEF Name
<1>d. NoMove.at = "idle"
  BY NoMoveFields
<1>1. ASSUME NEW f \in Name, WriteOld(f) PROVE ArchiveHolds'
  <2>0. /\ move' = move /\ new' = new /\ late \subseteq late'
        /\ \A g \in Name : g # f => old'[g] = old[g]
        /\ Items(old'[f]) = Items(old[f]) \cup {written'}
    BY <1>1, OldWritten
  <2>1. \A q \in Mover : At(q, f, "archive") => written' \in late'
    BY <1>1, OldWritten DEF Merging, At
  <2> QED BY <1>a, <2>0, <2>1 DEF ArchiveHolds, At
<1>2. ASSUME NEW f \in Name, WriteNew(f) PROVE ArchiveHolds'
  <2>0. /\ move' = move /\ old' = old /\ late \subseteq late'
        /\ \A g \in Name : Items(new[g]) \subseteq Items(new'[g])
    BY <1>2, NewWritten
  <2> QED BY <1>a, <2>0 DEF ArchiveHolds
<1>3. ASSUME NEW p \in Mover, NEW f \in Name, BeginMove(p, f)
      PROVE  ArchiveHolds'
  BY <1>3, Begun DEF ArchiveHolds
<1>4. ASSUME NEW p \in Mover, FreeName(p) PROVE ArchiveHolds'
  BY <1>4, Freed DEF ArchiveHolds
<1>5. ASSUME NEW p \in Mover, Rename(p) PROVE ArchiveHolds'
  <2> DEFINE f == move[p].name
  <2>0. /\ f \in Name /\ move'[p].at = "idle"
        /\ \A q \in Mover : q # p => move'[q] = move[q]
        /\ \A g \in Name : g # f => old'[g] = old[g] /\ new'[g] = new[g]
        /\ late \subseteq late'
        /\ \/ old'[f] = old[f] /\ new'[f] = new[f]
           \/ old'[f] = NoFile
    BY <1>5, <1>d, Renamed
  <2> HIDE DEF f
  <2> QED BY <1>a, <1>c, <2>0 DEF ArchiveHolds
<1>6. ASSUME NEW p \in Mover, ReadBoth(p) PROVE ArchiveHolds'
  BY <1>6, BothRead DEF ArchiveHolds
<1>7. ASSUME NEW p \in Mover, WriteMerged(p) PROVE ArchiveHolds'
  <2> DEFINE f == move[p].name
  <2>0. /\ f \in Name /\ At(p, f, "write") /\ move'[p].name = f
        /\ \A q \in Mover : q # p => move'[q] = move[q]
        /\ old' = old /\ late' = late
        /\ \A g \in Name : g # f => new'[g] = new[g]
        /\ f = "session" => Items(new'[f]) =
                              Items(move[p].old) \cup Items(move[p].new)
        /\ f = "log" =>
             Items(new'[f]) = Items(new[f]) \cup Items(move[p].old)
    BY <1>7, MergeWritten DEF At
  <2> HIDE DEF f
  <2>1. Items(old[f]) \ late \subseteq Items(new'[f])
    <3>1. CASE f = "session"
      BY <2>0, <3>1 DEF MergeHolds
    <3>2. CASE f = "log"
      BY <2>0, <3>2 DEF MergeHolds
    <3> QED BY <1>c, <2>0, <3>1, <3>2
  <2> QED BY <1>a, <2>0, <2>1 DEF ArchiveHolds
<1>8. ASSUME NEW p \in Mover, ToArchive(p) PROVE ArchiveHolds'
  <2> DEFINE f == move[p].name
  <2>0. /\ f \in Name /\ move'[p].at = "idle"
        /\ \A q \in Mover : q # p => move'[q] = move[q]
        /\ old'[f] = NoFile /\ new' = new /\ late' = late
        /\ \A g \in Name : g # f => old'[g] = old[g]
    BY <1>8, <1>d, Archived
  <2> HIDE DEF f
  <2> QED BY <1>a, <1>c, <2>0 DEF ArchiveHolds
<1>9. ASSUME NEW p \in Mover, MoveDies(p) PROVE ArchiveHolds'
  BY <1>9, <1>d, Died DEF ArchiveHolds
<1>10. CASE UNCHANGED moveVars
  BY <1>10 DEF moveVars, ArchiveHolds
<1> QED
  BY <1>1, <1>2, <1>3, <1>4, <1>5, <1>6, <1>7, <1>8, <1>9, <1>10 DEF MoveNext

\* What a step takes from one file of a name is late or in the other.
LEMMA ItemsStep ==
  /\ MoveFiles /\ MergeHolds /\ ArchiveHolds /\ ItemsKept
  /\ [MoveNext]_moveVars
  => ItemsKept'
<1> SUFFICES ASSUME MoveFiles, MergeHolds, ArchiveHolds, ItemsKept,
                    [MoveNext]_moveVars
             PROVE  ItemsKept'
  OBVIOUS
<1> DEFINE There(i) == \E f \in Name : i \in Items(old[f]) \cup Items(new[f])
<1>a. \A i \in 1..written \ late : There(i)
  BY DEF ItemsKept
<1>b. ASSUME written' = written, late \subseteq late',
             \A g \in Name : (Items(old[g]) \cup Items(new[g])) \ late'
                               \subseteq Items(old'[g]) \cup Items(new'[g])
      PROVE  ItemsKept'
  <2> SUFFICES ASSUME NEW i \in 1..written \ late'
               PROVE  \E f \in Name : i \in Items(old'[f]) \cup Items(new'[f])
    BY <1>b DEF ItemsKept
  <2>1. PICK f \in Name : i \in Items(old[f]) \cup Items(new[f])
    BY <1>a, <1>b
  <2> QED BY <1>b, <2>1
<1>c. ASSUME written' = written + 1, late \subseteq late', NEW f \in Name,
             \A g \in Name : Items(old[g]) \cup Items(new[g])
                               \subseteq Items(old'[g]) \cup Items(new'[g]),
             written' \in Items(old'[f]) \cup Items(new'[f])
      PROVE  ItemsKept'
  <2> SUFFICES ASSUME NEW i \in 1..written' \ late'
               PROVE  \E g \in Name : i \in Items(old'[g]) \cup Items(new'[g])
    BY DEF ItemsKept
  <2>1. CASE i = written'
    BY <1>c, <2>1
  <2>2. CASE i # written'
    <3>1. i \in 1..written \ late
      BY <1>c, <2>2 DEF MoveFiles
    <3>2. PICK g \in Name : i \in Items(old[g]) \cup Items(new[g])
      BY <1>a, <3>1
    <3> QED BY <1>c, <3>2
  <2> QED BY <2>1, <2>2
<1> HIDE DEF There
<1>d. Items(NoFile) = {} /\ \A f \in Name : f \in {"session", "log"}
  BY FileItems DEF Name
<1>1. ASSUME NEW f \in Name, WriteOld(f) PROVE ItemsKept'
  <2>1. /\ written' = written + 1 /\ late \subseteq late' /\ new' = new
        /\ \A g \in Name : g # f => old'[g] = old[g]
        /\ Items(old'[f]) = Items(old[f]) \cup {written'}
    BY <1>1, OldWritten
  <2>2. \A g \in Name : Items(old[g]) \cup Items(new[g])
                          \subseteq Items(old'[g]) \cup Items(new'[g])
    BY <2>1
  <2> QED BY <1>c, <2>1, <2>2
<1>2. ASSUME NEW f \in Name, WriteNew(f) PROVE ItemsKept'
  <2>1. /\ written' = written + 1 /\ late \subseteq late' /\ old' = old
        /\ \A g \in Name : g # f => new'[g] = new[g]
        /\ Items(new'[f]) = Items(new[f]) \cup {written'}
    BY <1>2, NewWritten
  <2>2. \A g \in Name : Items(old[g]) \cup Items(new[g])
                          \subseteq Items(old'[g]) \cup Items(new'[g])
    BY <2>1
  <2> QED BY <1>c, <2>1, <2>2
<1>3. ASSUME NEW p \in Mover,
             \/ \E f \in Name : BeginMove(p, f)
             \/ FreeName(p) \/ ReadBoth(p) \/ MoveDies(p)
      PROVE  ItemsKept'
  <2>1. UNCHANGED <<written, old, new, late>>
    BY <1>3, Begun, Freed, BothRead, Died
  <2> QED BY <2>1 DEF ItemsKept
<1>4. ASSUME NEW p \in Mover, Rename(p) PROVE ItemsKept'
  <2> DEFINE f == move[p].name
  <2>1. /\ f \in Name /\ written' = written /\ late \subseteq late'
        /\ \A g \in Name : g # f => old'[g] = old[g] /\ new'[g] = new[g]
        /\ \/ old'[f] = old[f] /\ new'[f] = new[f]
           \/ new'[f] = old[f] /\ Items(new[f]) \subseteq late'
    BY <1>4, Renamed
  <2> HIDE DEF f
  <2>2. \A g \in Name : (Items(old[g]) \cup Items(new[g])) \ late'
                          \subseteq Items(old'[g]) \cup Items(new'[g])
    BY <2>1
  <2> QED BY <1>b, <2>1, <2>2
<1>5. ASSUME NEW p \in Mover, WriteMerged(p) PROVE ItemsKept'
  <2> DEFINE f == move[p].name
  <2>1. /\ f \in Name /\ At(p, f, "write") /\ written' = written
        /\ old' = old /\ late' = late
        /\ \A g \in Name : g # f => new'[g] = new[g]
        /\ f = "session" => Items(new'[f]) =
                              Items(move[p].old) \cup Items(move[p].new)
        /\ f = "log" =>
             Items(new'[f]) = Items(new[f]) \cup Items(move[p].old)
    BY <1>5, MergeWritten DEF At
  <2> HIDE DEF f
  <2>2. (Items(old[f]) \cup Items(new[f])) \ late
          \subseteq Items(old[f]) \cup Items(new'[f])
    <3>1. CASE f = "session"
      BY <2>1, <3>1 DEF MergeHolds
    <3>2. CASE f = "log"
      BY <2>1, <3>2
    <3> QED BY <1>d, <2>1, <3>1, <3>2
  <2>3. \A g \in Name : (Items(old[g]) \cup Items(new[g])) \ late'
                          \subseteq Items(old'[g]) \cup Items(new'[g])
    BY <2>1, <2>2
  <2> QED BY <1>b, <2>1, <2>3
<1>6. ASSUME NEW p \in Mover, ToArchive(p) PROVE ItemsKept'
  <2> DEFINE f == move[p].name
  <2>1. /\ f \in Name /\ move[p].at = "archive" /\ written' = written
        /\ new' = new /\ late' = late
        /\ \A g \in Name : g # f => old'[g] = old[g]
    BY <1>6, Archived
  <2>2. Items(old[f]) \ late \subseteq Items(new[f])
    BY <2>1 DEF ArchiveHolds
  <2> HIDE DEF f
  <2>3. \A g \in Name : (Items(old[g]) \cup Items(new[g])) \ late'
                          \subseteq Items(old'[g]) \cup Items(new'[g])
    BY <2>1, <2>2
  <2> QED BY <1>b, <2>1, <2>3
<1>7. CASE UNCHANGED moveVars
  BY <1>7 DEF moveVars, ItemsKept
<1> QED
  BY <1>1, <1>2, <1>3, <1>4, <1>5, <1>6, <1>7 DEF MoveNext

\* One process at a time merges the log, or the log is in twice.
LEMMA OneMoverStep ==
  ASSUME MoveFiles, OneMover, [MoveNext]_moveVars, "log" \notin twice'
  PROVE  OneMover'
<1>0. NoMove.at = "idle" /\ \A p \in Mover : move[p] \in MoveRecord
  BY NoMoveFields DEF MoveFiles
<1>1. ASSUME NEW p \in Mover,
             \A q \in Mover : q # p => move'[q] = move[q],
             MergesLog(p)' => MergesLog(p)
      PROVE  OneMover'
  <2>1. \A q \in Mover : MergesLog(q)' => MergesLog(q)
    BY <1>1 DEF MergesLog
  <2> QED BY <2>1 DEF OneMover
<1>2. ASSUME NEW f \in Name, WriteOld(f) \/ WriteNew(f) PROVE OneMover'
  <2>1. move' = move
    BY <1>2, OldWritten, NewWritten
  <2> QED BY <2>1 DEF OneMover, MergesLog
<1>3. ASSUME NEW p \in Mover, NEW f \in Name, BeginMove(p, f) PROVE OneMover'
  <2>0. /\ move'[p].name = f
        /\ \A q \in Mover : q # p => move'[q] = move[q]
        /\ twice' = IF Merging(f, {"test", "rename", "write", "archive"})
                    THEN twice \cup {f} ELSE twice
    BY <1>3, Begun
  <2>1. CASE f # "log"
    BY <1>1, <2>0, <2>1 DEF MergesLog
  <2>2. CASE f = "log"
    <3>1. ~Merging(f, {"test", "rename", "write", "archive"})
      BY <2>0, <2>2
    <3>2. \A q \in Mover : ~MergesLog(q)
      BY <1>0, <2>2, <3>1 DEF Merging, MergesLog, MoveRecord
    <3> QED BY <2>0, <3>2 DEF OneMover, MergesLog
  <2> QED BY <2>1, <2>2
<1>4. ASSUME NEW p \in Mover, FreeName(p) PROVE OneMover'
  BY <1>1, <1>4, Freed DEF MergesLog
<1>5. ASSUME NEW p \in Mover, Rename(p) PROVE OneMover'
  BY <1>0, <1>1, <1>5, Renamed DEF MergesLog
<1>6. ASSUME NEW p \in Mover, ReadBoth(p) PROVE OneMover'
  BY <1>1, <1>6, BothRead DEF MergesLog
<1>7. ASSUME NEW p \in Mover, WriteMerged(p) PROVE OneMover'
  BY <1>1, <1>7, MergeWritten DEF MergesLog
<1>8. ASSUME NEW p \in Mover, ToArchive(p) PROVE OneMover'
  BY <1>0, <1>1, <1>8, Archived DEF MergesLog
<1>9. ASSUME NEW p \in Mover, MoveDies(p) PROVE OneMover'
  BY <1>0, <1>1, <1>9, Died DEF MergesLog
<1>10. CASE UNCHANGED moveVars
  BY <1>10 DEF moveVars, OneMover, MergesLog
<1> QED
  BY <1>2, <1>3, <1>4, <1>5, <1>6, <1>7, <1>8, <1>9, <1>10 DEF MoveNext

\* What the lines of the log have in common with each other, and with what a
\* merge is about to append.
LogParts == OneByOne /\ Apart /\ ReadApart

LEMMA LogStays ==
  ASSUME LogParts, old'["log"] = old["log"], new'["log"] = new["log"],
         NEW p \in Mover, \A q \in Mover : q # p => move'[q] = move[q],
         ~At(p, "log", "archive"), ~At(p, "log", "write")'
  PROVE  LogParts'
<1>1. OneByOne'
  BY DEF LogParts, OneByOne
<1>2. Apart'
  BY DEF LogParts, Apart, At
<1>3. ReadApart'
  BY DEF LogParts, ReadApart, At
<1> QED BY <1>1, <1>2, <1>3 DEF LogParts

\* A line in one place or the other, written now, is the first of its number.
LEMMA LogWritten ==
  ASSUME MoveFiles, Numbered, LogParts, NEW f \in Name,
         WriteOld(f) \/ WriteNew(f)
  PROVE  LogParts'
<1>0. /\ \A g \in Name : Items(old[g]) \cup Items(new[g]) \subseteq 1..written
      /\ \A p \in Mover : Items(move[p].old) \subseteq 1..written
      /\ written + 1 \notin 1..written /\ "log" \in Name
  BY DEF Numbered, MoveFiles, Name
<1>1. move' = move /\ written' = written + 1 /\ written' \in Item
  BY OldWritten, NewWritten
<1>2. \/ old'["log"] = old["log"]
      \/ /\ Items(old'["log"]) = Items(old["log"]) \cup {written'}
         /\ \A i \in Item : In(old'["log"])[i] =
                              IF i = written' THEN 1 ELSE In(old["log"])[i]
  BY <1>0, OldWritten, NewWritten
<1>3. \/ new'["log"] = new["log"]
      \/ /\ Items(new'["log"]) = Items(new["log"]) \cup {written'}
         /\ \A i \in Item : In(new'["log"])[i] =
                              IF i = written' THEN 1 ELSE In(new["log"])[i]
  BY <1>0, OldWritten, NewWritten
<1>4. \/ old'["log"] = old["log"]
      \/ new'["log"] = new["log"]
  BY OldWritten, NewWritten
<1>5. OneByOne'
  BY <1>2, <1>3 DEF LogParts, OneByOne
<1>6. Apart'
  BY <1>0, <1>1, <1>2, <1>3, <1>4 DEF LogParts, Apart, At
<1>7. ReadApart'
  BY <1>0, <1>1, <1>3 DEF LogParts, ReadApart, At
<1> QED BY <1>5, <1>6, <1>7 DEF LogParts

\* The one merge of the log appends what the other file has not.
LEMMA LogAppended ==
  ASSUME MoveFiles, OneMover, LogParts, NEW p \in Mover, WriteMerged(p)
  PROVE  LogParts'
<1> DEFINE f == move[p].name
<1>1. /\ f \in Name /\ At(p, f, "write") /\ move'[p].at = "archive"
      /\ move'[p].name = f /\ \A q \in Mover : q # p => move'[q] = move[q]
      /\ old' = old /\ \A g \in Name : g # f => new'[g] = new[g]
      /\ f = "log" => \A i \in Item : In(new'[f])[i] =
                                        Sum(In(new[f])[i], move[p].old[i])
  BY MergeWritten DEF At
<1> HIDE DEF f
<1>2. CASE f # "log"
  <2>1. new'["log"] = new["log"] /\ ~At(p, "log", "archive")
        /\ move'[p].at # "write" /\ old'["log"] = old["log"]
    BY <1>1, <1>2 DEF At, Name
  <2>2. ~At(p, "log", "write")'
    BY <2>1 DEF At
  <2> QED BY <1>1, <2>1, <2>2, LogStays
<1>3. CASE f = "log"
  <2>1. Apart'
    BY <1>1, <1>3 DEF Apart, At
  <2>2. ReadApart'
    <3>1. \A q \in Mover : q # p => ~At(q, "log", "write")
      BY <1>1, <1>3 DEF OneMover, MergesLog, At
    <3> QED BY <1>1, <3>1 DEF ReadApart, At
  <2>3. OneByOne'
    <3> SUFFICES ASSUME NEW i \in Item
                 PROVE  /\ In(old["log"])[i] <= 1
                        /\ In(new'["log"])[i] <= 1
      BY <1>1 DEF OneByOne
    <3>1. /\ In(new["log"])[i] \in 0..2 /\ move[p].old[i] \in 0..2
          /\ i \in Items(new["log"]) <=> In(new["log"])[i] > 0
          /\ i \in Items(move[p].old) <=> move[p].old[i] > 0
      <4>1. new["log"] \in File /\ move[p].old \in Copies
        BY DEF MoveFiles, MoveRecord, Name
      <4> QED BY <4>1, FileItems DEF Items
    <3>2. /\ In(old["log"])[i] <= 1 /\ In(new["log"])[i] <= 1
          /\ move[p].old[i] <= 1
          /\ i \notin Items(move[p].old) \/ i \notin Items(new["log"])
      BY <1>1, <1>3 DEF LogParts, OneByOne, ReadApart
    <3>3. Sum(In(new["log"])[i], move[p].old[i]) <= 1
      BY <3>1, <3>2 DEF Sum
    <3> QED BY <1>1, <1>3, <3>2, <3>3
  <2> QED BY <2>1, <2>2, <2>3 DEF LogParts
<1> QED BY <1>2, <1>3

LEMMA LogRead ==
  ASSUME MoveFiles, OneMover, LogParts, NEW p \in Mover, ReadBoth(p)
  PROVE  LogParts'
<1> DEFINE f == move[p].name
<1>1. /\ f \in Name /\ move[p].at = "test" /\ move'[p].at = "write"
      /\ move'[p].name = f /\ move'[p].old = In(old[f])
      /\ \A q \in Mover : q # p => move'[q] = move[q]
      /\ old' = old /\ new' = new
  BY BothRead
<1>2. f = "log" => \A q \in Mover : ~At(q, "log", "archive")
  BY <1>1 DEF OneMover, MergesLog, At
<1> HIDE DEF f
<1>3. CASE f # "log"
  <2>1. ~At(p, "log", "archive") /\ ~At(p, "log", "write")'
    BY <1>1, <1>3 DEF At
  <2> QED BY <1>1, <2>1, LogStays
<1>4. CASE f = "log"
  <2>1. Items(move'[p].old) = Items(old["log"])
    BY <1>1, <1>4, FileItems DEF MoveFiles
  <2>2. Items(old["log"]) \cap Items(new["log"]) = {}
    BY <1>2, <1>4 DEF LogParts, Apart
  <2>3. \A i \in Item : move'[p].old[i] <= 1
    BY <1>1, <1>4 DEF LogParts, OneByOne
  <2>4. ReadApart'
    BY <1>1, <2>1, <2>2, <2>3 DEF LogParts, ReadApart, At
  <2>5. OneByOne' /\ Apart'
    BY <1>1, <2>2 DEF LogParts, OneByOne, Apart
  <2> QED BY <2>4, <2>5 DEF LogParts
<1> QED BY <1>3, <1>4

\* A rename, or the archive, leaves the log in one place.
LEMMA LogGoes ==
  ASSUME MoveFiles, OneMover, LogParts, NEW p \in Mover,
         Rename(p) \/ ToArchive(p)
  PROVE  LogParts'
<1> DEFINE f == move[p].name
<1>0. /\ NoMove.at = "idle" /\ Items(NoFile) = {}
      /\ \A i \in Item : In(NoFile)[i] = 0
  BY NoMoveFields, FileItems DEF In, Blank
<1>1. /\ f \in Name /\ move[p].at \in {"rename", "archive"}
      /\ move'[p].at = "idle"
      /\ \A q \in Mover : q # p => move'[q] = move[q]
      /\ \A g \in Name : g # f => old'[g] = old[g] /\ new'[g] = new[g]
      /\ \/ old'[f] = old[f] /\ new'[f] = new[f] /\ move[p].at = "rename"
         \/ old'[f] = NoFile /\ new'[f] \in {old[f], new[f]}
  BY <1>0, Renamed, Archived
<1>2. ~At(p, "log", "write")'
  BY <1>1 DEF At
<1>3. f = "log" => \A q \in Mover : q # p => ~At(q, "log", "write")
  BY <1>1 DEF OneMover, MergesLog, At
<1> HIDE DEF f
<1>4. CASE f # "log"
  <2>1. ~At(p, "log", "archive")
        /\ old'["log"] = old["log"] /\ new'["log"] = new["log"]
    BY <1>1, <1>4 DEF At, Name, f
  <2> QED BY <1>1, <1>2, <2>1, LogStays
<1>5. CASE f = "log"
  <2>1. ReadApart'
    BY <1>1, <1>2, <1>3, <1>5 DEF ReadApart, At
  <2>2. CASE old'["log"] = old["log"] /\ new'["log"] = new["log"]
             /\ move[p].at = "rename"
    <3>1. ~At(p, "log", "archive")
      BY <2>2 DEF At
    <3> QED BY <1>1, <1>2, <2>2, <3>1, LogStays
  <2>3. CASE old'["log"] = NoFile /\ new'["log"] \in {old["log"], new["log"]}
    <3>1. Apart'
      BY <1>0, <2>3 DEF Apart
    <3>2. OneByOne'
      BY <1>0, <2>3 DEF LogParts, OneByOne
    <3> QED BY <2>1, <3>1, <3>2 DEF LogParts
  <2> QED BY <1>1, <1>5, <2>2, <2>3
<1> QED BY <1>4, <1>5

LEMMA LogStep ==
  MoveFiles /\ Numbered /\ LogInv /\ [MoveNext]_moveVars => LogInv'
<1> SUFFICES ASSUME MoveFiles, Numbered, LogInv, [MoveNext]_moveVars,
                    "log" \notin twice'
             PROVE  OneMover' /\ LogParts'
  BY DEF LogInv, LogParts
<1>0. twice \subseteq twice'
  <2>1. ASSUME NEW f \in Name, WriteOld(f) \/ WriteNew(f) PROVE twice' = twice
    BY <2>1, OldWritten, NewWritten
  <2>2. ASSUME NEW p \in Mover, NEW f \in Name, BeginMove(p, f)
        PROVE  twice \subseteq twice'
    BY <2>2, Begun
  <2>3. ASSUME NEW p \in Mover,
               FreeName(p) \/ Rename(p) \/ ReadBoth(p) \/ WriteMerged(p)
               \/ ToArchive(p) \/ MoveDies(p)
        PROVE  twice \subseteq twice'
    BY <2>3, Freed, Renamed, BothRead, MergeWritten, Archived, Died
  <2>4. CASE UNCHANGED moveVars
    BY <2>4 DEF moveVars
  <2> QED BY <2>1, <2>2, <2>3, <2>4 DEF MoveNext
<1>1. OneMover /\ LogParts
  BY <1>0 DEF LogInv, LogParts
<1>2. OneMover'
  BY <1>1, OneMoverStep
<1>3. ASSUME NEW f \in Name, WriteOld(f) \/ WriteNew(f) PROVE LogParts'
  BY <1>1, <1>3, LogWritten
<1>4. ASSUME NEW p \in Mover, (\E f \in Name : BeginMove(p, f)) \/ FreeName(p)
      PROVE  LogParts'
  <2>1. /\ old' = old /\ new' = new /\ move[p].at # "archive"
        /\ move'[p].at # "write"
        /\ \A q \in Mover : q # p => move'[q] = move[q]
    BY <1>4, Begun, Freed
  <2>2. ~At(p, "log", "archive") /\ ~At(p, "log", "write")'
    BY <2>1 DEF At
  <2> QED BY <1>1, <2>1, <2>2, LogStays
<1>5. ASSUME NEW p \in Mover, Rename(p) \/ ToArchive(p) PROVE LogParts'
  BY <1>1, <1>5, LogGoes
<1>6. ASSUME NEW p \in Mover, ReadBoth(p) PROVE LogParts'
  BY <1>1, <1>6, LogRead
<1>7. ASSUME NEW p \in Mover, WriteMerged(p) PROVE LogParts'
  BY <1>1, <1>7, LogAppended
<1>8. ASSUME NEW p \in Mover, MoveDies(p) PROVE LogParts'
  <2>1. /\ old' = old /\ new' = new /\ move'[p].at = "idle"
        /\ \A q \in Mover : q # p => move'[q] = move[q]
        /\ move[p].at = "archive" => move[p].name # "log"
    BY <1>8, Died, NoMoveFields
  <2>2. ~At(p, "log", "archive") /\ ~At(p, "log", "write")'
    BY <2>1 DEF At
  <2> QED BY <1>1, <2>1, <2>2, LogStays
<1>9. CASE UNCHANGED moveVars
  <2>1. old' = old /\ new' = new /\ move' = move
    BY <1>9 DEF moveVars
  <2>2. OneByOne'
    BY <1>1, <2>1 DEF LogParts, OneByOne
  <2>3. Apart'
    BY <1>1, <2>1 DEF LogParts, Apart, At
  <2>4. ReadApart'
    BY <1>1, <2>1 DEF LogParts, ReadApart, At
  <2> QED BY <1>2, <2>2, <2>3, <2>4 DEF LogParts
<1> QED
  BY <1>2, <1>3, <1>4, <1>5, <1>6, <1>7, <1>8, <1>9 DEF MoveNext

LEMMA MoveBegins == MoveInit => MoveInv
<1> SUFFICES ASSUME MoveInit PROVE MoveInv
  OBVIOUS
<1>0. /\ NoMove.at = "idle" /\ NoMove.old = Blank /\ NoMove.new = Blank
      /\ Items(NoFile) = {} /\ Items(Blank) = {} /\ NoFile \in File
      /\ \A i \in Item : In(NoFile)[i] = 0
  BY NoMoveFields, FileItems DEF In, Blank, File
<1>1. /\ written = 0 /\ late = {} /\ \A p \in Mover : move[p] = NoMove
      /\ \A f \in Name : old[f] = NoFile /\ new[f] = NoFile
      /\ "log" \in Name
  BY DEF MoveInit, Name
<1>2. MoveFiles
  <2>1. NoMove \in MoveRecord
    BY FileItems DEF NoMove, MoveRecord, Name
  <2> QED BY <1>0, <2>1, MoveAssumption DEF MoveInit, MoveFiles
<1>3. MergeHolds /\ ArchiveHolds
  BY <1>0, <1>1 DEF MergeHolds, ArchiveHolds, At
<1>4. ItemsKept /\ Numbered
  BY <1>0, <1>1 DEF ItemsKept, Numbered
<1>5. OneByOne /\ OneMover /\ Apart /\ ReadApart
  BY <1>0, <1>1 DEF OneByOne, OneMover, Apart, ReadApart, MergesLog, At
<1> QED BY <1>2, <1>3, <1>4, <1>5 DEF MoveInv, LogInv

LEMMA MoveStep == MoveInv /\ [MoveNext]_moveVars => MoveInv'
BY FilesStep, NumberedStep, MergeStep, ArchiveStep, ItemsStep, LogStep
DEF MoveInv

\* The files of the board in both places, and the merges, keep their types.
THEOREM BoardMoveTyped == MoveSpec => []MoveTypes
<1>1. MoveInv => MoveTypes
  BY DEF MoveInv, MoveFiles, MoveRecord, MoveTypes
<1> QED BY <1>1, MoveBegins, MoveStep, PTL DEF MoveSpec

\* For any number of processes and items, and whoever is killed: the move of
\* the board takes nothing off it and doubles no line of a log, but for the two
\* windows that late and twice name.
THEOREM BoardMoveKept == MoveSpec => []BoardKept
<1>1. MoveInv => BoardKept
  <2> SUFFICES ASSUME MoveInv PROVE BoardKept
    OBVIOUS
  <2>1. ASSUME "log" \notin twice, NEW i \in Items(new["log"])
        PROVE  new["log"][i] = 1
    <3>1. new["log"] \in File /\ OneByOne
      BY <2>1 DEF MoveInv, MoveFiles, LogInv, Name
    <3>2. new["log"] \in Copies
      BY <2>1, <3>1, FileItems DEF File
    <3>3. /\ i \in Item /\ new["log"][i] \in 0..2 /\ new["log"][i] > 0
          /\ new["log"][i] <= 1
      BY <2>1, <3>1, <3>2, FileItems DEF Items, OneByOne
    <3> QED BY <3>3
  <2> QED BY <2>1 DEF MoveInv, BoardKept, LinesOnce
<1> QED BY <1>1, MoveBegins, MoveStep, PTL DEF MoveSpec
-----------------------------------------------------------------------------
(* SessionSync                                                             *)

SyncRecord ==
  [at : {"idle", "copy", "commit", "pull", "push", "save"},
   done : [Recorded -> 0..MaxRecords], months : SUBSET Recorded,
   push : BOOLEAN]

Copy == Content \cup {Broken}

SyncFiles ==
  /\ kept \in [Recorded -> Content]
  /\ copied \in [Recorded -> Copy] /\ committed \in [Recorded -> Copy]
  /\ upstream \in [Recorded -> Copy]
  /\ behind \in BOOLEAN /\ done \in [Recorded -> 0..MaxRecords]
  /\ sync \in SyncRecord

\* The state never says more records than the archive has, and of a session it
\* says has them all, HEAD has the same.
DoneIsCommitted ==
  \A s \in Recorded :
    /\ done[s] <= kept[s].count
    /\ done[s] = kept[s].count /\ done[s] > 0 => committed[s] = kept[s]

\* The months of a sync are copied; the sessions it passed over are committed.
MonthsAreCopied ==
  sync.at # "idle" => \A s \in Recorded :
    /\ sync.done[s] <= kept[s].count
    /\ s \in sync.months => copied[s] = kept[s]
    /\ s \notin sync.months /\ sync.done[s] = kept[s].count /\ sync.done[s] > 0
         => committed[s] = kept[s]

\* From the commits on, every session is copied; after them, all is committed;
\* after the push, on the remote.
SyncedInOrder ==
  /\ sync.at \in {"commit", "pull", "push", "save"} =>
       \A s \in Recorded : sync.done[s] = kept[s].count
  /\ sync.at \in {"pull", "push", "save"} => sync.months = {}
  /\ sync.at = "save" /\ sync.push => upstream = committed

SyncInv == SyncFiles /\ DoneIsCommitted /\ MonthsAreCopied /\ SyncedInOrder

LEMMA SyncNothing ==
  /\ NoSync \in SyncRecord /\ NoSync.at = "idle"
  /\ Nothing \in Content /\ Nothing \in Copy /\ Nothing.count = 0
  /\ Broken \in Copy
BY SyncAssumption DEF NoSync, SyncRecord, Nothing, Content, Copy, Broken

LEMMA SyncBegins == SyncInit => SyncInv
<1> SUFFICES ASSUME SyncInit PROVE SyncInv
  OBVIOUS
<1>1. SyncFiles
  <2>1. 0 \in 0..MaxRecords
    BY SyncAssumption
  <2>2. [s \in Recorded |-> 0] \in [Recorded -> 0..MaxRecords]
    BY <2>1
  <2>3. /\ [s \in Recorded |-> Nothing] \in [Recorded -> Content]
        /\ [s \in Recorded |-> Nothing] \in [Recorded -> Copy]
    BY SyncNothing
  <2> QED BY <2>2, <2>3, SyncNothing DEF SyncInit, SyncFiles
<1>2. sync.at = "idle"
  BY SyncNothing DEF SyncInit
<1>3. \A s \in Recorded : done[s] = 0 /\ kept[s].count = 0
  BY SyncNothing DEF SyncInit
<1>4. \A s \in Recorded : done[s] <= kept[s].count /\ ~(done[s] > 0)
  <2> TAKE s \in Recorded
  <2> QED BY <1>3
<1>5. DoneIsCommitted
  BY <1>4 DEF DoneIsCommitted
<1> QED BY <1>1, <1>2, <1>5 DEF SyncInv, MonthsAreCopied, SyncedInOrder

\* Between two syncs the archive grows or is built anew.
LEMMA SyncIdles ==
  ASSUME SyncInv, NEW s \in Recorded, Grow(s) \/ Rebuild(s)
  PROVE  SyncInv'
<1>1. /\ sync' = sync /\ sync.at = "idle"
      /\ UNCHANGED <<copied, committed, upstream, behind>>
  BY SyncNothing DEF Grow, Rebuild
<1>2. CASE Grow(s)
  <2>1. /\ kept[s] \in Content /\ kept[s].count < MaxRecords
        /\ kept' = [kept EXCEPT ![s] =
                      [kept[s] EXCEPT !.count = kept[s].count + 1]]
        /\ done' = done
    BY <1>2 DEF Grow, SyncInv, SyncFiles
  <2>2. /\ kept[s].count + 1 \in 0..MaxRecords
        /\ kept[s].reading \in 0..MaxReadings
        /\ [kept[s] EXCEPT !.count = kept[s].count + 1] =
             [count |-> kept[s].count + 1, reading |-> kept[s].reading]
    BY <2>1, SyncAssumption DEF Content
  <2>3. PICK n \in 0..MaxRecords, q \in 0..MaxReadings :
          /\ n = kept[s].count + 1
          /\ kept' = [kept EXCEPT ![s] = [count |-> n, reading |-> q]]
    BY <2>1, <2>2
  <2>4. /\ kept' \in [Recorded -> Content]
        /\ kept'[s].count = kept[s].count + 1
        /\ \A r \in Recorded : r # s => kept'[r] = kept[r]
    BY <2>3 DEF SyncInv, SyncFiles, Content
  <2>5. SyncFiles'
    BY <1>1, <2>1, <2>4 DEF SyncInv, SyncFiles
  <2>6. kept[s].count \in Nat /\ done[s] \in Nat
    BY <2>1 DEF Content, SyncInv, SyncFiles
  <2>7. DoneIsCommitted'
    BY <1>1, <2>1, <2>4, <2>6 DEF SyncInv, DoneIsCommitted
  <2> QED BY <1>1, <2>5, <2>7 DEF SyncInv, MonthsAreCopied, SyncedInOrder
<1>3. CASE Rebuild(s)
  <2>1. PICK n \in 0..MaxRecords :
          kept' = [kept EXCEPT ![s] =
                     [count |-> n, reading |-> kept[s].reading + 1]]
    BY <1>3 DEF Rebuild
  <2>2. /\ kept[s].reading + 1 \in 0..MaxReadings
        /\ done' = [r \in Recorded |-> 0]
    BY <1>3, SyncAssumption DEF Rebuild, SyncInv, SyncFiles, Content
  <2>3. kept' \in [Recorded -> Content]
    BY <2>1, <2>2 DEF SyncInv, SyncFiles, Content
  <2>4. SyncFiles'
    BY <1>1, <2>2, <2>3, SyncAssumption DEF SyncInv, SyncFiles
  <2>5. \A r \in Recorded : kept'[r].count \in Nat
    BY <2>3 DEF Content
  <2>6. DoneIsCommitted'
    BY <2>2, <2>5 DEF DoneIsCommitted
  <2> QED BY <1>1, <2>4, <2>6 DEF SyncInv, MonthsAreCopied, SyncedInOrder
<1> QED BY <1>2, <1>3

LEMMA SyncStep == SyncInv /\ [SyncNext]_syncVars => SyncInv'
<1> SUFFICES ASSUME SyncInv, [SyncNext]_syncVars PROVE SyncInv'
  OBVIOUS
<1>0. /\ SyncFiles /\ DoneIsCommitted /\ MonthsAreCopied /\ SyncedInOrder
      /\ kept \in [Recorded -> Content] /\ sync \in SyncRecord
      /\ \A s \in Recorded : kept[s].count \in 0..MaxRecords
  BY DEF SyncInv, SyncFiles, Content
<1>1. ASSUME NEW s \in Recorded, Grow(s) \/ Rebuild(s) PROVE SyncInv'
  BY <1>1, SyncIdles
<1>2. ASSUME NEW s \in Recorded, CopySession(s) PROVE SyncInv'
  <2>1. /\ sync.at = "copy" /\ kept' = kept
        /\ sync' = [sync EXCEPT !.done[s] = kept[s].count,
                                !.months = sync.months \cup {s}]
        /\ copied' = [copied EXCEPT ![s] = kept[s]]
        /\ UNCHANGED <<committed, upstream, behind, done>>
    BY <1>2 DEF CopySession, Syncs
  <2>2. /\ sync' \in SyncRecord /\ sync'.at = sync.at
        /\ sync'.months = sync.months \cup {s} /\ sync'.push = sync.push
        /\ sync'.done = [sync.done EXCEPT ![s] = kept[s].count]
    BY <1>0, <2>1 DEF SyncRecord
  <2>3. kept[s] \in Copy /\ copied' \in [Recorded -> Copy]
    BY <1>0, <2>1 DEF Copy, SyncFiles
  <2>4. SyncFiles'
    BY <1>0, <2>1, <2>2, <2>3 DEF SyncFiles
  <2>5. /\ copied'[s] = kept[s] /\ sync'.done[s] = kept[s].count
        /\ \A q \in Recorded : q # s => /\ copied'[q] = copied[q]
                                        /\ sync'.done[q] = sync.done[q]
    BY <1>0, <2>1, <2>2 DEF SyncFiles, SyncRecord
  <2>6. MonthsAreCopied'
    BY <1>0, <2>1, <2>2, <2>5 DEF MonthsAreCopied
  <2>7. DoneIsCommitted' /\ SyncedInOrder'
    BY <1>0, <2>1, <2>2 DEF DoneIsCommitted, SyncedInOrder
  <2> QED BY <2>4, <2>6, <2>7 DEF SyncInv
<1>3. ASSUME NEW s \in Recorded, CommitMonth(s) PROVE SyncInv'
  <2>1. /\ sync.at = "commit" /\ kept' = kept
        /\ s \in sync.months
        /\ sync' = [sync EXCEPT !.months = sync.months \ {s}]
        /\ committed' = [committed EXCEPT ![s] = copied[s]]
        /\ UNCHANGED <<copied, upstream, behind, done>>
    BY <1>3 DEF CommitMonth, Syncs
  <2>2. /\ sync' \in SyncRecord /\ sync'.at = sync.at
        /\ sync'.done = sync.done /\ sync'.push = sync.push
        /\ sync'.months = sync.months \ {s}
    BY <1>0, <2>1 DEF SyncRecord
  <2>3. copied[s] \in Copy /\ committed' \in [Recorded -> Copy]
    BY <1>0, <2>1 DEF SyncFiles
  <2>4. SyncFiles'
    BY <1>0, <2>1, <2>2, <2>3 DEF SyncFiles
  <2>5. /\ committed'[s] = kept[s]
        /\ \A q \in Recorded : q # s => committed'[q] = committed[q]
    BY <1>0, <2>1 DEF SyncFiles, MonthsAreCopied
  <2>6. MonthsAreCopied' /\ DoneIsCommitted'
    BY <1>0, <2>1, <2>2, <2>5 DEF MonthsAreCopied, DoneIsCommitted
  <2>7. SyncedInOrder'
    BY <1>0, <2>1, <2>2 DEF SyncedInOrder
  <2> QED BY <2>4, <2>6, <2>7 DEF SyncInv
<1>4. CASE OtherPushes
  BY <1>0, <1>4 DEF OtherPushes, SyncInv, SyncFiles, DoneIsCommitted,
     MonthsAreCopied, SyncedInOrder
<1>5. CASE BeginSync
  <2>1. PICK push \in BOOLEAN :
          sync' = [at |-> "copy", done |-> done, months |-> {}, push |-> push]
    BY <1>5 DEF BeginSync, Syncs
  <2>2. UNCHANGED <<kept, copied, committed, upstream, behind, done>>
    BY <1>5 DEF BeginSync, Syncs
  <2>3. SyncFiles'
    BY <1>0, <2>1, <2>2 DEF SyncFiles, SyncRecord
  <2>4. MonthsAreCopied' /\ SyncedInOrder' /\ DoneIsCommitted'
    BY <1>0, <2>1, <2>2 DEF MonthsAreCopied, SyncedInOrder, DoneIsCommitted
  <2> QED BY <2>3, <2>4 DEF SyncInv
<1>6. ASSUME NEW step \in {"commit", "pull", "push", "save"},
             sync' = [sync EXCEPT !.at = step], sync.at # "idle",
             UNCHANGED <<kept, copied, committed, done>>,
             upstream' \in [Recorded -> Copy], behind' \in BOOLEAN,
             \A s \in Recorded : sync.done[s] = kept[s].count,
             step # "commit" => sync.months = {},
             step = "save" /\ sync.push => upstream' = committed
      PROVE  SyncInv'
  <2>1. /\ sync' \in SyncRecord /\ sync'.at = step
        /\ sync'.done = sync.done /\ sync'.months = sync.months
        /\ sync'.push = sync.push
    BY <1>0, <1>6 DEF SyncRecord
  <2>2. SyncFiles'
    BY <1>0, <1>6, <2>1 DEF SyncFiles
  <2>3. MonthsAreCopied' /\ DoneIsCommitted' /\ SyncedInOrder'
    BY <1>0, <1>6, <2>1 DEF MonthsAreCopied, DoneIsCommitted, SyncedInOrder
  <2> QED BY <2>2, <2>3 DEF SyncInv
<1>7. /\ upstream \in [Recorded -> Copy] /\ committed \in [Recorded -> Copy]
      /\ behind \in BOOLEAN
  BY <1>0 DEF SyncFiles
<1>8. CASE CopiedAll
  BY <1>0, <1>6, <1>7, <1>8 DEF CopiedAll, Syncs, Differs
<1>9. CASE CommittedAll
  <2>1. /\ sync.at = "commit" /\ sync.months = {}
        /\ sync' = [sync EXCEPT !.at = IF sync.push THEN "pull" ELSE "save"]
        /\ UNCHANGED <<kept, copied, committed, upstream, behind, done>>
    BY <1>9 DEF CommittedAll, Syncs
  <2>2. \A s \in Recorded : sync.done[s] = kept[s].count
    BY <1>0, <2>1 DEF SyncedInOrder
  <2>3. CASE sync.push
    BY <1>6, <1>7, <2>1, <2>2, <2>3
  <2>4. CASE ~sync.push
    BY <1>6, <1>7, <2>1, <2>2, <2>4
  <2> QED BY <2>3, <2>4
<1>10. CASE PullRebase
  <2>1. /\ sync.at = "pull" /\ sync' = [sync EXCEPT !.at = "push"]
        /\ UNCHANGED <<kept, copied, committed, upstream, done>>
        /\ behind' \in BOOLEAN
    BY <1>10 DEF PullRebase, Syncs
  <2>2. /\ \A s \in Recorded : sync.done[s] = kept[s].count
        /\ sync.months = {}
    BY <1>0, <2>1 DEF SyncedInOrder
  <2> QED BY <1>6, <1>7, <2>1, <2>2
<1>11. CASE PushMonths
  <2>1. /\ sync.at = "push" /\ sync' = [sync EXCEPT !.at = "save"]
        /\ UNCHANGED <<kept, copied, committed, behind, done>>
        /\ upstream' = committed
    BY <1>11 DEF PushMonths, Syncs
  <2>2. /\ \A s \in Recorded : sync.done[s] = kept[s].count
        /\ sync.months = {}
    BY <1>0, <2>1 DEF SyncedInOrder
  <2> QED BY <1>6, <1>7, <2>1, <2>2
<1>12. ASSUME sync' = NoSync, UNCHANGED <<kept, committed, upstream, behind>>,
              copied' \in [Recorded -> Copy],
              done' = done \/ (sync.at = "save" /\ done' = sync.done)
       PROVE  SyncInv'
  <2>1. SyncFiles'
    BY <1>0, <1>12, SyncNothing DEF SyncFiles, SyncRecord
  <2>2. DoneIsCommitted'
    <3>1. CASE done' = done
      BY <1>0, <1>12, <3>1 DEF DoneIsCommitted
    <3>2. CASE sync.at = "save" /\ done' = sync.done
      BY <1>0, <1>12, <3>2 DEF DoneIsCommitted, MonthsAreCopied, SyncedInOrder
    <3> QED BY <1>12, <3>1, <3>2
  <2> QED BY <1>12, <2>1, <2>2, SyncNothing
       DEF SyncInv, MonthsAreCopied, SyncedInOrder
<1>13. copied \in [Recorded -> Copy]
  BY <1>0 DEF SyncFiles
<1>14. CASE SyncFails \/ SaveSync
  BY <1>12, <1>13, <1>14 DEF SyncFails, SaveSync, Syncs
<1>15. CASE SyncDies
  <2>1. copied' \in [Recorded -> Copy]
    BY <1>13, <1>15, SyncNothing DEF SyncDies
  <2> QED BY <1>12, <1>15, <2>1 DEF SyncDies, Syncs
<1>16. CASE UNCHANGED syncVars
  BY <1>0, <1>16 DEF syncVars, SyncInv, SyncFiles, DoneIsCommitted,
     MonthsAreCopied, SyncedInOrder
<1> QED
  BY <1>1, <1>2, <1>3, <1>4, <1>5, <1>8, <1>9, <1>10, <1>11, <1>14, <1>15,
     <1>16
  DEF SyncNext

\* The archive, its copies, the state file and the running sync keep their types.
THEOREM SyncTyped == SyncSpec => []SyncTypes
<1>1. SyncInv => SyncTypes
  BY DEF SyncInv, SyncFiles, SyncTypes, SyncRecord, Copy
<1> QED BY <1>1, SyncBegins, SyncStep, PTL DEF SyncSpec

\* For any number of sessions and records, whatever fails and wherever a sync is
\* killed: a session that the next sync passes over is committed as the archive
\* has it, and a sync that pushes and does not say FAILED has them all on the
\* remote.
THEOREM SyncIsKept == SyncSpec => SyncKept
<1> DEFINE Synced == SkippedIsCommitted' /\ UpToDateIsPushed
<1>1. SyncInv => SkippedIsCommitted
  BY DEF SyncInv, DoneIsCommitted, SkippedIsCommitted
<1>2. SyncInv => UpToDateIsPushed
  <2> SUFFICES ASSUME SyncInv, SaveSync, sync.push, NEW s \in Recorded,
                      kept[s].count > 0
               PROVE  upstream[s] = kept[s]
    BY DEF UpToDateIsPushed
  <2>1. sync.at = "save"
    BY DEF SaveSync, Syncs
  <2> QED BY <2>1 DEF SyncInv, MonthsAreCopied, SyncedInOrder
<1>3. SyncInv /\ [SyncNext]_syncVars => SyncInv' /\ [Synced]_syncVars
  <2> SUFFICES ASSUME SyncInv, [SyncNext]_syncVars PROVE SyncInv' /\ Synced
    OBVIOUS
  <2>1. SyncInv'
    BY SyncStep
  <2>2. SkippedIsCommitted'
    BY <2>1 DEF SyncInv, DoneIsCommitted, SkippedIsCommitted
  <2> QED BY <1>2, <2>1, <2>2
<1> HIDE DEF Synced
<1>4. SyncSpec => [][Synced]_syncVars
  BY <1>3, SyncBegins, PTL DEF SyncSpec
<1> QED BY <1>4 DEF SyncKept, Synced
=============================================================================
