------------------------------- MODULE MCMachine ------------------------------
(* What hooks and commands keep in files of the machine, beside the board.   *)
(* The components share no variable, so one run explores them side by side:  *)
(* each behaviour is one of one component, and the others stay in their      *)
(* initial state.                                                            *)
EXTENDS Deploy, Archive, SessionSync, Install, BoardMove, Publish, TLC

CONSTANTS s1, s2

\* A command that publishes one site, one that publishes two, and one that
\* publishes one twice.
MCCommand == {<<s1>>, <<s1, s2>>, <<s1, s1>>}

\* Two commits of two versions: what a release checked and what HEAD became.
MCManifest == <<1, 2>>
MCRemotes == <<"mirror", "origin">>

\* Nothing tells one releasing session from another.
Releasers == Permutations(Releaser)

VARIABLE part   \* the component that runs

Init ==
  /\ part \in {"deploy", "archive", "sync", "install", "move", "publish"}
  /\ DeployInit /\ ArchiveInit /\ SyncInit
  /\ InstallInit /\ MoveInit /\ PublishInit

DeploySteps ==
  /\ part = "deploy" /\ DeployNext
  /\ UNCHANGED <<part, archiveVars, syncVars, installVars, moveVars,
                 publishVars>>

ArchiveSteps ==
  /\ part = "archive" /\ ArchiveNext
  /\ UNCHANGED <<part, deployVars, syncVars, installVars, moveVars,
                 publishVars>>

SyncSteps ==
  /\ part = "sync" /\ SyncNext
  /\ UNCHANGED <<part, deployVars, archiveVars, installVars, moveVars,
                 publishVars>>

InstallSteps ==
  /\ part = "install" /\ InstallNext
  /\ UNCHANGED <<part, deployVars, archiveVars, syncVars, moveVars,
                 publishVars>>

MoveSteps ==
  /\ part = "move" /\ MoveNext
  /\ UNCHANGED <<part, deployVars, archiveVars, syncVars, installVars,
                 publishVars>>

PublishSteps ==
  /\ part = "publish" /\ PublishNext
  /\ UNCHANGED <<part, deployVars, archiveVars, syncVars, installVars,
                 moveVars>>

Next ==
  \/ DeploySteps \/ ArchiveSteps \/ SyncSteps \/ InstallSteps \/ MoveSteps
  \/ PublishSteps

vars == <<part, deployVars, archiveVars, syncVars, installVars, moveVars,
          publishVars>>

Spec == Init /\ [][Next]_vars
===============================================================================
