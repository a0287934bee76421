------------------------------ MODULE MCOutside ------------------------------
(* What the guards and the scripts of the skills keep of the world outside,  *)
(* and of the projects index: sends under a window, one call at a time,      *)
(* messages sent by a script, the browser that was selected, calendar holds, *)
(* what was read up to when, and the index, which others edit and commit too.*)
(* The components share no variable, so one run explores them side by side:  *)
(* each behaviour is one of one component, and the others stay in their      *)
(* initial state.                                                            *)
EXTENDS Sends, DirectSend, Browser, Holds, Watermark, ProjectIndex

CONSTANTS s1, s2, s3, slack

\* Two sessions of one workspace, and one of another.
MCDevice == [s \in User |-> IF s = s3 THEN "other" ELSE "own"]

VARIABLE part   \* the component that runs

OutsideInit ==
  /\ part \in {"sends", "direct", "browser", "holds", "marks", "index"}
  /\ Init /\ DirectInit /\ BrowserInit /\ HoldsInit /\ MarkInit
  /\ IndexInit

SendsSteps ==
  /\ part = "sends" /\ Next
  /\ UNCHANGED <<part, directVars, browserVars, holdsVars, markVars, indexVars>>

DirectSteps ==
  /\ part = "direct" /\ DirectNext
  /\ UNCHANGED <<part, vars, browserVars, holdsVars, markVars, indexVars>>

BrowserSteps ==
  /\ part = "browser" /\ BrowserNext
  /\ UNCHANGED <<part, vars, directVars, holdsVars, markVars, indexVars>>

HoldsSteps ==
  /\ part = "holds" /\ HoldsNext
  /\ UNCHANGED <<part, vars, directVars, browserVars, markVars, indexVars>>

MarkSteps ==
  /\ part = "marks" /\ MarkNext
  /\ UNCHANGED <<part, vars, directVars, browserVars, holdsVars, indexVars>>

IndexSteps ==
  /\ part = "index" /\ IndexNext
  /\ UNCHANGED <<part, vars, directVars, browserVars, holdsVars, markVars>>

OutsideNext ==
  \/ SendsSteps \/ DirectSteps \/ BrowserSteps \/ HoldsSteps \/ MarkSteps
  \/ IndexSteps

OutsideVars ==
  <<part, vars, directVars, browserVars, holdsVars, markVars, indexVars>>

OutsideSpec == OutsideInit /\ [][OutsideNext]_OutsideVars
==============================================================================
