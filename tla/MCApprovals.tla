---------------------------- MODULE MCApprovals ----------------------------
(* Two sessions, two subjects and two codes for TLC.  All of them at once are *)
(* too many, so a behaviour has both sessions call about one subject, or one  *)
(* session call about both: files carry no session, and a code meets a second *)
(* subject in the files alone.                                                *)
EXTENDS Approvals, TLC

VARIABLE about   \* the one subject, or the one session

\* Nothing tells one session, code or subject from another.
MCSymmetry ==
  Permutations(Session) \cup Permutations(Code) \cup Permutations(Subject)

MCInit == Init /\ about \in Session \cup Subject

Typed(s) == hook[s] = "idle" /\ hook'[s] = "read" =>
              typedAt'[s][named'[s]] = now

\* Two sessions: the principal types all that prompts hold.
OneSubject ==
  /\ about \in Subject /\ now < MaxNow
  /\ Next
  /\ now' < MaxNow
  /\ \A s \in Session : subject'[s] \in {about, None} /\ Typed(s)
  /\ UNCHANGED about

OneSession ==
  /\ about \in Session
  /\ Tick \/ CallStep(about) \/ HookStep(about) \/ Crash(about)
  /\ UNCHANGED about

MCSpec == MCInit /\ [][OneSubject \/ OneSession]_<<vars, about>>
=============================================================================
