------------------------------ MODULE MCSends ------------------------------
(* Two or three sessions and one or two scopes for TLC.                     *)
EXTENDS Sends, TLC

CONSTANTS s1, s2, s3, slack, jira

MCSymmetry == Permutations(Session) \cup Permutations(Scope)
=============================================================================
