----------------------------- MODULE MCMailbox -----------------------------
(* Two or three sessions, one project and one text for TLC.                 *)
EXTENDS Mailbox, TLC

CONSTANTS s1, s2, s3, alpha, hello, p1, p2, r1, r2

MCSymmetry == Permutations(Session)
=============================================================================
