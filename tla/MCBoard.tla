------------------------------ MODULE MCBoard ------------------------------
(* Small boards for TLC: a folder, a file in it, and a file elsewhere.       *)
EXTENDS Board, TLC

CONSTANTS folder, inner, elsewhere

MCClaim == {folder, inner, elsewhere}

MCOverlap ==
  {<<c, c>> : c \in MCClaim} \cup {<<folder, inner>>, <<inner, folder>>}

MCRequests == {{folder}, {inner}, {inner, elsewhere}}

MCTwoRequests == {{folder}, {inner, elsewhere}}

MCSymmetry == Permutations(Session)
=============================================================================
