---------------------------- MODULE ClaimPromise ----------------------------
(***************************************************************************)
(* What the coordination board promises about claims, without saying how.  *)
(* Each session holds a set of claims.  A claim is granted only while no   *)
(* other session holds one that overlaps it.  A claim leaves its holder in *)
(* two ways only: the holder gives it up, or it is taken over and from     *)
(* then on stands among the holder's ceded claims.                         *)
(*                                                                         *)
(* Board.tla is the code, one action per file read or written; it is shown *)
(* to implement this specification.                                        *)
(***************************************************************************)
CONSTANTS Session, \* the ids of the sessions on this computer
          Claim,   \* the claims they can hold, as board.as_claim returns them
          Overlap  \* the pairs of claims some path falls under both of

VARIABLES held,    \* held[s]: the claims of session s
          ceded    \* ceded[s]: the claims taken over from session s

promise == <<held, ceded>>

Free(s, C) ==
  \A o \in Session \ {s} : \A c \in C, h \in held[o] : <<c, h>> \notin Overlap

Init == /\ held = [s \in Session |-> {}]
        /\ ceded = [s \in Session |-> {}]

Acquire(s, C) == /\ Free(s, C)
                 /\ held' = [held EXCEPT ![s] = @ \cup C]
                 /\ UNCHANGED ceded

GiveUp(s, C) == /\ held' = [held EXCEPT ![s] = @ \ C]
                /\ UNCHANGED ceded

TakeOver(s, C) == /\ C \subseteq held[s]
                  /\ held' = [held EXCEPT ![s] = @ \ C]
                  /\ ceded' = [ceded EXCEPT ![s] = @ \cup C]

Next == \E s \in Session, C \in SUBSET Claim :
          Acquire(s, C) \/ GiveUp(s, C) \/ TakeOver(s, C)

Spec == Init /\ [][Next]_promise
=============================================================================
