-------------------------- MODULE ApprovalPromise --------------------------
(***************************************************************************)
(* What approvals promise, without files and hooks.  A session that makes  *)
(* a guarded call may draw a code for what the call does; a code is drawn  *)
(* once.  The principal types codes that were drawn.  A prompt that names  *)
(* a code buys one call of its subject, and a call goes through only if    *)
(* one was bought and its own session shows the code typed, after it was   *)
(* drawn and not longer than the TTL ago.                                  *)
(*                                                                         *)
(* Approvals.tla is the code, one action per file read or written; it is   *)
(* shown to implement this specification.                                  *)
(***************************************************************************)
EXTENDS Naturals

CONSTANTS Session, Subject, Code, None, TTL

VARIABLES now,
          calling,   \* calling[s]: the subject of the call s makes, or None
          drawnFor,  \* drawnFor[c]: what the code c was drawn for, or None
          drawnAt,   \* drawnAt[c]: when
          typedAt,   \* typedAt[s][c]: when the principal last typed c in s
          credit     \* credit[x]: the calls of x bought and not yet made

codes == <<drawnFor, drawnAt, typedAt>>
promise == <<now, calling, codes, credit>>

Init == /\ now = 1
        /\ calling = [s \in Session |-> None]
        /\ drawnFor = [c \in Code |-> None]
        /\ drawnAt = [c \in Code |-> 0]
        /\ typedAt = [s \in Session |-> [c \in Code |-> 0]]
        /\ credit = [x \in Subject |-> 0]

Tick == now' = now + 1 /\ UNCHANGED <<calling, codes, credit>>

Begin(s, x) == /\ calling[s] = None
               /\ calling' = [calling EXCEPT ![s] = x]
               /\ UNCHANGED <<now, codes, credit>>

\* The call is refused, or its guard dies.
End(s) == /\ calling' = [calling EXCEPT ![s] = None]
          /\ UNCHANGED <<now, codes, credit>>

Draw(s, c) == /\ calling[s] # None
              /\ drawnFor[c] = None
              /\ drawnFor' = [drawnFor EXCEPT ![c] = calling[s]]
              /\ drawnAt' = [drawnAt EXCEPT ![c] = now]
              /\ UNCHANGED <<now, calling, typedAt, credit>>

Type(s, c) == /\ drawnFor[c] # None
              /\ typedAt' = [typedAt EXCEPT ![s] = [@ EXCEPT ![c] = now]]
              /\ UNCHANGED <<now, calling, drawnFor, drawnAt, credit>>

Buy(c, x) == /\ drawnFor[c] = x
             /\ credit' = [credit EXCEPT ![x] = @ + 1]
             /\ UNCHANGED <<now, calling, codes>>

Backed(s, c) == typedAt[s][c] > drawnAt[c] /\ now <= typedAt[s][c] + TTL

Pass(s, x) == /\ calling[s] = x
              /\ credit[x] > 0
              /\ \E c \in Code : drawnFor[c] = x /\ Backed(s, c)
              /\ credit' = [credit EXCEPT ![x] = @ - 1]
              /\ calling' = [calling EXCEPT ![s] = None]
              /\ UNCHANGED <<now, codes>>

Next ==
  \/ Tick
  \/ \E s \in Session : End(s)
  \/ \E s \in Session, x \in Subject : Begin(s, x) \/ Pass(s, x)
  \/ \E s \in Session, c \in Code : Draw(s, c) \/ Type(s, c)
  \/ \E c \in Code, x \in Subject : Buy(c, x)

Spec == Init /\ [][Next]_promise
=============================================================================
