---------------------------- MODULE SendPromise ----------------------------
(***************************************************************************)
(* What the send window promises, without files and hooks.  The principal  *)
(* grants windows, each for some scopes, a number of sends and some hours. *)
(* A call goes out once, after it was booked under every scope it goes to, *)
(* and for one of two reasons: an approval, of which nothing is said here, *)
(* or a window.  If a window, each scope of the call is one of a granted   *)
(* window that was open an hour ago or later, and the window it counts     *)
(* against has let out fewer calls than it was granted for.  Slack is what *)
(* calls that overlap may add to that number.                              *)
(*                                                                         *)
(* Sends.tla is the code, one action per file read or written; it is shown *)
(* to implement this specification.                                        *)
(***************************************************************************)
EXTENDS Integers, FiniteSets

CONSTANTS Slack

VARIABLES now,
          granted,  \* the windows the principal granted
          book,     \* a line for each scope of each call, with its reason
          out       \* the calls that went out

promise == <<now, granted, book, out>>

Init == now = 0 /\ granted = {} /\ book = {} /\ out = {}

Tick == now' = now + 1 /\ UNCHANGED <<granted, book, out>>

Grant(w) == /\ \A v \in granted : v.id # w.id
            /\ now < w.until
            /\ granted' = granted \cup {w}
            /\ UNCHANGED <<now, book, out>>

Write(l) == /\ book' = book \cup {l}
            /\ UNCHANGED <<now, granted, out>>

\* A hook that read the window in time may be an hour behind.
WasOpen(w) == now <= w.until

LetOut(w) == {c \in out : c.by = "window" /\ c.win = w.id}

UnderWindows(c) ==
  /\ \E w \in granted : /\ w.id = c.win /\ WasOpen(w)
                        /\ Cardinality(LetOut(w)) < w.sends + Slack
  /\ \A scope \in c.reach : \E w \in granted : scope \in w.scopes /\ WasOpen(w)

\* The last line of the call may be written as it goes out.
Pass(c) ==
  /\ \A d \in out : d.id # c.id
  /\ c.by = "approval" \/ (c.by = "window" /\ UnderWindows(c))
  /\ book \subseteq book' /\ \A l \in book' \ book : l.call = c.id
  /\ \A scope \in c.reach :
       \E l \in book' : l.call = c.id /\ l.scope = scope /\ l.by = c.by
  /\ out' = out \cup {c}
  /\ UNCHANGED <<now, granted>>

Next ==
  \/ Tick
  \/ \E w \in granted' : Grant(w)
  \/ \E l \in book' : Write(l)
  \/ \E c \in out' : Pass(c)

Spec == Init /\ [][Next]_promise
=============================================================================
