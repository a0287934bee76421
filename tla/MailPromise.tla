---------------------------- MODULE MailPromise ----------------------------
(***************************************************************************)
(* What the board promises of messages, without boxes, markers and hooks.  *)
(* A session decides which other session a text goes to; once decided, the *)
(* text goes to nobody else until Window hours have passed.  A message is  *)
(* posted for a session that was decided on, or for whoever works on a     *)
(* project.  A session takes into its hands messages that are for it and   *)
(* were never shown to it; what it has in its hands is shown, or lost with *)
(* the process that holds it.  So a message is shown to each session once  *)
(* or never.                                                               *)
(*                                                                         *)
(* Mailbox.tla is the code, one action per file read or written; it is     *)
(* shown to implement this where commands of one session do not overlap.   *)
(***************************************************************************)
EXTENDS Naturals

CONSTANTS Session, Project, Text, Id, None, Window

VARIABLES now,
          project,  \* project[s]: the project s works on, or None
          mark,     \* mark[s][t]: whom s last decided on for t and when, or None
          posted,   \* the messages that wait
          hands,    \* hands[s]: those that s has taken and not yet shown
          shown     \* shown[s][i]: how often message i was shown to s

promise == <<now, project, mark, posted, hands, shown>>

Init == /\ now = 0
        /\ project \in [Session -> Project \cup {None}]
        /\ mark = [s \in Session |-> [t \in Text |-> None]]
        /\ posted = {}
        /\ hands = [s \in Session |-> {}]
        /\ shown = [s \in Session |-> [i \in Id |-> 0]]

Tick == now' = now + 1 /\ UNCHANGED <<project, mark, posted, hands, shown>>

Move(s) == /\ \E p \in Project : project' = [project EXCEPT ![s] = p]
           /\ UNCHANGED <<now, mark, posted, hands, shown>>

\* Nobody else was decided on in the last Window hours.
Open(s, t, o) == \/ mark[s][t] = None
                 \/ mark[s][t].to = o
                 \/ mark[s][t].at + Window <= now

Decide(s, t, o) ==
  /\ Open(s, t, o)
  /\ mark' = [mark EXCEPT ![s] = [@ EXCEPT ![t] = [to |-> o, at |-> now]]]
  /\ UNCHANGED <<now, project, posted, hands, shown>>

Decided(s, t, o) == mark[s][t] # None /\ mark[s][t].to = o

Post(s, t, to, i) ==
  /\ to \in Session => Decided(s, t, to)
  /\ \A m \in posted : m.id # i
  /\ posted' = posted \cup {[id |-> i, to |-> to, text |-> t]}
  /\ UNCHANGED <<now, project, mark, hands, shown>>

IsFor(m, s) == m.to = s \/ (project[s] # None /\ m.to = project[s])

Take(s, M) == /\ hands[s] = {}
              /\ \A m \in M : IsFor(m, s) /\ shown[s][m.id] = 0
              /\ hands' = [hands EXCEPT ![s] = M]
              /\ UNCHANGED <<now, project, mark, posted, shown>>

Show(s) == /\ shown' = [shown EXCEPT ![s] =
                          [i \in Id |-> IF \E m \in hands[s] : m.id = i
                                        THEN @[i] + 1 ELSE @[i]]]
           /\ hands' = [hands EXCEPT ![s] = {}]
           /\ UNCHANGED <<now, project, mark, posted>>

Lose(s) == /\ hands' = [hands EXCEPT ![s] = {}]
           /\ UNCHANGED <<now, project, mark, posted, shown>>

Next ==
  \/ Tick
  \/ \E s \in Session : Move(s) \/ Show(s) \/ Lose(s)
  \/ \E s, o \in Session, t \in Text : Decide(s, t, o)
  \/ \E s \in Session, t \in Text, to \in Session \cup Project, i \in Id :
       Post(s, t, to, i)
  \/ \E s \in Session, M \in SUBSET posted : Take(s, M)

Spec == Init /\ [][Next]_promise
=============================================================================
