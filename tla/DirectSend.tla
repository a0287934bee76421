----------------------------- MODULE DirectSend -----------------------------
(***************************************************************************)
(* A message sent through Messages by a script (messages_send.py, _send):  *)
(* an attempt is recorded before its one send call and its outcome after,  *)
(* and a recorded attempt that may have reached anyone refuses the next.   *)
(* Runs overlap, are killed anywhere, and share the record and the file it *)
(* is written to first.                                                    *)
(*                                                                         *)
(* A text with its recipient is one key.  The route and the send guard may *)
(* refuse a run; the guard is in Sends and Approvals.                      *)
(***************************************************************************)
EXTENDS Naturals, Functions

CONSTANTS
  Run,       \* runs of the script
  Key,       \* texts, each with its recipient
  NoRecord,  \* no file
  MaxWent    \* bound on the send calls that reach anyone

ASSUME DirectAssumption ==
  /\ MaxWent \in Nat
  /\ NoRecord \notin Key \cup {"uncertain", "not-sent", "dispatched"}

VARIABLES
  attempt,  \* attempt[k]: imessage-sends/k.json
  draft,    \* draft[k]: k.tmp
  aged,     \* keys whose record is older than KEEP_SECONDS
  run,      \* run[r]: the run r
  went,     \* went[k]: how many of its send calls reached the recipient
  crossed,  \* keys of which a run began while another was under way
  forgot    \* keys whose record was removed for its age

directVars == <<attempt, draft, aged, run, went, crossed, forgot>>

Status == {"uncertain", "not-sent", "dispatched"}
NoRun == [at |-> "idle", key |-> NoRecord, status |-> "uncertain",
          called |-> FALSE]
Under(k) == {r \in Run : run[r].at # "idle" /\ run[r].key = k}

DirectInit ==
  /\ attempt = [k \in Key |-> NoRecord] /\ draft = [k \in Key |-> NoRecord]
  /\ run = [r \in Run |-> NoRun]
  /\ went = [k \in Key |-> 0]
  /\ aged = {} /\ crossed = {} /\ forgot = {}

\* Weeks pass between two runs.
RecordAges(k) ==
  /\ \A r \in Run : run[r].at = "idle"
  /\ attempt[k] # NoRecord /\ k \notin aged
  /\ aged' = aged \cup {k}
  /\ UNCHANGED <<attempt, draft, run, went, crossed, forgot>>
-----------------------------------------------------------------------------
(* _send                                                                   *)

\* Mutant: only what is known to have been sent is not sent again.
UnlessDispatched(k) == attempt[k] # "dispatched"

MayTry(k) == attempt[k] \in {NoRecord, "not-sent"}

BeginSend(r, k) ==
  /\ run[r].at = "idle" /\ FoldFunction(+, 0, went) < MaxWent
  /\ MayTry(k)
  /\ run' = [run EXCEPT ![r] = [NoRun EXCEPT !.at = "ask", !.key = k]]
  /\ crossed' = IF Under(k) = {} THEN crossed ELSE crossed \cup {k}
  /\ UNCHANGED <<attempt, draft, aged, went, forgot>>

Continues(r, step, next) == run[r].at = step /\ run' = [run EXCEPT ![r] = next]

\* No route, or the guard says no; or else the run goes on.
SendRefused(r) ==
  /\ Continues(r, "ask", NoRun)
  /\ UNCHANGED <<attempt, draft, aged, went, crossed, forgot>>

SendAllowed(r) ==
  /\ Continues(r, "ask", [run[r] EXCEPT !.at = "write"])
  /\ UNCHANGED <<attempt, draft, aged, went, crossed, forgot>>

\* _save, once before the send call and once after it: the records of other
\* keys are removed when they are old, the new record is written beside the
\* one there is, and then put in its place.
WriteDraft(r) ==
  LET old == aged \ {run[r].key}
  IN /\ Continues(r, "write",
                  [run[r] EXCEPT !.at = "place", !.status = "uncertain"])
     /\ draft' = [draft EXCEPT ![run[r].key] = run[r].status]
     /\ attempt' = [k \in Key |-> IF k \in old THEN NoRecord ELSE attempt[k]]
     /\ aged' = aged \ old /\ forgot' = forgot \cup old
     /\ UNCHANGED <<went, crossed>>

PlaceDraft(r) ==
  LET k == run[r].key
  IN /\ Continues(r, "place",
             IF run[r].called THEN NoRun ELSE [run[r] EXCEPT !.at = "call"])
     /\ draft[k] # NoRecord
     /\ attempt' = [attempt EXCEPT ![k] = draft[k]]
     /\ draft' = [draft EXCEPT ![k] = NoRecord]
     /\ aged' = aged \ {k}
     /\ UNCHANGED <<went, crossed, forgot>>

\* Another run of the key put the draft in place: the script ends.
NoDraft(r) ==
  /\ Continues(r, "place", NoRun)
  /\ draft[run[r].key] = NoRecord
  /\ UNCHANGED <<attempt, draft, aged, went, crossed, forgot>>

Arrives(r) == went' = [went EXCEPT ![run[r].key] = @ + 1]

\* The send call is known to have returned, known not to have been made, or
\* neither.
SendCall(r, status) ==
  /\ Continues(r, "call", [run[r] EXCEPT !.at = "write", !.called = TRUE,
                                    !.status = status])
  /\ \/ status # "not-sent" /\ Arrives(r)
     \/ status # "dispatched" /\ UNCHANGED went
  /\ UNCHANGED <<attempt, draft, aged, crossed, forgot>>

SendDies(r) ==
  /\ run[r].at # "idle"
  /\ run' = [run EXCEPT ![r] = NoRun]
  /\ \/ run[r].at = "call" /\ Arrives(r)
     \/ UNCHANGED went
  /\ UNCHANGED <<attempt, draft, aged, crossed, forgot>>

DirectNext ==
  \/ \E k \in Key : RecordAges(k) \/ \E r \in Run : BeginSend(r, k)
  \/ \E r \in Run :
       \/ SendRefused(r) \/ SendAllowed(r) \/ WriteDraft(r) \/ PlaceDraft(r)
       \/ NoDraft(r) \/ SendDies(r)
       \/ \E status \in Status : SendCall(r, status)

DirectSpec == DirectInit /\ [][DirectNext]_directVars
-----------------------------------------------------------------------------
DirectTypes ==
  /\ attempt \in [Key -> Status \cup {NoRecord}]
  /\ draft \in [Key -> Status \cup {NoRecord}]
  /\ aged \subseteq Key /\ crossed \subseteq Key /\ forgot \subseteq Key
  /\ run \in [Run ->
       [at : {"idle", "ask", "write", "place", "call"},
        key : Key \cup {NoRecord}, status : Status, called : BOOLEAN]]
  /\ went \in [Key -> Nat]

\* A message reaches its recipient at most once, whatever runs were killed
\* where and however uncertain their calls ended, and a record says that it
\* was not sent only if it was not, unless two runs of it overlapped or its
\* record was removed for its age (messages_send.py:2, "at most once", and :22,
\* "uncertain (... it may have sent, so it is never retried)").
ReachedOnce ==
  \A k \in Key \ (crossed \cup forgot) :
    /\ went[k] <= 1
    /\ MayTry(k) => went[k] = 0
=============================================================================
