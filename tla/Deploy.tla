------------------------------- MODULE Deploy -------------------------------
(***************************************************************************)
(* The brake on deploys (guards.py, check_deploy): a command that publishes*)
(* needs an approval of this exact command, and a stronger one when a site *)
(* of it was deployed less than REDEPLOY_WINDOW ago.  The time of the last *)
(* deploy is one small file per site, which the hook of every session reads*)
(* before it judges and replaces, without a lock, once the approval is     *)
(* spent.  Other guards come after it and may still refuse the command.    *)
(*                                                                         *)
(* Reading a shell command is abstracted to the sites it pushes, in order. *)
(* How an approval is asked for, granted and spent is in Approvals: here   *)
(* it is there or not.  A time is kept as how long ago it is, and anything *)
(* from Window on is the same: so is a file that is missing or empty, "no  *)
(* record of a recent deploy".                                             *)
(***************************************************************************)
EXTENDS Naturals, Sequences, FiniteSets

CONSTANTS
  Caller,    \* sessions
  Site,      \* checkouts that publish
  Command,   \* the commands: the sites each pushes, in order
  Window     \* REDEPLOY_WINDOW, in ticks

ASSUME DeployAssumption ==
  Command \subseteq Seq(Site) /\ <<>> \notin Command /\ Window \in Nat

VARIABLES
  record,    \* record[s]: how long ago the deploy in the file of s was
  deploy,    \* deploy[u]: the guarded call of u
  latest,    \* latest[s]: how long ago the last deploy let through was approved
  clashed    \* sites on whose file two writes met, or one was cut short

deployVars == <<record, deploy, latest, clashed>>

Age == 0..Window
Sites(c) == {c[i] : i \in DOMAIN c}

NoDeploy == [at |-> "idle", command |-> <<>>, todo |-> <<>>, kind |-> "deploy",
             spent |-> Window, stamp |-> Window, near |-> {}]

DeployInit ==
  /\ record = [s \in Site |-> Window]
  /\ deploy = [u \in Caller |-> NoDeploy]
  /\ latest = [s \in Site |-> Window]
  /\ clashed = {}

Older(age) == IF age < Window THEN age + 1 ELSE Window

PassTime ==
  /\ record' = [s \in Site |-> Older(record[s])]
  /\ latest' = [s \in Site |-> Older(latest[s])]
  /\ deploy' = [u \in Caller |-> [deploy[u] EXCEPT !.spent = Older(@),
                                                   !.stamp = Older(@)]]
  /\ UNCHANGED clashed
-----------------------------------------------------------------------------
Calls(u, step, r) == deploy[u].at = step /\ deploy' = [deploy EXCEPT ![u] = r]

Judges(u, step, r) == Calls(u, step, r) /\ UNCHANGED <<record, latest, clashed>>

\* A command that pushes one site twice is refused at once.
BeginDeploy(u, c) ==
  /\ Len(c) = Cardinality(Sites(c))
  /\ Judges(u, "idle",
            [NoDeploy EXCEPT !.at = "read", !.command = c, !.todo = c])

Writing(u, s) == deploy[u].at = "fill" /\ Head(deploy[u].todo) = s
BeingWritten(s) == \E u \in Caller : Writing(u, s)

Recent(s) == record[s] < Window

\* The last deploy of one site; a recent one makes this a rapid redeploy.
ReadRecord(u) ==
  LET s == Head(deploy[u].todo)
      near == latest[s] < Window /\ ~BeingWritten(s)
  IN /\ deploy[u].todo # <<>>
     /\ Judges(u, "read", [deploy[u] EXCEPT !.todo = Tail(@),
          !.kind = IF Recent(s) THEN "deploy-rapid" ELSE @,
          !.near = IF near THEN @ \cup {s} ELSE @])

Judged(u) == deploy[u].at = "read" /\ deploy[u].todo = <<>>

\* The approval the command needs, or the stronger one for a rapid redeploy.
SpendApproval(u) ==
  /\ Judged(u)
  /\ \E kind \in {deploy[u].kind, "deploy-rapid"} :
       Judges(u, "read", [deploy[u] EXCEPT !.at = "stamp", !.kind = kind,
                            !.spent = 0, !.todo = deploy[u].command])

\* No approval: it is asked for.
AskApproval(u) == Judged(u) /\ Judges(u, "read", NoDeploy)

\* The file is opened with the time taken, which empties it, and then written.
OpenRecord(u) ==
  LET s == Head(deploy[u].todo)
  IN /\ Calls(u, "stamp", [deploy[u] EXCEPT !.at = "fill", !.stamp = 0])
     /\ record' = [record EXCEPT ![s] = Window]
     /\ clashed' = IF BeingWritten(s) THEN clashed \cup {s} ELSE clashed
     /\ UNCHANGED latest

\* Mutant: only the first site of the command is recorded.
FillFirst(u) ==
  LET s == Head(deploy[u].todo)
  IN /\ Calls(u, "fill", [deploy[u] EXCEPT !.todo = <<>>, !.at = "after",
                                          !.stamp = Window])
     /\ record' = [record EXCEPT ![s] = deploy[u].stamp]
     /\ UNCHANGED <<latest, clashed>>

FillRecord(u) ==
  LET s == Head(deploy[u].todo)
  IN /\ Calls(u, "fill", [deploy[u] EXCEPT !.todo = Tail(@), !.stamp = Window,
                !.at = IF Len(deploy[u].todo) = 1 THEN "after" ELSE "stamp"])
     /\ record' = [record EXCEPT ![s] = deploy[u].stamp]
     /\ UNCHANGED <<latest, clashed>>

\* The other guards let it go: the command runs.
LetDeploy(u) ==
  /\ Calls(u, "after", NoDeploy)
  /\ latest' = [s \in Site |-> IF s \in Sites(deploy[u].command)
                               THEN deploy[u].spent ELSE latest[s]]
  /\ UNCHANGED <<record, clashed>>

\* check_dates, check_outgoing or check_claimed refuses it.
RefuseDeploy(u) ==
  \E step \in {"read", "after"} : Judges(u, step, NoDeploy)

DeployDies(u) ==
  /\ deploy[u].at # "idle"
  /\ Calls(u, deploy[u].at, NoDeploy)
  /\ clashed' = clashed \cup {s \in Site : Writing(u, s)}
  /\ UNCHANGED <<record, latest>>

DeployNext ==
  \/ PassTime
  \/ \E u \in Caller :
       \/ \E c \in Command : BeginDeploy(u, c)
       \/ ReadRecord(u) \/ SpendApproval(u) \/ AskApproval(u)
       \/ OpenRecord(u) \/ FillRecord(u) \/ LetDeploy(u)
       \/ RefuseDeploy(u) \/ DeployDies(u)

DeploySpec == DeployInit /\ [][DeployNext]_deployVars
-----------------------------------------------------------------------------
DeployTypes ==
  /\ record \in [Site -> Age] /\ latest \in [Site -> Age]
  /\ clashed \subseteq Site
  /\ \A u \in Caller :
       /\ deploy[u].at \in {"idle", "read", "stamp", "fill", "after"}
       /\ deploy[u].command \in Command \cup {<<>>}
       /\ Sites(deploy[u].todo) \subseteq Sites(deploy[u].command)
       /\ deploy[u].at \in {"stamp", "fill"} => deploy[u].todo # <<>>
       /\ deploy[u].kind \in {"deploy", "deploy-rapid"}
       /\ deploy[u].stamp \in Age /\ deploy[u].spent \in Age
       /\ deploy[u].near \subseteq Site

\* A command goes out as an ordinary deploy only if none of its sites had been
\* deployed within the window when it was judged; the exceptions are a site
\* whose file another call was just writing, and one whose file two calls had
\* written at once or a killed call had left empty (guards.py:1043-1049).
RapidIsApproved ==
  [][\A u \in Caller : LetDeploy(u) /\ deploy[u].kind = "deploy" =>
       deploy[u].near \subseteq clashed]_deployVars
=============================================================================
