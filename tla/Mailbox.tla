------------------------------ MODULE Mailbox ------------------------------
(***************************************************************************)
(* Messages between sessions (synthesis/board.py: message, inbox and the   *)
(* read markers) and the two programs that show them: the hook that runs   *)
(* at every prompt (hook.py) and `synthesis inbox` (cli.py).               *)
(*                                                                         *)
(* A message is one file in a box: of a session, or of a project for every *)
(* session that works on it, now or later.  Nothing is ever removed from a *)
(* box; a session that has read a message has a marker of its own for it.  *)
(* A project message goes to the one live session on the project, and to   *)
(* the box of the project when there is none.  Each read and each write of *)
(* a file is a step; commands and hooks of all sessions interleave.        *)
(***************************************************************************)
EXTENDS Naturals, FiniteSets

CONSTANTS
  Session,  \* sessions, live or stale
  Project,
  Text,     \* what a message says
  None,     \* no project, no session, no marker
  Sender,   \* the commands that send, each for a session of its choice
  Reader,   \* the hooks and commands that show messages
  Overlap,  \* TRUE: a session can run two of either kind at once
  Killable, \* the processes that may be killed between two steps
  Batch,    \* how many messages one prompt shows
  Window,   \* BROADCAST_SECONDS, in hours
  MaxNow,   \* bound on the clock
  MaxSends, \* bound on the commands run
  MaxMoves  \* bound on the changes of project and of liveness

ASSUME MailboxAssumption ==
  /\ None \notin Session \cup Project \cup [to : Session, at : Nat]
  /\ Session \cap Project = {}
  /\ Sender \cap Reader = {}
  /\ Overlap \in BOOLEAN
  /\ Killable \subseteq Sender \cup Reader
  /\ Batch \in Nat \ {0} /\ Window \in Nat
  /\ MaxNow \in Nat /\ MaxSends \in Nat /\ MaxMoves \in Nat

VARIABLES
  now,      \* the hour
  project,  \* project[s]: the project s works on, or None
  alive,    \* alive[s]: s was seen within STALE_SECONDS
  moves,    \* how often these two have changed
  box,      \* the message files of all boxes
  posts,    \* how many there are; names the next one
  sent,     \* sent[s][t]: the mark that s sent t: to whom and when, or None
  read,     \* read[s]: the messages s has a marker for
  sends,    \* commands begun
  pc,       \* pc[p]: the next step of sender or reader p
  job,      \* job[p]: what sender p was asked to send, and to whom
  me,       \* me[r]: the session reader r shows messages to
  batch,    \* batch[r]: the messages it is going to show
  shown,    \* shown[s]: bag of the messages shown to s
  decided   \* who was chosen for which text, and when: the marks ever written

sessionVars == <<project, alive, moves>>
senderVars == <<job, sends>>
readerVars == <<me, batch>>
vars == <<now, sessionVars, box, posts, sent, read, pc, senderVars, readerVars,
          shown, decided>>

Message == [id : 1..MaxSends, to : Session \cup Project, text : Text]
NoJob == [from |-> None, to |-> None, text |-> None]

Init ==
  /\ now = 0
  /\ project \in [Session -> Project \cup {None}]
  /\ alive = [s \in Session |-> TRUE]
  /\ moves = 0
  /\ box = {} /\ posts = 0
  /\ sent = [s \in Session |-> [t \in Text |-> None]]
  /\ read = [s \in Session |-> {}]
  /\ sends = 0
  /\ pc = [p \in Sender \cup Reader |-> "idle"]
  /\ job = [p \in Sender |-> NoJob]
  /\ me = [r \in Reader |-> None]
  /\ batch = [r \in Reader |-> {}]
  /\ shown = [s \in Session |-> [i \in 1..MaxSends |-> 0]]
  /\ decided = {}

GoTo(p, step) == pc' = [pc EXCEPT ![p] = step]
-----------------------------------------------------------------------------
(* Sessions come and go                                                    *)

\* `synthesis use` changes the project; being seen or not changes the rest.
Move(s) ==
  /\ moves < MaxMoves
  /\ moves' = moves + 1
  /\ \/ \E p \in Project : /\ project[s] # p
                           /\ project' = [project EXCEPT ![s] = p]
                           /\ alive' = [alive EXCEPT ![s] = TRUE]
     \/ alive' = [alive EXCEPT ![s] = ~@] /\ UNCHANGED project
  /\ UNCHANGED <<now, box, posts, sent, read, pc, senderVars, readerVars, shown,
                 decided>>

\* An hour passes.  No command is that slow.
Tick ==
  /\ now < MaxNow
  /\ \A p \in Sender : pc[p] = "idle"
  /\ now' = now + 1
  /\ UNCHANGED <<sessionVars, box, posts, sent, read, pc, senderVars,
                 readerVars, shown, decided>>
-----------------------------------------------------------------------------
(* message                                                                 *)

EndSend(p) == GoTo(p, "idle") /\ job' = [job EXCEPT ![p] = NoJob]

\* The address, the text and whether the message is to be durable.
Send(p, s, to, text, durable) ==
  /\ pc[p] = "idle"
  /\ sends < MaxSends
  /\ Overlap \/ \A q \in Sender : job[q].from # s
  /\ to # s
  /\ durable => to \in Project
  /\ sends' = sends + 1
  /\ job' = [job EXCEPT ![p] = [from |-> s, to |-> to, text |-> text]]
  /\ GoTo(p, IF durable THEN "post"
             ELSE IF to \in Project THEN "anyone" ELSE "resolve")
  /\ UNCHANGED <<now, sessionVars, box, posts, sent, read, readerVars, shown,
                 decided>>

\* The live sessions an address names, the sender's own left out.
Named(from, to) ==
  {s \in Session \ {from} : alive[s] /\ (s = to \/ project[s] = to)}

\* Is anyone on the project?  If not, the message waits in its box.
Anyone(p) ==
  /\ pc[p] = "anyone"
  /\ GoTo(p, IF Named(job[p].from, job[p].to) = {} THEN "post" ELSE "resolve")
  /\ UNCHANGED <<now, sessionVars, box, posts, sent, read, senderVars,
                 readerVars, shown, decided>>

\* resolve: the one live session it names ...
Resolve(p, s) ==
  /\ pc[p] = "resolve"
  /\ Named(job[p].from, job[p].to) = {s}
  /\ job' = [job EXCEPT ![p] = [@ EXCEPT !.to = s]]
  /\ GoTo(p, "judge")
  /\ UNCHANGED <<now, sessionVars, box, posts, sent, read, sends, readerVars,
                 shown, decided>>

\* ... or none, or several: AddressError, and nothing is sent.
Unresolved(p) ==
  /\ pc[p] = "resolve"
  /\ Cardinality(Named(job[p].from, job[p].to)) # 1
  /\ EndSend(p)
  /\ UNCHANGED <<now, sessionVars, box, posts, sent, read, sends, readerVars,
                 shown, decided>>

\* Mutant: a repeat to the same session is refused, another one is not.
BroadcastToSame(p) ==
  LET mark == sent[job[p].from][job[p].text]
  IN mark # None /\ mark.to = job[p].to /\ now - mark.at < Window

\* The same text went to another session not long ago.
Broadcast(p) ==
  LET mark == sent[job[p].from][job[p].text]
  IN mark # None /\ mark.to # job[p].to /\ now - mark.at < Window

RefuseBroadcast(p) ==
  /\ pc[p] = "judge"
  /\ Broadcast(p)
  /\ EndSend(p)
  /\ UNCHANGED <<now, sessionVars, box, posts, sent, read, sends, readerVars,
                 shown, decided>>

Allow(p) ==
  /\ pc[p] = "judge"
  /\ ~Broadcast(p)
  /\ GoTo(p, "mark")
  /\ UNCHANGED <<now, sessionVars, box, posts, sent, read, senderVars,
                 readerVars, shown, decided>>

\* The mark is written before the message is.
Mark(p) ==
  /\ pc[p] = "mark"
  /\ LET j == job[p]
     IN /\ sent' = [sent EXCEPT ![j.from] =
                      [@ EXCEPT ![j.text] = [to |-> j.to, at |-> now]]]
        /\ decided' = decided \cup {[from |-> j.from, to |-> j.to,
                                     text |-> j.text, at |-> now]}
  /\ GoTo(p, "post")
  /\ UNCHANGED <<now, sessionVars, box, posts, read, senderVars, readerVars,
                 shown>>

\* _post: the file appears whole.
Post(p) ==
  /\ pc[p] = "post"
  /\ posts' = posts + 1
  /\ box' = box \cup {[id |-> posts + 1, to |-> job[p].to,
                       text |-> job[p].text]}
  /\ EndSend(p)
  /\ UNCHANGED <<now, sessionVars, sent, read, sends, readerVars, shown,
                 decided>>
-----------------------------------------------------------------------------
(* inbox                                                                   *)

\* Mutant: a message to a project is in the box of everyone.
InEveryBox(s) == {m \in box : m.to = s \/ m.to \in Project}

InBox(s) == {m \in box : m.to = s \/ (project[s] # None /\ m.to = project[s])}

Unread(s) == {m \in InBox(s) : m.id \notin read[s]}

\* The Batch oldest of M.
Oldest(M) == {m \in M : Cardinality({l \in M : l.id < m.id}) < Batch}

\* A prompt shows the oldest unread messages, `synthesis inbox` all of them.
Look(r, s, all) ==
  /\ pc[r] = "idle"
  /\ Overlap \/ \A q \in Reader : me[q] # s
  /\ Unread(s) # {}
  /\ me' = [me EXCEPT ![r] = s]
  /\ batch' = [batch EXCEPT ![r] = IF all THEN Unread(s) ELSE Oldest(Unread(s))]
  /\ GoTo(r, "marking")
  /\ UNCHANGED <<now, sessionVars, box, posts, sent, read, senderVars, shown,
                 decided>>

\* Mutant: one marker for all sessions.
MarksForAll(r, s, i) ==
  /\ pc[r] = "marking" /\ me[r] = s
  /\ i \notin read[s]
  /\ read' = [o \in Session |-> read[o] \cup {i}]
  /\ UNCHANGED <<now, sessionVars, box, posts, sent, pc, senderVars, readerVars,
                 shown, decided>>

\* A marker is a file of the session's own; touching it again changes nothing.
MarkReads(r, s, i) ==
  /\ pc[r] = "marking" /\ me[r] = s
  /\ i \notin read[s]
  /\ read' = [read EXCEPT ![s] = @ \cup {i}]
  /\ UNCHANGED <<now, sessionVars, box, posts, sent, pc, senderVars, readerVars,
                 shown, decided>>

\* Mutant: every unread message is marked, also those left for later.
MarkReadUnread(r, s, m) == m \in Unread(s) /\ MarkReads(r, s, m.id)

\* mark_read_messages: a marker for each message of the batch ...
MarkRead(r, s, m) == m \in batch[r] /\ MarkReads(r, s, m.id)

\* Mutant: messages to a project are shown without a marker.
AllMarkedOwn(r) ==
  /\ pc[r] = "marking"
  /\ \A m \in batch[r] : m.to = me[r] => m.id \in read[me[r]]
  /\ GoTo(r, "show")
  /\ UNCHANGED <<now, sessionVars, box, posts, sent, read, senderVars,
                 readerVars, shown, decided>>

AllMarked(r) ==
  /\ pc[r] = "marking"
  /\ \A m \in batch[r] : m.id \in read[me[r]]
  /\ GoTo(r, "show")
  /\ UNCHANGED <<now, sessionVars, box, posts, sent, read, senderVars,
                 readerVars, shown, decided>>

EndRead(r) == /\ GoTo(r, "idle")
              /\ me' = [me EXCEPT ![r] = None]
              /\ batch' = [batch EXCEPT ![r] = {}]

\* ... and only then is the batch printed.
Show(r) ==
  /\ pc[r] = "show"
  /\ shown' = [shown EXCEPT ![me[r]] =
                 [i \in 1..MaxSends |->
                    IF \E m \in batch[r] : m.id = i THEN @[i] + 1 ELSE @[i]]]
  /\ EndRead(r)
  /\ UNCHANGED <<now, sessionVars, box, posts, sent, read, senderVars, decided>>

\* The harness kills a hook after its timeout, a person a command.
Kill(p) ==
  /\ p \in Killable
  /\ pc[p] # "idle"
  /\ IF p \in Sender THEN EndSend(p) /\ UNCHANGED readerVars
                     ELSE EndRead(p) /\ UNCHANGED job
  /\ UNCHANGED <<now, sessionVars, box, posts, sent, read, sends, shown,
                 decided>>

Begin(p) == \E s \in Session, to \in Session \cup Project, text \in Text,
               durable \in BOOLEAN : Send(p, s, to, text, durable)

SenderStep(p) ==
  \/ Anyone(p) \/ Unresolved(p) \/ RefuseBroadcast(p) \/ Allow(p)
  \/ Mark(p) \/ Post(p)
  \/ \E s \in Session : Resolve(p, s)

ReaderStep(r) ==
  \/ \E s \in Session, m \in box : MarkRead(r, s, m)
  \/ AllMarked(r) \/ Show(r)

Next ==
  \/ Tick
  \/ \E s \in Session : Move(s)
  \/ \E p \in Sender : Begin(p) \/ SenderStep(p)
  \/ \E r \in Reader :
       ReaderStep(r) \/ \E s \in Session, all \in BOOLEAN : Look(r, s, all)
  \/ \E p \in Sender \cup Reader : Kill(p)

Spec == Init /\ [][Next]_vars

Prompt(s) == \E r \in Reader : Look(r, s, FALSE)

\* Hooks that are not killed run to their end, and every session is prompted
\* again and again.
LiveSpec ==
  /\ Spec
  /\ \A r \in Reader : WF_vars(ReaderStep(r))
  /\ \A s \in Session : SF_vars(Prompt(s))
-----------------------------------------------------------------------------
\* No session is shown a message twice, however often it is prompted, moves
\* between projects or is killed (board.py:283-284, "once each").
ShownOnce == \A s \in Session, i \in 1..MaxSends : shown[s][i] <= 1

\* A message with a marker has been shown, or the process that set the marker
\* is about to show it (board.py:340).
ReadIsShown ==
  \A s \in Session : \A i \in read[s] :
    \/ shown[s][i] > 0
    \/ \E r \in Reader : /\ me[r] = s
                         /\ \E m \in batch[r] : m.id = i

\* The same text of a session goes to one session only, until Window hours
\* after it last did: neither time, nor moving sessions, nor a killed command
\* lets a broadcast through (board.py:304-310).
OneRecipient ==
  \A d, e \in decided :
    d.from = e.from /\ d.text = e.text /\ d.to # e.to =>
      d.at + Window <= e.at \/ e.at + Window <= d.at

\* Every message in the box of a session or of its project has been shown to
\* it in the end: no marker, batch, full prompt or concurrent reader hides one
\* for good (board.py:283-284, hook.py:151-157).
EveryMessageShown ==
  <>[](\A s \in Session : \A m \in InBox(s) : shown[s][m.id] > 0)

\* What a session has been handed: the batch of the process that shows it
\* messages.
Hands == [s \in Session |-> UNION {batch[r] : r \in {q \in Reader : me[q] = s}}]

\* Where commands and hooks of one session do not overlap, the boxes and their
\* markers keep the promise of MailPromise.tla: a message goes to whom it was
\* decided on or to a project, and is taken only by sessions it is for and
\* that were never shown it (board.py:283-284, 304-310).
Promise == INSTANCE MailPromise
             WITH Id <- 1..MaxSends, mark <- sent, posted <- box,
                  hands <- Hands

PromiseKept == Promise!Spec
=============================================================================
