---------------------------- MODULE MailboxProofs ----------------------------
(***************************************************************************)
(* Proofs about Mailbox.tla, for any sessions, projects, texts, processes  *)
(* and bounds: its types; where the commands and hooks of one session do   *)
(* not overlap, that no message is shown to it twice and no text of its    *)
(* own is broadcast; and where readers are not killed, that what is marked *)
(* read was shown or is about to be.                                       *)
(***************************************************************************)
EXTENDS Mailbox, FiniteSetTheorems, TLAPS

NoteOf == [to : Session, at : Nat]
Steps == {"idle", "post", "anyone", "resolve", "judge", "mark",
          "marking", "show"}

MailTypes ==
  /\ now \in Nat /\ sends \in Nat /\ posts \in Nat
  /\ project \in [Session -> Project \cup {None}]
  /\ alive \in [Session -> BOOLEAN]
  /\ box \subseteq [id : 1..posts, to : Session \cup Project, text : Text]
  /\ sent \in [Session -> [Text -> NoteOf \cup {None}]]
  /\ read \in [Session -> SUBSET (1..posts)]
  /\ pc \in [Sender \cup Reader -> Steps]
  /\ job \in [Sender -> [from : Session \cup {None},
                         to : Session \cup Project \cup {None},
                         text : Text \cup {None}]]
  /\ me \in [Reader -> Session \cup {None}]
  /\ batch \in [Reader -> SUBSET box]
  /\ shown \in [Session -> [1..MaxSends -> Nat]]
  /\ decided \subseteq [from : Session, to : Session, text : Text, at : Nat]

\* What a process is about to do says what it holds.
SenderInv ==
  \A p \in Sender :
    /\ pc[p] \notin {"marking", "show"}
    /\ pc[p] # "idle" => /\ job[p].from \in Session /\ job[p].text \in Text
                         /\ job[p].to \in Session \cup Project
    /\ pc[p] \in {"judge", "mark"} => job[p].to \in Session

ReaderInv ==
  \A r \in Reader :
    /\ pc[r] \in {"idle", "marking", "show"}
    /\ pc[r] = "idle" => batch[r] = {}
    /\ pc[r] # "idle" => me[r] \in Session
    /\ pc[r] = "show" => \A m \in batch[r] : m.id \in read[me[r]]

\* Each message has a command that posted it.
Busy == {p \in Sender : pc[p] # "idle"}

CountInv ==
  /\ IsFiniteSet(Busy)
  /\ posts + Cardinality(Busy) <= sends /\ sends <= MaxSends

MailInv == MailTypes /\ SenderInv /\ ReaderInv /\ CountInv

\* A session's mark is its latest decision on a text, and no earlier one for
\* another session is less than Window hours older.
MarkInv ==
  /\ \A s \in Session, t \in Text : sent[s][t] # None => sent[s][t].at <= now
  /\ \A d \in decided :
       LET mark == sent[d.from][d.text]
       IN /\ mark # None /\ d.at <= mark.at
          /\ d.to = mark.to \/ d.at + Window <= mark.at

\* Nobody else sends for the session meanwhile, so that what was judged is so
\* when the mark is written.
JudgeInv ==
  \A p \in Sender :
    /\ pc[p] = "mark" => ~Broadcast(p)
    /\ \A q \in Sender \ {p} :
         pc[p] # "idle" /\ pc[q] # "idle" => job[p].from # job[q].from
    /\ pc[p] = "idle" => job[p].from = None

\* A message that was shown is marked, one about to be shown was not shown, and
\* nobody else is about to show it.
FreshInv ==
  /\ \A s \in Session : \A i \in 1..MaxSends :
       shown[s][i] <= 1 /\ (shown[s][i] > 0 => i \in read[s])
  /\ \A r \in Reader :
       /\ pc[r] = "idle" => me[r] = None
       /\ \A q \in Reader \ {r} :
            pc[r] # "idle" /\ pc[q] # "idle" => me[r] # me[q]
       /\ pc[r] # "idle" => \A m \in batch[r] : shown[me[r]][m.id] = 0
-----------------------------------------------------------------------------
(* One process acts at a time                                              *)

\* What a process holds and does next is as it was.
SenderWaits(p) == pc'[p] = pc[p] /\ job'[p] = job[p]
ReaderWaits(r) == pc'[r] = pc[r] /\ me'[r] = me[r] /\ batch'[r] = batch[r]

SenderActs(p) == Begin(p) \/ SenderStep(p) \/ Kill(p)

ReaderActs(r) ==
  \/ ReaderStep(r) \/ Kill(r)
  \/ \E s \in Session, all \in BOOLEAN : Look(r, s, all)

LEMMA SenderAlone ==
  ASSUME MailTypes, NEW p \in Sender, SenderActs(p)
  PROVE  /\ \A q \in Sender \ {p} : SenderWaits(q)
         /\ \A r \in Reader : ReaderWaits(r)
<1> USE MailboxAssumption
    DEF MailTypes, GoTo, SenderWaits, ReaderWaits, readerVars, senderVars
<1>1. CASE Begin(p)
  BY <1>1 DEF Begin, Send
<1>2. CASE Anyone(p) \/ Allow(p) \/ Mark(p)
  BY <1>2 DEF Anyone, Allow, Mark
<1>3. CASE Unresolved(p) \/ RefuseBroadcast(p) \/ Post(p)
  BY <1>3 DEF Unresolved, RefuseBroadcast, Post, EndSend
<1>4. CASE \E s \in Session : Resolve(p, s)
  BY <1>4 DEF Resolve
<1>5. CASE Kill(p)
  BY <1>5 DEF Kill, EndSend
<1> QED BY <1>1, <1>2, <1>3, <1>4, <1>5 DEF SenderActs, SenderStep

LEMMA ReaderAlone ==
  ASSUME MailTypes, NEW r \in Reader, ReaderActs(r)
  PROVE  /\ \A p \in Sender : SenderWaits(p)
         /\ \A q \in Reader \ {r} : ReaderWaits(q)
<1> USE MailboxAssumption
    DEF MailTypes, GoTo, SenderWaits, ReaderWaits, readerVars, senderVars
<1>1. CASE \E s \in Session, all \in BOOLEAN : Look(r, s, all)
  BY <1>1 DEF Look
<1>2. CASE \E s \in Session, m \in box : MarkRead(r, s, m)
  BY <1>2 DEF MarkRead, MarkReads
<1>3. CASE AllMarked(r)
  BY <1>3 DEF AllMarked
<1>4. CASE Show(r)
  BY <1>4 DEF Show, EndRead
<1>5. CASE Kill(r)
  BY <1>5 DEF Kill, EndRead
<1> QED BY <1>1, <1>2, <1>3, <1>4, <1>5 DEF ReaderActs, ReaderStep

\* Every step is one of a sender, of a reader, or of neither.
LEMMA WhoActs ==
  ASSUME [Next]_vars
  PROVE  \/ \E p \in Sender : SenderActs(p)
         \/ \E r \in Reader : ReaderActs(r)
         \/ Tick \/ (\E s \in Session : Move(s)) \/ UNCHANGED vars
BY DEF Next, SenderActs, ReaderActs
-----------------------------------------------------------------------------
(* The types                                                               *)

LEMMA MessagesTyped ==
  ASSUME MailTypes, SenderInv, NEW p \in Sender, Post(p)
  PROVE  /\ posts' = posts + 1 /\ posts \in Nat /\ box \subseteq box'
         /\ box' \subseteq [id : 1..posts', to : Session \cup Project,
                             text : Text]
<1>1. /\ job[p].to \in Session \cup Project /\ job[p].text \in Text
      /\ posts \in Nat
      /\ box \subseteq [id : 1..posts, to : Session \cup Project, text : Text]
  BY DEF Post, SenderInv, MailTypes
<1>2. /\ posts' = posts + 1
      /\ box' = box \cup {[id |-> posts + 1, to |-> job[p].to,
                           text |-> job[p].text]}
  BY DEF Post
<1>3. [id |-> posts + 1, to |-> job[p].to, text |-> job[p].text]
        \in [id : 1..posts', to : Session \cup Project, text : Text]
  BY <1>1, <1>2
<1>4. [id : 1..posts, to : Session \cup Project, text : Text]
        \subseteq [id : 1..posts', to : Session \cup Project, text : Text]
  BY <1>1, <1>2
<1> QED BY <1>1, <1>2, <1>3, <1>4

LEMMA TypesStep ==
  MailTypes /\ SenderInv /\ ReaderInv /\ [Next]_vars => MailTypes'
<1> SUFFICES ASSUME MailTypes, SenderInv, ReaderInv, [Next]_vars
             PROVE  MailTypes'
  OBVIOUS
<1> USE MailboxAssumption
<1> DEFINE Same == UNCHANGED <<now, sessionVars, box, posts, sent, read, shown,
                               decided>>
           Jobs == [from : Session \cup {None},
                    to : Session \cup Project \cup {None},
                    text : Text \cup {None}]
           Sending == /\ pc' \in [Sender \cup Reader -> Steps]
                      /\ job' \in [Sender -> Jobs] /\ sends' \in Nat
                      /\ UNCHANGED readerVars
           Reading == /\ pc' \in [Sender \cup Reader -> Steps]
                      /\ me' \in [Reader -> Session \cup {None}]
                      /\ batch' \in [Reader -> SUBSET box]
                      /\ UNCHANGED senderVars
<1>1. CASE Tick \/ (\E s \in Session : Move(s)) \/ UNCHANGED vars
  <2>1. UNCHANGED <<box, posts, sent, read, pc, senderVars, readerVars, shown,
                    decided>>
    BY <1>1 DEF Tick, Move, vars
  <2>2. CASE Tick
    BY <2>1, <2>2 DEF Tick, MailTypes, sessionVars, senderVars, readerVars
  <2>3. ASSUME NEW s \in Session, Move(s)
        PROVE  MailTypes'
    <3>1. now' = now /\ alive' \in [Session -> BOOLEAN]
          /\ project' \in [Session -> Project \cup {None}]
      <4>1. CASE alive' = [alive EXCEPT ![s] = ~@] /\ UNCHANGED project
        BY <2>3, <4>1 DEF Move, MailTypes
      <4>2. ASSUME NEW x \in Project, project' = [project EXCEPT ![s] = x],
                   alive' = [alive EXCEPT ![s] = TRUE]
            PROVE  /\ alive' \in [Session -> BOOLEAN]
                   /\ project' \in [Session -> Project \cup {None}]
        BY <4>2 DEF MailTypes
      <4> QED BY <2>3, <4>1, <4>2 DEF Move
    <3> QED BY <2>1, <3>1 DEF MailTypes, senderVars, readerVars
  <2>4. CASE UNCHANGED vars
    BY <2>4 DEF vars, MailTypes, sessionVars, senderVars, readerVars
  <2> QED BY <1>1, <2>2, <2>3, <2>4
<1>2. ASSUME NEW p \in Sender, GoTo(p, "idle"), EndSend(p)
      PROVE  pc' \in [Sender \cup Reader -> Steps] /\ job' \in [Sender -> Jobs]
  BY <1>2 DEF GoTo, EndSend, NoJob, MailTypes, Steps
<1>3. ASSUME Same, Sending \/ Reading
      PROVE  MailTypes'
  BY <1>3 DEF MailTypes, sessionVars, senderVars, readerVars
<1>4. ASSUME NEW p \in Sender, NEW s \in Session,
             NEW to \in Session \cup Project, NEW text \in Text,
             NEW durable \in BOOLEAN, Send(p, s, to, text, durable)
      PROVE  MailTypes'
  <2>1. Same /\ Sending
    BY <1>4 DEF Send, GoTo, MailTypes, Steps
  <2> QED BY <1>3, <2>1
<1>5. ASSUME NEW p \in Sender, Anyone(p) \/ Allow(p)
      PROVE  MailTypes'
  <2>1. Same /\ Sending
    BY <1>5 DEF Anyone, Allow, GoTo, MailTypes, Steps, senderVars
  <2> QED BY <1>3, <2>1
<1>6. ASSUME NEW p \in Sender, NEW s \in Session, Resolve(p, s)
      PROVE  MailTypes'
  <2>1. [job[p] EXCEPT !.to = s] \in Jobs
    <3>1. job[p] \in Jobs
      BY DEF MailTypes
    <3> QED BY <3>1
  <2>2. job' \in [Sender -> Jobs]
    BY <1>6, <2>1 DEF Resolve, MailTypes
  <2>3. Same /\ pc' \in [Sender \cup Reader -> Steps]
        /\ UNCHANGED <<sends, readerVars>>
    BY <1>6 DEF Resolve, GoTo, MailTypes, Steps
  <2>4. Sending
    BY <2>2, <2>3 DEF MailTypes
  <2> QED BY <1>3, <2>3, <2>4
<1>7. ASSUME NEW p \in Sender, Unresolved(p) \/ RefuseBroadcast(p)
      PROVE  MailTypes'
  <2>1. Same /\ EndSend(p) /\ UNCHANGED <<sends, readerVars>>
    BY <1>7 DEF Unresolved, RefuseBroadcast
  <2>2. Sending
    BY <1>2, <2>1 DEF EndSend, MailTypes
  <2> QED BY <1>3, <2>1, <2>2
<1>8. ASSUME NEW p \in Sender, Mark(p)
      PROVE  MailTypes'
  <2>1. /\ job[p].from \in Session /\ job[p].to \in Session
        /\ job[p].text \in Text
    BY <1>8 DEF Mark, SenderInv
  <2>2. sent' \in [Session -> [Text -> NoteOf \cup {None}]]
    <3>1. [to |-> job[p].to, at |-> now] \in NoteOf
      BY <2>1 DEF NoteOf, MailTypes
    <3>2. sent' = [sent EXCEPT ![job[p].from] =
                     [sent[job[p].from] EXCEPT ![job[p].text] =
                        [to |-> job[p].to, at |-> now]]]
      BY <1>8 DEF Mark
    <3> QED BY <2>1, <3>1, <3>2 DEF MailTypes
  <2>3. decided' \subseteq [from : Session, to : Session, text : Text, at : Nat]
    BY <1>8, <2>1 DEF Mark, MailTypes
  <2>4. pc' \in [Sender \cup Reader -> Steps]
    BY <1>8 DEF Mark, GoTo, MailTypes, Steps
  <2> QED
    BY <1>8, <2>2, <2>3, <2>4 DEF Mark, MailTypes, sessionVars, senderVars,
       readerVars
<1>9. ASSUME NEW p \in Sender, Post(p)
      PROVE  MailTypes'
  <2>1. /\ posts' = posts + 1 /\ posts \in Nat /\ box \subseteq box'
        /\ box' \subseteq [id : 1..posts', to : Session \cup Project,
                             text : Text]
    BY <1>9, MessagesTyped
  <2>2. read' \in [Session -> SUBSET (1..posts')]
    BY <1>9, <2>1 DEF Post, MailTypes
  <2>3. batch' \in [Reader -> SUBSET box']
    BY <1>9, <2>1 DEF Post, MailTypes, readerVars
  <2>4. pc' \in [Sender \cup Reader -> Steps] /\ job' \in [Sender -> Jobs]
    BY <1>2, <1>9 DEF Post, EndSend
  <2> QED
    BY <1>9, <2>1, <2>2, <2>3, <2>4 DEF Post, MailTypes, sessionVars, readerVars
<1>10. ASSUME NEW r \in Reader, NEW s \in Session, NEW all \in BOOLEAN,
              Look(r, s, all)
       PROVE  MailTypes'
  <2>1. Unread(s) \subseteq box /\ Oldest(Unread(s)) \subseteq box
    BY DEF Unread, InBox, Oldest
  <2>2. Same /\ Reading
    BY <1>10, <2>1 DEF Look, GoTo, MailTypes, Steps
  <2> QED BY <1>3, <2>2
<1>11. ASSUME NEW r \in Reader, NEW s \in Session, NEW m \in box,
              MarkRead(r, s, m)
       PROVE  MailTypes'
  <2>1. m.id \in 1..posts
    BY DEF MailTypes
  <2> QED
    BY <1>11, <2>1 DEF MarkRead, MarkReads, MailTypes, sessionVars, senderVars,
       readerVars
<1>12. ASSUME NEW r \in Reader, AllMarked(r)
       PROVE  MailTypes'
  <2>1. Same /\ Reading
    BY <1>12 DEF AllMarked, GoTo, MailTypes, Steps, readerVars
  <2> QED BY <1>3, <2>1
<1>13. ASSUME NEW r \in Reader, EndRead(r), UNCHANGED senderVars
       PROVE  Reading
  BY <1>13 DEF EndRead, GoTo, MailTypes, Steps
<1>14. ASSUME NEW r \in Reader, Show(r)
       PROVE  MailTypes'
  <2>1. /\ UNCHANGED <<now, sessionVars, box, posts, sent, read, senderVars,
                       decided>>
        /\ EndRead(r)
    BY <1>14 DEF Show
  <2>2. me[r] \in Session
    BY <1>14 DEF Show, ReaderInv
  <2>3. shown' \in [Session -> [1..MaxSends -> Nat]]
    BY <1>14, <2>2 DEF Show, MailTypes
  <2>4. Reading
    BY <1>13, <2>1
  <2> QED
    BY <2>1, <2>3, <2>4 DEF MailTypes, sessionVars, senderVars, readerVars
<1>15. ASSUME NEW p \in Sender \cup Reader, Kill(p)
       PROVE  MailTypes'
  <2>1. Same /\ UNCHANGED sends
    BY <1>15 DEF Kill
  <2>2. CASE p \in Sender
    <3>1. EndSend(p) /\ UNCHANGED readerVars
      BY <1>15, <2>2 DEF Kill
    <3>2. Sending
      BY <1>2, <2>1, <2>2, <3>1 DEF EndSend, MailTypes
    <3> QED BY <1>3, <2>1, <3>2
  <2>3. CASE p \notin Sender
    <3>1. EndRead(p) /\ UNCHANGED senderVars
      BY <1>15, <2>1, <2>3 DEF Kill, senderVars
    <3>2. Reading
      BY <1>13, <2>3, <3>1
    <3> QED BY <1>3, <2>1, <3>2
  <2> QED BY <2>2, <2>3
<1> HIDE DEF Same, Sending, Reading
<1> QED
  BY <1>1, <1>4, <1>5, <1>6, <1>7, <1>8, <1>9, <1>10, <1>11, <1>12, <1>14, <1>15
  DEF Next, Begin, SenderStep, ReaderStep
-----------------------------------------------------------------------------
(* What the processes hold                                                 *)

LEMMA SenderInvStep == MailTypes /\ SenderInv /\ [Next]_vars => SenderInv'
<1> SUFFICES ASSUME MailTypes, SenderInv, [Next]_vars PROVE SenderInv'
  OBVIOUS
<1>1. ASSUME \A p \in Sender : SenderWaits(p)
      PROVE  SenderInv'
  BY <1>1 DEF SenderInv, SenderWaits
<1>2. ASSUME NEW p \in Sender, SenderActs(p),
             \/ pc'[p] = "idle"
             \/ /\ pc'[p] \notin {"marking", "show"}
                /\ job'[p].from \in Session /\ job'[p].text \in Text
                /\ job'[p].to \in Session \cup Project
                /\ pc'[p] \in {"judge", "mark"} => job'[p].to \in Session
      PROVE  SenderInv'
  BY <1>2, SenderAlone DEF SenderInv, SenderWaits
<1>3. ASSUME NEW p \in Sender, SenderActs(p)
      PROVE  SenderInv'
  <2>2. CASE Unresolved(p) \/ RefuseBroadcast(p) \/ Post(p) \/ Kill(p)
    <3>1. pc'[p] = "idle"
      BY <2>2 DEF Unresolved, RefuseBroadcast, Post, Kill, EndSend, GoTo,
         MailTypes
    <3> QED BY <1>2, <1>3, <3>1
  <2>3. CASE Begin(p)
    BY <1>2, <1>3, <2>3 DEF Begin, Send, GoTo, MailTypes
  <2>4. CASE Anyone(p) \/ Allow(p) \/ Mark(p)
    <3>1. /\ job' = job /\ pc[p] \in {"anyone", "judge", "mark"}
          /\ pc'[p] \in {"post", "resolve", "mark"}
          /\ pc'[p] = "mark" => pc[p] = "judge"
      BY <2>4 DEF Anyone, Allow, Mark, GoTo, MailTypes, senderVars
    <3> QED BY <1>2, <1>3, <3>1 DEF SenderInv
  <2>5. CASE \E s \in Session : Resolve(p, s)
    <3>1. PICK s \in Session : Resolve(p, s)
      BY <2>5
    <3>2. job' = [job EXCEPT ![p] = [job[p] EXCEPT !.to = s]] /\ pc[p] # "idle"
          /\ pc'[p] = "judge"
      BY <3>1 DEF Resolve, GoTo, MailTypes
    <3>3. job'[p] = [job[p] EXCEPT !.to = s]
      BY <3>2 DEF MailTypes
    <3>4. /\ job'[p].to = s /\ job'[p].from = job[p].from
          /\ job'[p].text = job[p].text
      BY <3>3 DEF MailTypes
    <3> QED BY <1>2, <1>3, <3>2, <3>4 DEF SenderInv
  <2> QED BY <1>3, <2>2, <2>3, <2>4, <2>5 DEF SenderActs, SenderStep
<1>4. CASE Tick \/ (\E s \in Session : Move(s)) \/ UNCHANGED vars
  BY <1>1, <1>4 DEF Tick, Move, vars, senderVars, SenderWaits
<1> QED BY <1>1, <1>3, <1>4, WhoActs, ReaderAlone

\* Markers are never taken away.
LEMMA ReadGrows ==
  ASSUME MailTypes, [Next]_vars, NEW s \in Session
  PROVE  read[s] \subseteq read'[s]
<1>1. CASE UNCHANGED read
  BY <1>1
<1>2. ASSUME NEW r \in Reader, NEW o \in Session, NEW m \in box,
             MarkRead(r, o, m)
      PROVE  read[s] \subseteq read'[s]
  BY <1>2 DEF MarkRead, MarkReads, MailTypes
<1> QED
  BY ZenonT(30), <1>1, <1>2 DEF Next, vars, Tick, Move, Begin, Send, SenderStep, Anyone,
     Unresolved, RefuseBroadcast, Allow, Mark, Post, Resolve, ReaderStep,
     AllMarked, Show, Look, Kill

LEMMA ReaderInvStep == MailTypes /\ ReaderInv /\ [Next]_vars => ReaderInv'
<1> SUFFICES ASSUME MailTypes, ReaderInv, [Next]_vars PROVE ReaderInv'
  OBVIOUS
<1> DEFINE Mine(r) ==
             /\ pc[r] \in {"idle", "marking", "show"}
             /\ pc[r] = "idle" => batch[r] = {}
             /\ pc[r] # "idle" => me[r] \in Session
             /\ pc[r] = "show" => \A m \in batch[r] : m.id \in read[me[r]]
<1>1. ASSUME NEW r \in Reader, ReaderWaits(r)
      PROVE  Mine(r)'
  BY <1>1, ReadGrows DEF ReaderInv, ReaderWaits
<1>2. ASSUME NEW r \in Reader, ReaderActs(r)
      PROVE  Mine(r)'
  <2> USE DEF GoTo, MailTypes
  <2>1. Mine(r)
    BY DEF ReaderInv
  <2>2. CASE \E s \in Session, all \in BOOLEAN : Look(r, s, all)
    BY <2>1, <2>2 DEF Look
  <2>3. CASE \E s \in Session, m \in box : MarkRead(r, s, m)
    BY <2>1, <2>3 DEF MarkRead, MarkReads, readerVars
  <2>4. CASE AllMarked(r)
    BY <2>1, <2>4 DEF AllMarked, readerVars
  <2>5. CASE Show(r) \/ Kill(r)
    BY <2>5, MailboxAssumption DEF Show, Kill, EndRead
  <2> QED BY <1>2, <2>2, <2>3, <2>4, <2>5 DEF ReaderActs, ReaderStep
<1>3. CASE Tick \/ (\E s \in Session : Move(s)) \/ UNCHANGED vars
  <2>1. \A r \in Reader : ReaderWaits(r)
    BY <1>3 DEF Tick, Move, vars, readerVars, ReaderWaits
  <2> QED BY <1>1, <2>1 DEF ReaderInv
<1>4. ASSUME NEW p \in Sender, SenderActs(p)
      PROVE  ReaderInv'
  BY <1>1, <1>4, SenderAlone DEF ReaderInv
<1>5. ASSUME NEW r \in Reader, ReaderActs(r)
      PROVE  ReaderInv'
  BY <1>1, <1>2, <1>5, ReaderAlone DEF ReaderInv
<1> QED BY <1>3, <1>4, <1>5, WhoActs

\* Each command posts once at most.
LEMMA CountStep == MailTypes /\ CountInv /\ [Next]_vars => CountInv'
<1> SUFFICES ASSUME MailTypes, CountInv, [Next]_vars PROVE CountInv'
  OBVIOUS
<1>1. IsFiniteSet(Busy) /\ Cardinality(Busy) \in Nat
      /\ posts \in Nat /\ sends \in Nat /\ MaxSends \in Nat
      /\ posts + Cardinality(Busy) <= sends /\ sends <= MaxSends
  BY FS_CardinalityType, MailboxAssumption DEF CountInv, MailTypes
<1>2. ASSUME Busy' = Busy, UNCHANGED <<posts, sends>>
      PROVE  CountInv'
  BY <1>1, <1>2 DEF CountInv
<1>3. ASSUME NEW p \in Sender, Begin(p)
      PROVE  CountInv'
  <2>1. /\ pc[p] = "idle" /\ pc'[p] # "idle" /\ sends < MaxSends
        /\ sends' = sends + 1 /\ posts' = posts
    BY <1>3, MailboxAssumption DEF Begin, Send, GoTo, MailTypes
  <2>2. Busy' = Busy \cup {p} /\ p \notin Busy
    BY <1>3, <2>1, SenderAlone DEF Busy, SenderActs, SenderWaits
  <2>3. /\ IsFiniteSet(Busy \cup {p})
        /\ Cardinality(Busy \cup {p}) = Cardinality(Busy) + 1
    BY <1>1, <2>2, FS_AddElement
  <2>4. IsFiniteSet(Busy') /\ Cardinality(Busy') = Cardinality(Busy) + 1
    BY <2>2, <2>3
  <2>5. /\ posts' + Cardinality(Busy') <= sends' /\ sends' <= MaxSends
    BY <1>1, <2>1, <2>4
  <2> QED BY <2>4, <2>5 DEF CountInv
<1>4. ASSUME NEW p \in Sender,
             Unresolved(p) \/ RefuseBroadcast(p) \/ Post(p) \/ Kill(p)
      PROVE  CountInv'
  <2>1. /\ pc[p] # "idle" /\ pc'[p] = "idle" /\ sends' = sends
        /\ posts' \in {posts, posts + 1}
    BY <1>4 DEF Unresolved, RefuseBroadcast, Post, Kill, EndSend, GoTo,
       MailTypes
  <2>2. Busy' = Busy \ {p} /\ p \in Busy
    BY <1>4, <2>1, SenderAlone DEF Busy, SenderActs, SenderStep, SenderWaits
  <2>3. /\ IsFiniteSet(Busy \ {p})
        /\ Cardinality(Busy \ {p}) = Cardinality(Busy) - 1
    BY <1>1, <2>2, FS_RemoveElement
  <2>4. IsFiniteSet(Busy') /\ Cardinality(Busy') = Cardinality(Busy) - 1
    BY <2>2, <2>3
  <2>5. /\ posts' + Cardinality(Busy') <= sends' /\ sends' <= MaxSends
    BY <1>1, <2>1, <2>4
  <2> QED BY <2>4, <2>5 DEF CountInv
<1>5. ASSUME NEW p \in Sender, \/ Anyone(p) \/ Allow(p) \/ Mark(p)
                               \/ \E s \in Session : Resolve(p, s)
      PROVE  CountInv'
  <2>1. /\ pc[p] # "idle" /\ pc'[p] # "idle" /\ UNCHANGED <<posts, sends>>
    BY <1>5 DEF Anyone, Allow, Mark, Resolve, GoTo, MailTypes, senderVars
  <2>2. Busy' = Busy
    BY <1>5, <2>1, SenderAlone DEF Busy, SenderActs, SenderStep, SenderWaits
  <2> QED BY <1>2, <2>1, <2>2
<1>6. ASSUME \A p \in Sender : SenderWaits(p), UNCHANGED <<posts, sends>>
      PROVE  CountInv'
  BY <1>2, <1>6 DEF Busy, SenderWaits
<1>7. ASSUME NEW r \in Reader, ReaderActs(r)
      PROVE  CountInv'
  <2>1. UNCHANGED <<posts, sends>>
    BY <1>7 DEF ReaderActs, ReaderStep, MarkRead, MarkReads, AllMarked, Show,
       Kill, Look, senderVars
  <2> QED BY <1>6, <1>7, <2>1, ReaderAlone
<1>8. CASE Tick \/ (\E s \in Session : Move(s)) \/ UNCHANGED vars
  BY <1>6, <1>8 DEF Tick, Move, vars, senderVars, SenderWaits
<1> QED
  BY <1>3, <1>4, <1>5, <1>7, <1>8, WhoActs DEF SenderActs, SenderStep

LEMMA MailBegins == Init => MailInv
<1> SUFFICES ASSUME Init PROVE MailInv
  OBVIOUS
<1>1. MailTypes
  BY MailboxAssumption DEF Init, MailTypes, NoJob, Steps
<1>2. SenderInv /\ ReaderInv
  BY DEF Init, SenderInv, ReaderInv
<1>3. Busy = {} /\ posts = 0 /\ sends = 0
  BY DEF Init, Busy
<1>4. CountInv
  BY <1>3, FS_EmptySet, MailboxAssumption DEF CountInv
<1> QED BY <1>1, <1>2, <1>4 DEF MailInv

LEMMA MailStep == MailInv /\ [Next]_vars => MailInv'
BY TypesStep, SenderInvStep, ReaderInvStep, CountStep DEF MailInv

\* Every message, marker, mark and count keeps its form.
THEOREM MailTyped == Spec => []MailTypes
<1>1. MailInv => MailTypes
  BY DEF MailInv
<1> QED BY <1>1, MailBegins, MailStep, PTL DEF Spec
-----------------------------------------------------------------------------
(* One recipient                                                           *)

\* The commands of a session are judged one by one.
LEMMA JudgeStep ==
  ASSUME ~Overlap, MailInv, JudgeInv, [Next]_vars
  PROVE  JudgeInv'
<1>1. MailTypes /\ SenderInv
  BY DEF MailInv
<1> DEFINE Allowed(p) == pc[p] = "mark" => ~Broadcast(p)
           Apart(p, q) == pc[p] # "idle" /\ pc[q] # "idle" =>
                            job[p].from # job[q].from
           Free(p) == pc[p] = "idle" => job[p].from = None
           All == \A p \in Sender : SenderWaits(p)
<1>2. ASSUME All, UNCHANGED <<now, sent>>
      PROVE  JudgeInv'
  <2>1. \A p \in Sender : pc'[p] = pc[p] /\ job'[p] = job[p]
    BY <1>2 DEF SenderWaits
  <2>2. \A p \in Sender : Broadcast(p)' <=> Broadcast(p)
    BY <1>2, <2>1 DEF Broadcast
  <2> QED BY <2>1, <2>2 DEF JudgeInv
<1>3. CASE (\E s \in Session : Move(s)) \/ UNCHANGED vars
  BY <1>2, <1>3 DEF Move, vars, senderVars, SenderWaits
<1>4. CASE Tick
  BY <1>4 DEF Tick, JudgeInv, senderVars
<1>5. ASSUME NEW r \in Reader, ReaderActs(r)
      PROVE  JudgeInv'
  <2>1. UNCHANGED <<now, sent>>
    BY <1>5 DEF ReaderActs, ReaderStep, MarkRead, MarkReads, AllMarked, Show,
       Kill, Look
  <2> QED BY <1>1, <1>2, <1>5, <2>1, ReaderAlone
<1>6. ASSUME NEW p \in Sender, SenderActs(p)
      PROVE  JudgeInv'
  <2>1. \A q \in Sender \ {p} : pc'[q] = pc[q] /\ job'[q] = job[q]
    BY <1>1, <1>6, SenderAlone DEF SenderWaits
  <2>2. UNCHANGED now
    BY <1>6 DEF SenderActs, Begin, Send, SenderStep, Anyone, Unresolved,
       RefuseBroadcast, Allow, Mark, Post, Resolve, Kill
  <2>3. ASSUME NEW q \in Sender \ {p}
        PROVE  Allowed(q)'
    <3>1. CASE Mark(p)
      <4>1. /\ pc[p] # "idle" /\ job[p].from \in Session
            /\ sent' = [sent EXCEPT ![job[p].from] =
                          [sent[job[p].from] EXCEPT ![job[p].text] =
                             [to |-> job[p].to, at |-> now]]]
        BY <1>1, <3>1 DEF Mark, SenderInv
      <4>2. pc[q] # "idle" => /\ job[q].from # job[p].from
                              /\ job[q].from \in Session
        BY <1>1, <4>1 DEF JudgeInv, SenderInv
      <4>3. pc[q] # "idle" => sent'[job[q].from] = sent[job[q].from]
        BY <1>1, <4>1, <4>2 DEF MailTypes
      <4> QED BY <2>1, <2>2, <4>3 DEF JudgeInv, Broadcast
    <3>2. CASE ~Mark(p)
      <4>1. UNCHANGED sent
        BY <1>6, <3>2 DEF SenderActs, Begin, Send, SenderStep, Anyone,
           Unresolved, RefuseBroadcast, Allow, Post, Resolve, Kill
      <4> QED BY <2>1, <2>2, <4>1 DEF JudgeInv, Broadcast
    <3> QED BY <3>1, <3>2
  <2>4. ASSUME Allowed(p)', Free(p)',
               \A q \in Sender \ {p} : Apart(p, q)'
        PROVE  JudgeInv'
    BY <2>1, <2>3, <2>4 DEF JudgeInv
  <2>5. CASE Begin(p)
    <3>1. PICK s \in Session, to \in Session \cup Project, text \in Text,
               durable \in BOOLEAN : Send(p, s, to, text, durable)
      BY <2>5 DEF Begin
    <3>2. /\ \A q \in Sender : job[q].from # s
          /\ job'[p].from = s /\ pc'[p] \notin {"idle", "mark"}
      BY <1>1, <3>1, MailboxAssumption DEF Send, GoTo, MailTypes
    <3> QED BY <2>1, <2>4, <3>2
  <2>6. CASE Unresolved(p) \/ RefuseBroadcast(p) \/ Post(p) \/ Kill(p)
    <3>1. pc'[p] = "idle" /\ job'[p] = NoJob
      BY <1>1, <2>6 DEF Unresolved, RefuseBroadcast, Post, Kill, EndSend, GoTo,
         MailTypes
    <3> QED BY <2>4, <3>1 DEF NoJob
  <2>7. ASSUME pc[p] # "idle", pc'[p] # "idle", job'[p].from = job[p].from,
               Allowed(p)'
        PROVE  JudgeInv'
    BY <2>1, <2>4, <2>7 DEF JudgeInv
  <2>8. CASE Anyone(p) \/ Mark(p)
    BY <1>1, <2>7, <2>8 DEF Anyone, Mark, GoTo, MailTypes, senderVars
  <2>9. CASE Allow(p)
    <3>1. ~Broadcast(p) /\ UNCHANGED <<now, sent, job>>
      BY <2>9 DEF Allow, senderVars
    <3>2. ~Broadcast(p)'
      BY <3>1 DEF Broadcast
    <3>3. pc[p] # "idle" /\ pc'[p] # "idle"
      BY <1>1, <2>9 DEF Allow, GoTo, MailTypes
    <3> QED BY <2>7, <3>1, <3>2, <3>3
  <2>10. CASE \E s \in Session : Resolve(p, s)
    <3>1. PICK s \in Session : Resolve(p, s)
      BY <2>10
    <3>2. /\ job' = [job EXCEPT ![p] = [job[p] EXCEPT !.to = s]]
          /\ pc[p] # "idle" /\ pc'[p] = "judge"
      BY <1>1, <3>1 DEF Resolve, GoTo, MailTypes
    <3>3. job'[p] = [job[p] EXCEPT !.to = s]
      BY <1>1, <3>2 DEF MailTypes
    <3>4. job'[p].from = job[p].from
      BY <1>1, <3>3 DEF MailTypes
    <3> QED BY <2>7, <3>2, <3>4
  <2> HIDE DEF Allowed, Apart, Free
  <2> QED
    BY <1>6, <2>5, <2>6, <2>8, <2>9, <2>10 DEF SenderActs, SenderStep
<1> HIDE DEF All
<1> QED BY <1>3, <1>4, <1>5, <1>6, WhoActs

LEMMA MarkStep ==
  ASSUME MailInv, MarkInv, JudgeInv, OneRecipient, [Next]_vars
  PROVE  MarkInv' /\ OneRecipient'
<1>1. MailTypes /\ SenderInv
  BY DEF MailInv
<1>2. ASSUME now <= now', now' \in Nat, UNCHANGED <<sent, decided>>
      PROVE  MarkInv' /\ OneRecipient'
  <2>1. ASSUME NEW s \in Session, NEW t \in Text, sent[s][t] # None
        PROVE  sent[s][t].at <= now'
    <3>1. /\ sent[s][t].at \in Nat /\ now \in Nat
          /\ sent[s][t].at <= now
      BY <1>1, <2>1 DEF MarkInv, MailTypes, NoteOf
    <3> QED BY <1>2, <3>1
  <2> QED BY <1>2, <2>1 DEF MarkInv, OneRecipient
<1>3. CASE Tick
  BY <1>1, <1>2, <1>3 DEF Tick, MailTypes
<1>4. ASSUME NEW p \in Sender, Mark(p)
      PROVE  MarkInv' /\ OneRecipient'
  <2> DEFINE j == job[p]
             old == sent[j.from][j.text]
             note == [to |-> j.to, at |-> now]
  <2>1. j.from \in Session /\ j.text \in Text /\ j.to \in Session /\ now \in Nat
    BY <1>1, <1>4 DEF Mark, SenderInv, MailTypes
  <2>2. /\ sent' = [sent EXCEPT ![j.from] =
                      [sent[j.from] EXCEPT ![j.text] = note]]
        /\ decided' = decided \cup {[from |-> j.from, to |-> j.to,
                                     text |-> j.text, at |-> now]}
        /\ UNCHANGED now
    BY <1>4 DEF Mark
  <2>3. note # None
    BY <2>1, MailboxAssumption
  <2>4. /\ sent'[j.from][j.text] = note
        /\ \A s \in Session, t \in Text : s # j.from \/ t # j.text =>
             sent'[s][t] = sent[s][t]
    BY <1>1, <2>1, <2>2 DEF MailTypes
  <2>5. \A s \in Session, t \in Text :
          sent'[s][t] # None => sent'[s][t].at <= now'
    BY <2>1, <2>2, <2>4 DEF MarkInv
  <2>6. ~Broadcast(p)
    BY <1>4 DEF Mark, JudgeInv
  <2>7. ASSUME NEW d \in decided
        PROVE  LET mark == sent[d.from][d.text]'
               IN /\ mark # None /\ d.at <= mark.at
                  /\ d.to = mark.to \/ d.at + Window <= mark.at
    <3>1. /\ d.from \in Session /\ d.text \in Text /\ d.at \in Nat
          /\ d.to \in Session
      BY <1>1 DEF MailTypes
    <3>2. LET mark == sent[d.from][d.text]
          IN /\ mark # None /\ d.at <= mark.at /\ mark.at <= now
             /\ d.to = mark.to \/ d.at + Window <= mark.at
             /\ mark.at \in Nat
      BY <1>1, <3>1 DEF MarkInv, MailTypes, NoteOf
    <3>3. CASE d.from # j.from \/ d.text # j.text
      BY <2>4, <3>1, <3>2, <3>3
    <3>4. CASE d.from = j.from /\ d.text = j.text
      <4>1. old # None /\ (old.to = j.to \/ ~(now - old.at < Window))
        BY <2>6, <3>2, <3>4 DEF Broadcast
      <4>2. /\ d.at \in Nat /\ old.at \in Nat /\ Window \in Nat /\ now \in Nat
            /\ d.at <= old.at /\ old.at <= now
            /\ d.to = old.to \/ d.at + Window <= old.at
        BY <2>1, <3>1, <3>2, <3>4, MailboxAssumption
      <4>3. d.at <= now /\ (d.to = j.to \/ d.at + Window <= now)
        <5>1. CASE d.to = old.to
          BY <4>1, <4>2, <5>1
        <5>2. CASE d.at + Window <= old.at
          BY <4>2, <5>2
        <5> QED BY <4>2, <5>1, <5>2
      <4> QED BY <2>3, <2>4, <3>4, <4>3
    <3> QED BY <3>3, <3>4
  <2>8. ASSUME NEW d \in decided', d \notin decided
        PROVE  LET mark == sent[d.from][d.text]'
               IN /\ mark # None /\ d.at <= mark.at
                  /\ d.to = mark.to \/ d.at + Window <= mark.at
    <3>1. /\ d.from = j.from /\ d.text = j.text /\ d.to = j.to /\ d.at = now
      BY <2>2, <2>8
    <3> QED BY <2>1, <2>3, <2>4, <3>1
  <2>9. MarkInv'
    BY <2>5, <2>7, <2>8 DEF MarkInv
  <2>10. OneRecipient'
    <3> DEFINE new == [from |-> j.from, to |-> j.to,
                       text |-> j.text, at |-> now]
    <3>1. ASSUME NEW d \in decided, d.from = j.from, d.text = j.text,
                 d.to # j.to
          PROVE  d.at + Window <= now
      BY <2>4, <2>7, <3>1
    <3>2. /\ new.from = j.from /\ new.to = j.to /\ new.text = j.text
          /\ new.at = now /\ decided' = decided \cup {new}
      BY <2>2
    <3> HIDE DEF new, j
    <3> QED BY <3>1, <3>2 DEF OneRecipient
  <2> QED BY <2>9, <2>10
<1>5. CASE UNCHANGED <<now, sent, decided>>
  BY <1>1, <1>2, <1>5 DEF MailTypes
<1> QED
  BY <1>3, <1>4, <1>5 DEF Next, vars, Move, Begin, Send, SenderStep, Anyone,
     Unresolved, RefuseBroadcast, Allow, Post, Resolve, ReaderStep, MarkRead,
     MarkReads, AllMarked, Show, Look, Kill

\* No text of a session goes to two others within the window, if the commands
\* of a session do not overlap; two at once could both find no mark.
THEOREM MailGoesToOne == ~Overlap /\ Spec => []OneRecipient
<1>1. Init => MarkInv /\ JudgeInv /\ OneRecipient
  BY DEF Init, MarkInv, JudgeInv, NoJob, OneRecipient
<1>2. CASE ~Overlap
  <2> DEFINE I == MailInv /\ MarkInv /\ JudgeInv /\ OneRecipient
  <2>1. I /\ [Next]_vars => I'
    BY <1>2, MailStep, MarkStep, JudgeStep
  <2>2. Init => I
    BY <1>1, MailBegins
  <2>3. I => OneRecipient
    OBVIOUS
  <2> HIDE DEF I
  <2> QED BY <2>1, <2>2, <2>3, PTL DEF Spec
<1>3. CASE Overlap
  BY <1>3
<1> QED BY <1>2, <1>3
-----------------------------------------------------------------------------
(* Shown once, and read only if shown                                      *)

\* Only Show shows.
LEMMA ShowShows ==
  ASSUME [Next]_vars, NEW r \in Reader, \A q \in Reader : ~Show(q)
  PROVE  UNCHANGED shown
BY ZenonT(30) DEF Next, vars, Tick, Move, Begin, Send, SenderStep, Anyone, Unresolved,
   RefuseBroadcast, Allow, Mark, Post, Resolve, ReaderStep, MarkRead,
   MarkReads, AllMarked, Look, Kill

\* What Show adds for its session.
LEMMA ShowAdds ==
  ASSUME MailTypes, ReaderInv, NEW r \in Reader, Show(r)
  PROVE  /\ me[r] \in Session /\ UNCHANGED read
         /\ \A s \in Session \ {me[r]} : shown'[s] = shown[s]
         /\ \A i \in 1..MaxSends :
              shown'[me[r]][i] = IF \E m \in batch[r] : m.id = i
                                 THEN shown[me[r]][i] + 1 ELSE shown[me[r]][i]
BY DEF Show, ReaderInv, MailTypes

\* A message's number is one that can be shown.
LEMMA IdsShown ==
  ASSUME MailInv
  PROVE  /\ posts \in Nat /\ posts <= MaxSends
         /\ \A r \in Reader : \A m \in batch[r] : m.id \in 1..MaxSends
         /\ \A s \in Session : read[s] \subseteq 1..MaxSends
         /\ \A m \in box : m.id \in 1..MaxSends
<1>1. /\ posts \in Nat /\ sends \in Nat /\ MaxSends \in Nat
      /\ Cardinality(Busy) \in Nat
      /\ posts + Cardinality(Busy) <= sends /\ sends <= MaxSends
  BY FS_CardinalityType, MailboxAssumption DEF MailInv, CountInv, MailTypes
<1>2. posts <= MaxSends
  BY <1>1
<1>3. 1..posts \subseteq 1..MaxSends
  BY <1>1, <1>2
<1>4. \A m \in box : m.id \in 1..posts
  BY DEF MailInv, MailTypes
<1>5. \A r \in Reader : batch[r] \subseteq box
  BY DEF MailInv, MailTypes
<1>6. \A s \in Session : read[s] \subseteq 1..posts
  BY DEF MailInv, MailTypes
<1> QED BY <1>1, <1>2, <1>3, <1>4, <1>5, <1>6

LEMMA ShownIsNat ==
  ASSUME MailTypes, NEW s \in Session, NEW i \in 1..MaxSends
  PROVE  shown[s][i] \in Nat
<1>1. shown \in [Session -> [1..MaxSends -> Nat]]
  BY DEF MailTypes
<1> QED BY <1>1

LEMMA FreshStep ==
  ASSUME ~Overlap, MailInv, FreshInv, [Next]_vars
  PROVE  FreshInv'
<1>1. MailTypes /\ ReaderInv
  BY DEF MailInv
<1> DEFINE Once == \A s \in Session : \A i \in 1..MaxSends :
                     shown[s][i] <= 1 /\ (shown[s][i] > 0 => i \in read[s])
           Apart(r) == /\ pc[r] = "idle" => me[r] = None
                       /\ \A q \in Reader \ {r} :
                            pc[r] # "idle" /\ pc[q] # "idle" => me[r] # me[q]
           Fresh(r) == pc[r] # "idle" =>
                         \A m \in batch[r] : shown[me[r]][m.id] = 0
<1>2. \A s \in Session : read[s] \subseteq read'[s]
  BY <1>1, ReadGrows
<1>3. ASSUME UNCHANGED shown
      PROVE  Once'
  BY <1>2, <1>3 DEF FreshInv
<1>4. ASSUME UNCHANGED shown, \A r \in Reader : ReaderWaits(r)
      PROVE  FreshInv'
  BY <1>3, <1>4 DEF FreshInv, ReaderWaits
<1>5. CASE Tick \/ (\E s \in Session : Move(s)) \/ UNCHANGED vars
  BY <1>4, <1>5 DEF Tick, Move, vars, readerVars, ReaderWaits
<1>6. ASSUME NEW p \in Sender, SenderActs(p)
      PROVE  FreshInv'
  <2>1. UNCHANGED shown
    BY <1>6 DEF SenderActs, Begin, Send, SenderStep, Anyone, Unresolved,
       RefuseBroadcast, Allow, Mark, Post, Resolve, Kill
  <2> QED BY <1>1, <1>4, <1>6, <2>1, SenderAlone
<1>7. ASSUME NEW r \in Reader, ReaderActs(r), Apart(r)', Fresh(r)',
             UNCHANGED shown
      PROVE  FreshInv'
  <2>1. \A q \in Reader \ {r} : ReaderWaits(q)
    BY <1>1, <1>7, ReaderAlone
  <2>2. \A q \in Reader : Fresh(q)'
    BY <1>7, <2>1 DEF FreshInv, ReaderWaits
  <2>3. \A q \in Reader : Apart(q)'
    BY <1>7, <2>1 DEF FreshInv, ReaderWaits
  <2> QED BY <1>3, <1>7, <2>2, <2>3 DEF FreshInv
<1>8. ASSUME NEW r \in Reader, NEW s \in Session, NEW all \in BOOLEAN,
             Look(r, s, all)
      PROVE  FreshInv'
  <2>1. /\ me'[r] = s /\ pc'[r] = "marking" /\ batch'[r] \subseteq Unread(s)
        /\ \A q \in Reader : me[q] # s
        /\ UNCHANGED shown /\ ReaderActs(r)
    BY <1>1, <1>8 DEF Look, GoTo, MailTypes, Oldest, ReaderActs
  <2>2. Apart(r)'
    <3>1. \A q \in Reader \ {r} : me'[q] = me[q]
      BY <1>1, <2>1, ReaderAlone DEF ReaderWaits
    <3> QED BY <2>1, <3>1
  <2>3. ASSUME NEW m \in batch'[r]
        PROVE  shown[s][m.id] = 0
    <3>1. m.id \in 1..MaxSends /\ m.id \notin read[s]
      BY <2>1, <2>3, IdsShown DEF Unread, InBox
    <3>2. shown[s][m.id] \in Nat
      BY ZenonT(30), <1>1, <3>1 DEF MailTypes
    <3> QED BY <3>1, <3>2 DEF FreshInv
  <2> QED BY <1>7, <2>1, <2>2, <2>3
<1>9. ASSUME NEW r \in Reader,
             AllMarked(r) \/ \E s \in Session, m \in box : MarkRead(r, s, m)
      PROVE  FreshInv'
  <2>1. /\ UNCHANGED <<shown, me, batch>> /\ ReaderActs(r)
        /\ pc[r] # "idle" /\ pc'[r] # "idle"
        /\ \A q \in Reader \ {r} : pc'[q] = pc[q]
    BY <1>1, <1>9 DEF AllMarked, MarkRead, MarkReads, GoTo, MailTypes,
       readerVars, ReaderActs, ReaderStep
  <2>2. Apart(r)' /\ Fresh(r)'
    BY <2>1 DEF FreshInv
  <2> QED BY <1>7, <2>1, <2>2
<1>10. ASSUME NEW r \in Reader, EndRead(r)
       PROVE  Apart(r)' /\ Fresh(r)'
  BY <1>1, <1>10 DEF EndRead, GoTo, MailTypes
<1>11. ASSUME NEW r \in Reader, Kill(r)
       PROVE  FreshInv'
  <2>1. EndRead(r) /\ UNCHANGED shown /\ ReaderActs(r)
    BY <1>11, MailboxAssumption DEF Kill, ReaderActs
  <2> QED BY <1>7, <1>10, <2>1
<1>12. ASSUME NEW r \in Reader, Show(r)
       PROVE  FreshInv'
  <2>1. /\ me[r] \in Session /\ UNCHANGED read
        /\ \A s \in Session \ {me[r]} : shown'[s] = shown[s]
        /\ \A i \in 1..MaxSends :
             shown'[me[r]][i] = IF \E m \in batch[r] : m.id = i
                                THEN shown[me[r]][i] + 1 ELSE shown[me[r]][i]
    BY <1>1, <1>12, ShowAdds
  <2>2. EndRead(r) /\ ReaderActs(r) /\ pc[r] = "show"
    BY <1>12 DEF Show, ReaderActs, ReaderStep
  <2>3. \A q \in Reader \ {r} : ReaderWaits(q)
    BY <1>1, <2>2, ReaderAlone
  <2>4. ASSUME NEW i \in 1..MaxSends
        PROVE  /\ shown'[me[r]][i] <= 1
               /\ shown'[me[r]][i] > 0 => i \in read'[me[r]]
    <3>1. shown[me[r]][i] \in Nat
      BY <1>1, <2>1, <2>4, ShownIsNat
    <3>2. ASSUME NEW m \in batch[r], m.id = i
          PROVE  shown[me[r]][i] = 0 /\ i \in read[me[r]]
      BY <1>1, <2>2, <3>2 DEF FreshInv, ReaderInv
    <3>3. CASE \E m \in batch[r] : m.id = i
      <4>1. shown'[me[r]][i] = 0 + 1 /\ i \in read[me[r]]
        BY <2>1, <3>2, <3>3
      <4> QED BY <2>1, <4>1
    <3>4. CASE ~\E m \in batch[r] : m.id = i
      <4>1. shown'[me[r]][i] = shown[me[r]][i]
        BY <2>1, <3>4
      <4> QED BY <2>1, <4>1 DEF FreshInv
    <3> QED BY <3>3, <3>4
  <2>5. Once'
    BY <2>1, <2>4 DEF FreshInv
  <2>6. ASSUME NEW q \in Reader
        PROVE  Apart(q)' /\ Fresh(q)'
    <3>1. CASE q = r
      BY <1>10, <2>2, <3>1
    <3>2. CASE q # r
      <4>1. pc'[q] = pc[q] /\ me'[q] = me[q] /\ batch'[q] = batch[q]
        BY <2>3, <3>2 DEF ReaderWaits
      <4>2. pc[q] # "idle" => me[q] \in Session \ {me[r]}
        BY <1>1, <2>2, <3>2 DEF FreshInv, ReaderInv
      <4>3. Fresh(q)'
        BY <2>1, <4>1, <4>2 DEF FreshInv
      <4>4. pc'[r] = "idle"
        BY <1>1, <2>2 DEF EndRead, GoTo, MailTypes
      <4>5. Apart(q)'
        BY <2>3, <4>1, <4>4 DEF FreshInv, ReaderWaits
      <4> QED BY <4>3, <4>5
    <3> QED BY <3>1, <3>2
  <2> QED BY <2>5, <2>6 DEF FreshInv
<1> HIDE DEF Once, Apart, Fresh
<1> QED
  BY <1>5, <1>6, <1>8, <1>9, <1>11, <1>12, WhoActs DEF ReaderActs, ReaderStep

\* Nothing is shown to a session twice, whoever is killed, if its hooks and
\* commands do not overlap.
THEOREM MailShownOnce == ~Overlap /\ Spec => []ShownOnce
<1>1. Init => FreshInv
  BY DEF Init, FreshInv
<1>2. FreshInv => ShownOnce
  BY DEF FreshInv, ShownOnce
<1>3. CASE ~Overlap
  <2>1. MailInv /\ FreshInv /\ [Next]_vars => MailInv' /\ FreshInv'
    BY <1>3, MailStep, FreshStep
  <2> QED BY <1>1, <1>2, <2>1, MailBegins, PTL DEF Spec
<1>4. CASE Overlap
  BY <1>4
<1> QED BY <1>3, <1>4

\* A marker is set for a message that its reader goes on to show.
LEMMA ReadShownStep ==
  ASSUME Killable \cap Reader = {}, MailInv, ReadIsShown, [Next]_vars
  PROVE  ReadIsShown'
<1>1. MailTypes /\ ReaderInv
  BY DEF MailInv
<1> DEFINE Held(s, i) == \E r \in Reader : /\ me[r] = s
                                           /\ \E m \in batch[r] : m.id = i
<1>2. ASSUME UNCHANGED <<read, shown>>, \A r \in Reader : ReaderWaits(r)
      PROVE  ReadIsShown'
  BY <1>2 DEF ReadIsShown, ReaderWaits
<1>3. CASE Tick \/ (\E s \in Session : Move(s)) \/ UNCHANGED vars
  BY <1>2, <1>3 DEF Tick, Move, vars, readerVars, ReaderWaits
<1>4. ASSUME NEW p \in Sender, SenderActs(p)
      PROVE  ReadIsShown'
  <2>1. UNCHANGED <<read, shown>>
    BY <1>4 DEF SenderActs, Begin, Send, SenderStep, Anyone, Unresolved,
       RefuseBroadcast, Allow, Mark, Post, Resolve, Kill
  <2> QED BY <1>1, <1>2, <1>4, <2>1, SenderAlone
<1>5. ASSUME NEW r \in Reader, NEW s \in Session, NEW all \in BOOLEAN,
             Look(r, s, all)
      PROVE  ReadIsShown'
  <2>1. UNCHANGED <<read, shown>> /\ batch[r] = {}
    BY <1>1, <1>5 DEF Look, ReaderInv
  <2>2. \A q \in Reader \ {r} : me'[q] = me[q] /\ batch'[q] = batch[q]
    BY <1>1, <1>5, ReaderAlone DEF ReaderActs, ReaderWaits
  <2>3. \A o \in Session, i \in 1..MaxSends : Held(o, i) => Held(o, i)'
    BY <2>1, <2>2
  <2> HIDE DEF Held
  <2>4. \A o \in Session : read[o] \subseteq 1..MaxSends
    BY IdsShown
  <2>5. \A o \in Session : \A i \in read[o] : shown[o][i] > 0 \/ Held(o, i)
    BY DEF ReadIsShown, Held
  <2>6. \A o \in Session : \A i \in read'[o] : shown'[o][i] > 0 \/ Held(o, i)'
    BY <2>1, <2>3, <2>4, <2>5
  <2> QED BY <2>6 DEF ReadIsShown, Held
<1>6. ASSUME NEW r \in Reader, NEW s \in Session, NEW m \in box,
             MarkRead(r, s, m)
      PROVE  ReadIsShown'
  <2>1. /\ UNCHANGED <<shown, me, batch>> /\ m \in batch[r] /\ me[r] = s
        /\ read' = [read EXCEPT ![s] = read[s] \cup {m.id}]
    BY <1>6 DEF MarkRead, MarkReads, readerVars
  <2>2. \A o \in Session : \A i \in read'[o] :
          i \in read[o] \/ (o = s /\ i = m.id)
    BY <1>1, <2>1 DEF MailTypes
  <2>3. Held(s, m.id)
    BY <2>1
  <2> QED BY <2>1, <2>2, <2>3 DEF ReadIsShown
<1>7. ASSUME NEW r \in Reader, AllMarked(r)
      PROVE  ReadIsShown'
  BY <1>7 DEF AllMarked, readerVars, ReadIsShown
<1>8. ASSUME NEW r \in Reader, Show(r)
      PROVE  ReadIsShown'
  <2>1. /\ me[r] \in Session /\ UNCHANGED read
        /\ \A s \in Session \ {me[r]} : shown'[s] = shown[s]
        /\ \A i \in 1..MaxSends :
             shown'[me[r]][i] = IF \E m \in batch[r] : m.id = i
                                THEN shown[me[r]][i] + 1 ELSE shown[me[r]][i]
    BY <1>1, <1>8, ShowAdds
  <2>2. \A q \in Reader \ {r} : me'[q] = me[q] /\ batch'[q] = batch[q]
    BY <1>1, <1>8, ReaderAlone DEF ReaderActs, ReaderStep, ReaderWaits
  <2>3. ASSUME NEW s \in Session, NEW i \in read[s]
        PROVE  shown'[s][i] > 0 \/ Held(s, i)'
    <3>1. i \in 1..MaxSends
      BY IdsShown
    <3>2. shown[s][i] \in Nat
      BY <1>1, <2>3, <3>1, ShownIsNat
    <3>3. shown[s][i] > 0 => shown'[s][i] > 0
      BY <2>1, <3>1, <3>2
    <3>4. ASSUME NEW q \in Reader, me[q] = s, \E m \in batch[q] : m.id = i
          PROVE  shown'[s][i] > 0 \/ Held(s, i)'
      <4>1. CASE q = r
        <5>1. shown'[s][i] = shown[s][i] + 1
          BY <2>1, <3>1, <3>4, <4>1
        <5> QED BY <3>2, <5>1
      <4>2. CASE q # r
        BY <2>2, <3>4, <4>2
      <4> QED BY <4>1, <4>2
    <3> QED BY <3>3, <3>4 DEF ReadIsShown
  <2> QED BY <2>1, <2>3 DEF ReadIsShown
<1>9. \A r \in Reader : ~Kill(r)
  BY DEF Kill
<1> HIDE DEF Held
<1> QED
  BY <1>3, <1>4, <1>5, <1>6, <1>7, <1>8, <1>9, WhoActs
  DEF ReaderActs, ReaderStep

\* What has a marker has been shown or is about to be, if no reader is killed.
THEOREM MailReadIsShown ==
  Killable \cap Reader = {} /\ Spec => []ReadIsShown
<1>1. Init => ReadIsShown
  BY DEF Init, ReadIsShown
<1>2. CASE Killable \cap Reader = {}
  <2>1. MailInv /\ ReadIsShown /\ [Next]_vars => MailInv' /\ ReadIsShown'
    BY <1>2, MailStep, ReadShownStep
  <2> QED BY <1>1, <2>1, MailBegins, PTL DEF Spec
<1>3. CASE Killable \cap Reader # {}
  BY <1>3
<1> QED BY <1>2, <1>3
-----------------------------------------------------------------------------
(***************************************************************************)
(* The refinement of MailPromise, where the commands and hooks of one      *)
(* session do not overlap.                                                 *)
(***************************************************************************)

\* What is posted to a session was decided on, and still is when it is posted.
PostInv ==
  \A p \in Sender :
    /\ pc[p] = "anyone" => job[p].to \in Project
    /\ pc[p] = "post" /\ job[p].to \in Session =>
         Promise!Decided(job[p].from, job[p].text, job[p].to)

LEMMA SenderKeeps ==
  ASSUME NEW p \in Sender, SenderActs(p)
  PROVE  UNCHANGED <<now, project, read, me, batch, shown>>
<1>1. CASE Kill(p)
  BY <1>1 DEF Kill, sessionVars, readerVars
<1>2. CASE Begin(p)
  BY <1>2 DEF Begin, Send, sessionVars, readerVars
<1>3. CASE SenderStep(p)
  BY <1>3 DEF SenderStep, Anyone, Unresolved, RefuseBroadcast, Allow, Mark, Post,
     Resolve, sessionVars, readerVars
<1> QED BY <1>1, <1>2, <1>3 DEF SenderActs

LEMMA MarksMark ==
  ASSUME NEW p \in Sender, SenderActs(p), ~Mark(p)
  PROVE  UNCHANGED sent
BY DEF SenderActs, Begin, Send, SenderStep, Anyone, Unresolved,
   RefuseBroadcast, Allow, Post, Resolve, Kill

LEMMA MarkMarks ==
  ASSUME MailTypes, SenderInv, NEW p \in Sender, Mark(p)
  PROVE  /\ pc[p] = "mark" /\ job[p].from \in Session /\ job[p].text \in Text
         /\ job[p].to \in Session
         /\ sent' = [sent EXCEPT ![job[p].from] =
                       [@ EXCEPT ![job[p].text] =
                          [to |-> job[p].to, at |-> now]]]
         /\ sent'[job[p].from][job[p].text] = [to |-> job[p].to, at |-> now]
         /\ \A s \in Session \ {job[p].from} : sent'[s] = sent[s]
         /\ UNCHANGED <<job, box>> /\ pc'[p] = "post"
<1>1. /\ pc[p] = "mark" /\ job[p].from \in Session /\ job[p].text \in Text
      /\ job[p].to \in Session
  BY DEF Mark, SenderInv
<1>2. /\ sent' = [sent EXCEPT ![job[p].from] =
                    [@ EXCEPT ![job[p].text] = [to |-> job[p].to, at |-> now]]]
      /\ UNCHANGED <<job, box>> /\ pc'[p] = "post"
  BY DEF Mark, GoTo, MailTypes, senderVars
<1> QED BY <1>1, <1>2 DEF MailTypes

LEMMA PostStep ==
  ASSUME ~Overlap, MailInv, JudgeInv, PostInv, [Next]_vars
  PROVE  PostInv'
<1>1. MailTypes /\ SenderInv
  BY DEF MailInv
<1> USE MailboxAssumption
<1> DEFINE Mine(p) == /\ pc[p] = "anyone" => job[p].to \in Project
                      /\ pc[p] = "post" /\ job[p].to \in Session =>
                           Promise!Decided(job[p].from, job[p].text, job[p].to)
<1>2. ASSUME \A p \in Sender : SenderWaits(p), UNCHANGED sent
      PROVE  PostInv'
  BY <1>2 DEF PostInv, SenderWaits, Promise!Decided
<1>3. CASE Tick \/ (\E s \in Session : Move(s)) \/ UNCHANGED vars
  BY <1>2, <1>3 DEF Tick, Move, vars, senderVars, SenderWaits
<1>4. ASSUME NEW r \in Reader, ReaderActs(r)
      PROVE  PostInv'
  <2>1. UNCHANGED sent
    BY <1>4 DEF ReaderActs, ReaderStep, MarkRead, MarkReads, AllMarked, Show,
       Kill, Look
  <2> QED BY <1>1, <1>2, <1>4, <2>1, ReaderAlone
<1>5. ASSUME NEW p \in Sender, SenderActs(p)
      PROVE  PostInv'
  <2>1. \A q \in Sender \ {p} : pc'[q] = pc[q] /\ job'[q] = job[q]
    BY <1>1, <1>5, SenderAlone DEF SenderWaits
  <2>2. ASSUME NEW q \in Sender \ {p}
        PROVE  Mine(q)'
    <3>1. CASE Mark(p)
      <4>1. /\ pc[p] = "mark"
            /\ \A s \in Session \ {job[p].from} : sent'[s] = sent[s]
        BY <1>1, <3>1, MarkMarks
      <4>2. pc[q] # "idle" => /\ job[q].from # job[p].from
                              /\ job[q].from \in Session
        BY <1>1, <4>1 DEF JudgeInv, SenderInv
      <4>3. pc[q] # "idle" => sent'[job[q].from] = sent[job[q].from]
        BY <4>1, <4>2
      <4> QED BY <2>1, <4>3 DEF PostInv, Promise!Decided
    <3>2. CASE ~Mark(p)
      <4>1. UNCHANGED sent
        BY <1>5, <3>2, MarksMark
      <4> QED BY <2>1, <4>1 DEF PostInv, Promise!Decided
    <3> QED BY <3>1, <3>2
  <2>3. Mine(p)'
    <3>1. CASE Begin(p)
      <4>1. PICK s \in Session, to \in Session \cup Project, text \in Text,
                 durable \in BOOLEAN : Send(p, s, to, text, durable)
        BY <3>1 DEF Begin
      <4>2. job'[p].to = to
        BY <1>1, <4>1 DEF Send, MailTypes
      <4>3. pc'[p] \in {"anyone", "post"} => to \in Project
        BY <1>1, <4>1 DEF Send, GoTo, MailTypes
      <4>4. to \in Project => to \notin Session
        OBVIOUS
      <4> QED BY <4>2, <4>3, <4>4
    <3>2. CASE Anyone(p)
      <4>1. pc[p] = "anyone" /\ UNCHANGED <<job, sent>>
            /\ pc'[p] \in {"post", "resolve"}
        BY <1>1, <3>2 DEF Anyone, GoTo, MailTypes, senderVars
      <4>2. job[p].to \in Project /\ job[p].to \notin Session
        BY <4>1 DEF PostInv
      <4> QED BY <4>1, <4>2
    <3>3. CASE Mark(p)
      <4>1. /\ pc'[p] = "post" /\ UNCHANGED job /\ job[p].from \in Session
            /\ sent'[job[p].from][job[p].text] = [to |-> job[p].to, at |-> now]
        BY <1>1, <3>3, MarkMarks
      <4>2. [to |-> job[p].to, at |-> now] # None
        <5>1. job[p].to \in Session /\ now \in Nat
          BY <1>1, <3>3, MarkMarks DEF MailTypes
        <5> QED BY <5>1
      <4> QED BY <4>1, <4>2 DEF Promise!Decided
    <3>4. CASE Allow(p) \/ \E s \in Session : Resolve(p, s)
      <4>1. pc'[p] \in {"judge", "mark"}
        BY <1>1, <3>4 DEF Allow, Resolve, GoTo, MailTypes
      <4> QED BY <4>1
    <3>5. CASE Unresolved(p) \/ RefuseBroadcast(p) \/ Post(p) \/ Kill(p)
      <4>1. pc'[p] = "idle"
        BY <1>1, <3>5 DEF Unresolved, RefuseBroadcast, Post, Kill, EndSend, GoTo,
           MailTypes
      <4> QED BY <4>1
    <3> QED BY <1>5, <3>1, <3>2, <3>3, <3>4, <3>5 DEF SenderActs, SenderStep
  <2> QED BY <2>2, <2>3 DEF PostInv
<1> QED BY <1>3, <1>4, <1>5, WhoActs

\* The one reader of a session has in its batch what the session was handed.
LEMMA HandsMove ==
  ASSUME MailTypes, NEW r \in Reader, NEW s \in Session, ReaderActs(r),
         me[r] \in {s, None}, me'[r] \in {s, None},
         \A q \in Reader \ {r} : me[q] # s
  PROVE  /\ me[r] = s => Hands[s] = batch[r]
         /\ me[r] = None => Hands[s] = {}
         /\ me'[r] = s => Hands' = [Hands EXCEPT ![s] = batch'[r]]
         /\ me'[r] = None => Hands' = [Hands EXCEPT ![s] = {}]
<1> USE MailboxAssumption
<1>1. \A q \in Reader \ {r} : me'[q] = me[q] /\ batch'[q] = batch[q]
  BY ReaderAlone DEF ReaderWaits
<1>2. s # None /\ \A o \in Session : o # None
  OBVIOUS
<1>3. /\ Hands[s] = UNION {batch[q] : q \in {x \in Reader : me[x] = s}}
      /\ Hands'[s] = UNION {batch'[q] : q \in {x \in Reader : me'[x] = s}}
  BY DEF Hands
<1>4. /\ me[r] = s => {x \in Reader : me[x] = s} = {r}
      /\ me[r] = None => {x \in Reader : me[x] = s} = {}
      /\ me'[r] = s => {x \in Reader : me'[x] = s} = {r}
      /\ me'[r] = None => {x \in Reader : me'[x] = s} = {}
  BY <1>1, <1>2
<1>5. /\ me[r] = s => Hands[s] = batch[r]
      /\ me[r] = None => Hands[s] = {}
      /\ me'[r] = s => Hands'[s] = batch'[r]
      /\ me'[r] = None => Hands'[s] = {}
  BY <1>3, <1>4
<1>6. ASSUME NEW o \in Session \ {s} PROVE Hands'[o] = Hands[o]
  <2>1. /\ {x \in Reader : me'[x] = o} = {x \in Reader : me[x] = o}
        /\ r \notin {x \in Reader : me[x] = o}
    BY <1>1, <1>2
  <2>2. /\ Hands[o] = UNION {batch[q] : q \in {x \in Reader : me[x] = o}}
        /\ Hands'[o] = UNION {batch'[q] : q \in {x \in Reader : me'[x] = o}}
    BY DEF Hands
  <2> QED BY <1>1, <2>1, <2>2
<1>7. /\ Hands = [o \in Session |-> Hands[o]]
      /\ Hands' = [o \in Session |-> Hands'[o]]
  BY DEF Hands
<1> QED BY <1>5, <1>6, <1>7

\* Senders do not touch what is being shown.
LEMMA SendIsPost ==
  ASSUME ~Overlap, MailInv, JudgeInv, PostInv, NEW p \in Sender, SenderActs(p)
  PROVE  Promise!Next \/ UNCHANGED Promise!promise
<1>1. MailTypes /\ SenderInv
  BY DEF MailInv
<1>2. UNCHANGED <<now, project, Hands, shown>>
  BY SenderKeeps DEF Hands
<1>3. CASE Mark(p)
  <2> DEFINE s == job[p].from
             t == job[p].text
             o == job[p].to
  <2>1. /\ pc[p] = "mark" /\ s \in Session /\ t \in Text /\ o \in Session
        /\ sent' = [sent EXCEPT ![s] = [@ EXCEPT ![t] = [to |-> o, at |-> now]]]
        /\ UNCHANGED box
    BY <1>1, <1>3, MarkMarks
  <2>2. ~Broadcast(p)
    BY <2>1 DEF JudgeInv
  <2>3. Promise!Open(s, t, o)
    <3>1. sent[s][t] \in NoteOf \cup {None} /\ now \in Nat
      BY <1>1, <2>1 DEF MailTypes
    <3>2. Window \in Nat
      BY MailboxAssumption
    <3>3. \/ sent[s][t] = None \/ sent[s][t].to = o
          \/ ~(now - sent[s][t].at < Window)
      BY <2>2 DEF Broadcast
    <3> HIDE DEF s, t, o
    <3> QED BY <3>1, <3>2, <3>3 DEF Promise!Open, NoteOf
  <2> HIDE DEF s, t, o
  <2>4. Promise!Decide(s, t, o)
    BY <1>2, <2>1, <2>3 DEF Promise!Decide
  <2> QED BY <2>1, <2>4 DEF Promise!Next
<1>4. CASE Post(p)
  <2> DEFINE s == job[p].from
             t == job[p].text
             to == job[p].to
             i == posts + 1
  <2>1. /\ pc[p] = "post" /\ UNCHANGED sent
        /\ box' = box \cup {[id |-> i, to |-> to, text |-> t]}
    BY <1>4 DEF Post
  <2>2. s \in Session /\ t \in Text /\ to \in Session \cup Project
    BY <1>1, <2>1 DEF SenderInv
  <2>3. to \in Session => Promise!Decided(s, t, to)
    BY <2>1 DEF PostInv
  <2>4. i \in 1..MaxSends
    <3>1. p \in Busy
      BY <2>1 DEF Busy
    <3>2. Cardinality(Busy) \in Nat /\ Cardinality(Busy) # 0
      BY <3>1, FS_CardinalityType, FS_EmptySet DEF MailInv, CountInv
    <3> QED BY <1>1, <3>2, MailboxAssumption DEF MailInv, CountInv, MailTypes
  <2>5. \A m \in box : m.id # i
    BY <1>1 DEF MailTypes
  <2> HIDE DEF s, t, to, i
  <2>6. Promise!Post(s, t, to, i)
    BY <1>2, <2>1, <2>3, <2>5 DEF Promise!Post
  <2> QED BY <2>2, <2>4, <2>6 DEF Promise!Next
<1>5. CASE ~Mark(p) /\ ~Post(p)
  <2>1. UNCHANGED <<sent, box>>
    BY <1>5 DEF SenderActs, Begin, Send, SenderStep, Anyone, Unresolved,
       RefuseBroadcast, Allow, Resolve, Kill
  <2> QED BY <1>2, <2>1 DEF Promise!promise
<1> QED BY <1>3, <1>4, <1>5

LEMMA ReadIsTake ==
  ASSUME ~Overlap, MailInv, FreshInv, NEW r \in Reader, ReaderActs(r)
  PROVE  Promise!Next \/ UNCHANGED Promise!promise
<1>1. MailTypes /\ ReaderInv
  BY DEF MailInv
<1> USE MailboxAssumption
<1>2. UNCHANGED <<now, project, sent, box>>
  BY DEF ReaderActs, ReaderStep, MarkRead, MarkReads, AllMarked, Show, Kill, Look,
     sessionVars
<1>3. ASSUME NEW s \in Session, NEW all \in BOOLEAN, Look(r, s, all)
      PROVE  Promise!Next
  <2> DEFINE M == batch'[r]
  <2>1. /\ \A q \in Reader : me[q] # s
        /\ pc[r] = "idle" /\ me'[r] = s /\ UNCHANGED shown
        /\ M = IF all THEN Unread(s) ELSE Oldest(Unread(s))
    BY <1>1, <1>3 DEF Look, MailTypes
  <2>2. me[r] = None
    BY <2>1 DEF FreshInv
  <2>3. Hands[s] = {} /\ Hands' = [Hands EXCEPT ![s] = M]
    BY <1>1, <2>1, <2>2, HandsMove
  <2>4. M \subseteq Unread(s)
    BY <2>1 DEF Oldest
  <2>5. ASSUME NEW m \in M
        PROVE  m \in box /\ Promise!IsFor(m, s) /\ shown[s][m.id] = 0
    <3>1. m \in box /\ m.id \notin read[s] /\ Promise!IsFor(m, s)
      BY <2>4 DEF Unread, InBox, Promise!IsFor
    <3>2. m.id \in 1..MaxSends
      BY <3>1, IdsShown
    <3>3. shown[s][m.id] \in Nat
      BY <1>1, <3>2, ShownIsNat
    <3> QED BY <3>1, <3>2, <3>3 DEF FreshInv
  <2> HIDE DEF M
  <2>6. Promise!Take(s, M) /\ M \in SUBSET box
    BY <1>2, <2>1, <2>3, <2>5 DEF Promise!Take
  <2> QED BY <2>6 DEF Promise!Next
<1>4. ASSUME UNCHANGED <<me, batch, shown>>
      PROVE  UNCHANGED Promise!promise
  BY <1>2, <1>4 DEF Hands, Promise!promise
<1>5. CASE (\E s \in Session, m \in box : MarkRead(r, s, m)) \/ AllMarked(r)
  BY <1>4, <1>5 DEF MarkRead, MarkReads, AllMarked, readerVars
<1>6. ASSUME pc[r] # "idle", EndRead(r)
      PROVE  LET s == me[r]
             IN  /\ s \in Session /\ Hands[s] = batch[r]
                 /\ Hands' = [Hands EXCEPT ![s] = {}]
  <2> DEFINE s == me[r]
  <2>1. /\ s \in Session /\ me'[r] = None
    BY <1>1, <1>6 DEF EndRead, ReaderInv, MailTypes
  <2>2. ASSUME NEW q \in Reader \ {r} PROVE me[q] # s
    BY <1>6, <2>1 DEF FreshInv
  <2> HIDE DEF s
  <2>3. Hands[s] = batch[r] /\ Hands' = [Hands EXCEPT ![s] = {}]
    <3>1. me[r] = s
      BY DEF s
    <3> QED BY <1>1, <2>1, <2>2, <3>1, HandsMove
  <2> QED BY <2>1, <2>3 DEF s
<1>7. CASE Show(r)
  <2> DEFINE s == me[r]
  <2>1. /\ pc[r] # "idle" /\ EndRead(r)
        /\ shown' = [shown EXCEPT ![s] =
                       [i \in 1..MaxSends |->
                          IF \E m \in batch[r] : m.id = i
                          THEN @[i] + 1 ELSE @[i]]]
    BY <1>7 DEF Show
  <2>2. /\ s \in Session /\ Hands[s] = batch[r]
        /\ Hands' = [Hands EXCEPT ![s] = {}]
    BY <1>6, <2>1
  <2> HIDE DEF s
  <2>3. Promise!Show(s)
    BY <1>2, <2>1, <2>2 DEF Promise!Show
  <2> QED BY <2>2, <2>3 DEF Promise!Next
<1>8. CASE Kill(r)
  <2> DEFINE s == me[r]
  <2>1. pc[r] # "idle" /\ EndRead(r) /\ UNCHANGED shown
    BY <1>8 DEF Kill
  <2>2. s \in Session /\ Hands' = [Hands EXCEPT ![s] = {}]
    BY <1>6, <2>1
  <2> HIDE DEF s
  <2>3. Promise!Lose(s)
    BY <1>2, <2>1, <2>2 DEF Promise!Lose
  <2> QED BY <2>2, <2>3 DEF Promise!Next
<1> QED BY <1>3, <1>5, <1>7, <1>8 DEF ReaderActs, ReaderStep

LEMMA MailPromiseStep ==
  ASSUME ~Overlap, MailInv, JudgeInv, PostInv, FreshInv, [Next]_vars
  PROVE  Promise!Next \/ UNCHANGED Promise!promise
<1>1. CASE Tick
  <2>1. /\ now' = now + 1 /\ UNCHANGED <<project, sent, box, shown>>
        /\ Hands' = Hands
    BY <1>1 DEF Tick, sessionVars, readerVars, Hands
  <2> QED BY <2>1 DEF Promise!Tick, Promise!Next
<1>2. ASSUME NEW s \in Session, Move(s)
      PROVE  Promise!Next \/ UNCHANGED Promise!promise
  <2>1. /\ UNCHANGED <<now, sent, box, shown>> /\ Hands' = Hands
        /\ \/ UNCHANGED project
           \/ \E p \in Project : project' = [project EXCEPT ![s] = p]
    BY <1>2 DEF Move, readerVars, Hands
  <2>2. UNCHANGED Promise!promise \/ Promise!Move(s)
    BY <2>1 DEF Promise!Move, Promise!promise
  <2> QED BY <2>2 DEF Promise!Next
<1>3. CASE UNCHANGED vars
  <2>1. UNCHANGED <<now, project, sent, box, me, batch, shown>>
    BY <1>3 DEF vars, sessionVars, readerVars
  <2> QED BY <2>1 DEF Hands, Promise!promise
<1> QED BY <1>1, <1>2, <1>3, WhoActs, SendIsPost, ReadIsTake

\* Boxes, marks and markers, read and written one by one beside each other, do
\* what MailPromise says, for any sessions, projects, texts and processes.
THEOREM MailKeepsPromise == ~Overlap /\ Spec => PromiseKept
<1>1. Init => JudgeInv /\ FreshInv /\ PostInv /\ Promise!Init
  <2> SUFFICES ASSUME Init PROVE JudgeInv /\ FreshInv /\ PostInv /\ Promise!Init
    OBVIOUS
  <2>1. JudgeInv /\ FreshInv /\ PostInv
    BY DEF Init, JudgeInv, NoJob, FreshInv, PostInv
  <2>2. Hands = [s \in Session |-> {}]
    BY DEF Init, Hands
  <2>3. Promise!Init
    BY <2>2 DEF Init, Promise!Init
  <2> QED BY <2>1, <2>3
<1>2. CASE ~Overlap
  <2> DEFINE I == MailInv /\ JudgeInv /\ FreshInv /\ PostInv
  <2>1. I /\ [Next]_vars => I'
    BY <1>2, MailStep, JudgeStep, FreshStep, PostStep
  <2>2. I /\ [Next]_vars => [Promise!Next]_(Promise!promise)
    BY <1>2, MailPromiseStep
  <2> QED BY <1>1, <2>1, <2>2, MailBegins, PTL
          DEF Spec, PromiseKept, Promise!Spec
<1>3. CASE Overlap
  BY <1>3
<1> QED BY <1>2, <1>3
=============================================================================
