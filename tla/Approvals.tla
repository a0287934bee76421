----------------------------- MODULE Approvals -----------------------------
(***************************************************************************)
(* Approvals only the principal can grant (synthesis/approvals.py).        *)
(*                                                                         *)
(* A guard that blocks a call files a request under a code.  A prompt that *)
(* holds the code makes the prompt hook record a grant for the exact       *)
(* subject of the request.  The next call with this subject moves the      *)
(* grant aside, reads it, and goes through only if the harness's record of *)
(* its own session shows the principal typing the code after the request.  *)
(* Requests and grants are files that the hooks of every session share     *)
(* without a lock.  Each session has at most one guarded call and at most  *)
(* one prompt hook running; each file operation is a step, and a process   *)
(* can be killed between two of them.                                      *)
(***************************************************************************)
EXTENDS Naturals, FiniteSets

CONSTANTS
  Session,    \* sessions, each with a transcript of its own
  Caller,     \* the sessions that make guarded calls
  Prompted,   \* the sessions whose prompts hold codes
  Subject,    \* digests of what can be approved: one exact call each
  Code,       \* the codes request() can draw
  None,       \* the absence of a file, a code or a subject
  Untyped,    \* prompts the principal did not type reach the hook too
  TTL,        \* TTL_SECONDS, in ticks
  MaxNow,     \* bound on the clock
  MaxPrompts  \* bound on the prompts that name a code of one subject

ASSUME ApprovalsAssumption ==
  /\ None \notin Subject \cup Code
  /\ IsFiniteSet(Session)
  /\ Caller \subseteq Session
  /\ Prompted \subseteq Session
  /\ Untyped \in BOOLEAN
  /\ TTL \in Nat
  /\ MaxNow \in Nat \ {0}
  /\ MaxPrompts \in Nat

VARIABLES
  now,       \* time.time()
  pending,   \* pending[c]: approval-requests/<c>.json, or None
  grant,     \* grant[x]: approvals/<x>.json, or None
  spent,     \* spent[x]: approvals/<x>.spent, or None
  pc,        \* pc[s]: the next step of the guarded call of s
  subject,   \* subject[s]: what that call needs approved
  data,      \* data[s]: the grant it read
  code,      \* code[s]: the code it is about to file its request under
  hook,      \* hook[s]: the next step of the prompt hook of s
  named,     \* named[s]: the code its prompt holds
  request,   \* request[s]: the request it read
  typedAt,   \* typedAt[s][c]: when the principal last typed c in s; 0 = never
  shownFor,  \* shownFor[c]: the subject c was drawn for, or None
  issuedAt,  \* issuedAt[c]: when
  prompts,   \* prompts[x]: how many prompts have named a code of x
  passed     \* passed[x]: how many calls approvals have let through

disk == <<pending, grant, spent>>
callVars == <<pc, subject, data, code>>
hookVars == <<hook, named, request>>
history == <<shownFor, issuedAt, prompts, passed>>
vars == <<now, disk, callVars, hookVars, typedAt, history>>

Time == 0..MaxNow
Request == [subject : Subject, at : Time]
Grant == [code : Code, asked : Time, at : Time]

Expired(at) == at + TTL < now

Init ==
  /\ now = 1
  /\ pending = [c \in Code |-> None]
  /\ grant = [x \in Subject |-> None]
  /\ spent = [x \in Subject |-> None]
  /\ pc = [s \in Session |-> "idle"]
  /\ subject = [s \in Session |-> None]
  /\ data = [s \in Session |-> None]
  /\ code = [s \in Session |-> None]
  /\ hook = [s \in Session |-> "idle"]
  /\ named = [s \in Session |-> None]
  /\ request = [s \in Session |-> None]
  /\ typedAt = [s \in Session |-> [c \in Code |-> 0]]
  /\ shownFor = [c \in Code |-> None]
  /\ issuedAt = [c \in Code |-> 0]
  /\ prompts = [x \in Subject |-> 0]
  /\ passed = [x \in Subject |-> 0]

Tick == /\ now < MaxNow
        /\ now' = now + 1
        /\ UNCHANGED <<disk, callVars, hookVars, typedAt, history>>
-----------------------------------------------------------------------------
(* A guarded call: consume, then request unless the grant is good.         *)

EndCall(s) ==
  /\ pc' = [pc EXCEPT ![s] = "idle"]
  /\ subject' = [subject EXCEPT ![s] = None]
  /\ data' = [data EXCEPT ![s] = None]
  /\ code' = [code EXCEPT ![s] = None]

Call(s, x) ==
  /\ pc[s] = "idle"
  /\ pc' = [pc EXCEPT ![s] = "spend"]
  /\ subject' = [subject EXCEPT ![s] = x]
  /\ UNCHANGED <<now, disk, data, code, hookVars, typedAt, history>>

\* Mutant: the grant is read where it lies and stays there.
SpendCopies(s, x) ==
  /\ pc[s] = "spend" /\ subject[s] = x
  /\ grant[x] # None
  /\ spent' = [spent EXCEPT ![x] = grant[x]]
  /\ pc' = [pc EXCEPT ![s] = "read"]
  /\ UNCHANGED <<now, pending, grant, subject, data, code, hookVars, typedAt,
                 history>>

\* consume: os.replace moves the grant aside, so that one caller gets it.
Spend(s, x) ==
  /\ pc[s] = "spend" /\ subject[s] = x
  /\ grant[x] # None
  /\ spent' = [spent EXCEPT ![x] = grant[x]]
  /\ grant' = [grant EXCEPT ![x] = None]
  /\ pc' = [pc EXCEPT ![s] = "read"]
  /\ UNCHANGED <<now, pending, subject, data, code, hookVars, typedAt, history>>

NothingToSpend(s) ==
  /\ pc[s] = "spend"
  /\ grant[subject[s]] = None
  /\ pc' = [pc EXCEPT ![s] = "pick"]
  /\ UNCHANGED <<now, disk, subject, data, code, hookVars, typedAt, history>>

\* The spent file is read under its name: a second caller may have replaced
\* or removed it since.
ReadSpent(s) ==
  /\ pc[s] = "read"
  /\ data' = [data EXCEPT ![s] = spent[subject[s]]]
  /\ pc' = [pc EXCEPT ![s] = "judge"]
  /\ UNCHANGED <<now, disk, subject, code, hookVars, typedAt, history>>

Later(m, n) == IF m > n THEN m ELSE n

\* Mutant: a grant alone lets a call through, whoever typed its code.
BackedByGrant(s) == data[s] # None /\ ~Expired(data[s].at)

\* typed: the session's own record shows the code, typed after it was asked
\* for and no longer than the TTL ago.
Backed(s) ==
  /\ data[s] # None
  /\ ~Expired(data[s].at)
  /\ typedAt[s][data[s].code] > data[s].asked
  /\ typedAt[s][data[s].code] + TTL > now

LetThrough(s, x) ==
  /\ pc[s] = "judge" /\ subject[s] = x
  /\ Backed(s)
  /\ passed' = [passed EXCEPT ![x] = @ + 1]
  /\ spent' = [spent EXCEPT ![x] = None]
  /\ EndCall(s)
  /\ UNCHANGED <<now, pending, grant, hookVars, typedAt, shownFor, issuedAt,
                 prompts>>

\* The grant is spent all the same, and the request is filed again.
NotBacked(s, x) ==
  /\ pc[s] = "judge" /\ subject[s] = x
  /\ ~Backed(s)
  /\ spent' = [spent EXCEPT ![x] = None]
  /\ pc' = [pc EXCEPT ![s] = "pick"]
  /\ UNCHANGED <<now, pending, grant, subject, data, code, hookVars, typedAt,
                 history>>

Kept(r) == IF r = None THEN None ELSE IF Expired(r.at) THEN None ELSE r

\* Mutant: whatever request is pending lends its code.
PickAnyPending(s, c) ==
  /\ pc[s] = "pick"
  /\ pending' = [d \in Code |-> Kept(pending[d])]
  /\ grant' = [x \in Subject |-> Kept(grant[x])]
  /\ IF \E d \in Code : pending'[d] # None
     THEN pending'[c] # None /\ UNCHANGED <<shownFor, issuedAt>>
     ELSE /\ shownFor[c] = None
          /\ shownFor' = [shownFor EXCEPT ![c] = subject[s]]
          /\ issuedAt' = [issuedAt EXCEPT ![c] = now]
  /\ code' = [code EXCEPT ![s] = c]
  /\ pc' = [pc EXCEPT ![s] = "file"]
  /\ UNCHANGED <<now, spent, subject, data, hookVars, typedAt, prompts, passed>>

\* request: files past the TTL are dropped; a retry keeps its code, a new
\* request draws one that was never used.
Pick(s, c) ==
  /\ pc[s] = "pick"
  /\ pending' = [d \in Code |-> Kept(pending[d])]
  /\ grant' = [x \in Subject |-> Kept(grant[x])]
  /\ LET mine == {d \in Code : /\ pending'[d] # None
                               /\ pending'[d].subject = subject[s]}
     IN IF mine # {} THEN c \in mine /\ UNCHANGED <<shownFor, issuedAt>>
        ELSE /\ shownFor[c] = None
             /\ shownFor' = [shownFor EXCEPT ![c] = subject[s]]
             /\ issuedAt' = [issuedAt EXCEPT ![c] = now]
  /\ code' = [code EXCEPT ![s] = c]
  /\ pc' = [pc EXCEPT ![s] = "file"]
  /\ UNCHANGED <<now, spent, subject, data, hookVars, typedAt, prompts, passed>>

\* The request is written, with the time of this try, and the call refused.
File(s) ==
  /\ pc[s] = "file"
  /\ pending' = [pending EXCEPT ![code[s]] =
                   [subject |-> subject[s], at |-> now]]
  /\ EndCall(s)
  /\ UNCHANGED <<now, grant, spent, hookVars, typedAt, history>>
-----------------------------------------------------------------------------
(* A prompt with a code reaches the UserPromptSubmit hook of its session.  *)

EndHook(s) ==
  /\ hook' = [hook EXCEPT ![s] = "idle"]
  /\ named' = [named EXCEPT ![s] = None]
  /\ request' = [request EXCEPT ![s] = None]

\* The principal types a code: the harness records the prompt and runs the
\* hook.  Other text can reach the hook as a prompt without being typed.
\* Either way a code is random: nobody names one before it is drawn.
Prompt(s, c, isTyped) ==
  /\ hook[s] = "idle"
  /\ isTyped \/ Untyped
  /\ shownFor[c] # None
  /\ hook' = [hook EXCEPT ![s] = "read"]
  /\ named' = [named EXCEPT ![s] = c]
  /\ typedAt' = IF isTyped THEN [typedAt EXCEPT ![s] = [@ EXCEPT ![c] = now]]
                ELSE typedAt
  /\ UNCHANGED <<now, disk, callVars, request, history>>

\* grant_from_prompt: the request of the code ...
ReadRequest(s, c) ==
  /\ hook[s] = "read" /\ named[s] = c
  /\ pending[c] # None
  /\ prompts[pending[c].subject] < MaxPrompts
  /\ request' = [request EXCEPT ![s] = pending[c]]
  /\ prompts' = [prompts EXCEPT ![pending[c].subject] = @ + 1]
  /\ hook' = [hook EXCEPT ![s] = "grant"]
  /\ UNCHANGED <<now, disk, callVars, named, typedAt, shownFor, issuedAt,
                 passed>>

\* ... is not there: the hook only says so ...
NoRequest(s) ==
  /\ hook[s] = "read"
  /\ pending[named[s]] = None
  /\ EndHook(s)
  /\ UNCHANGED <<now, disk, callVars, typedAt, history>>

\* ... or becomes a grant of its subject, and is removed.
WriteGrant(s, x) ==
  /\ hook[s] = "grant" /\ request[s].subject = x
  /\ grant' = [grant EXCEPT ![x] = [code |-> named[s],
                                    asked |-> request[s].at, at |-> now]]
  /\ hook' = [hook EXCEPT ![s] = "unlink"]
  /\ UNCHANGED <<now, pending, spent, callVars, named, request, typedAt,
                 history>>

RemoveRequest(s) ==
  /\ hook[s] = "unlink"
  /\ pending' = [pending EXCEPT ![named[s]] = None]
  /\ EndHook(s)
  /\ UNCHANGED <<now, grant, spent, callVars, typedAt, history>>
-----------------------------------------------------------------------------
\* The harness kills a hook that runs out of time, or the computer stops.
Crash(s) ==
  \/ /\ pc[s] # "idle"
     /\ EndCall(s)
     /\ UNCHANGED <<now, disk, hookVars, typedAt, history>>
  \/ /\ hook[s] # "idle"
     /\ EndHook(s)
     /\ UNCHANGED <<now, disk, callVars, typedAt, history>>

CallStep(s) ==
  \/ \E x \in Subject : \/ Call(s, x) \/ Spend(s, x)
                        \/ LetThrough(s, x) \/ NotBacked(s, x)
  \/ NothingToSpend(s) \/ ReadSpent(s) \/ File(s)
  \/ \E c \in Code : Pick(s, c)

HookStep(s) ==
  \/ \E c \in Code : \/ ReadRequest(s, c)
                     \/ \E isTyped \in BOOLEAN : Prompt(s, c, isTyped)
  \/ \E x \in Subject : WriteGrant(s, x)
  \/ NoRequest(s) \/ RemoveRequest(s)

Next ==
  \/ Tick
  \/ \E s \in Caller : CallStep(s)
  \/ \E s \in Prompted : HookStep(s)
  \/ \E s \in Session : Crash(s)

Spec == Init /\ [][Next]_vars
-----------------------------------------------------------------------------
TypeOK ==
  /\ now \in Time
  /\ pending \in [Code -> Request \cup {None}]
  /\ grant \in [Subject -> Grant \cup {None}]
  /\ spent \in [Subject -> Grant \cup {None}]
  /\ pc \in [Session -> {"idle", "spend", "read", "judge", "pick", "file"}]
  /\ subject \in [Session -> Subject \cup {None}]
  /\ data \in [Session -> Grant \cup {None}]
  /\ code \in [Session -> Code \cup {None}]
  /\ hook \in [Session -> {"idle", "read", "grant", "unlink"}]
  /\ named \in [Session -> Code \cup {None}]
  /\ request \in [Session -> Request \cup {None}]
  /\ typedAt \in [Session -> [Code -> Time]]
  /\ shownFor \in [Code -> Subject \cup {None}]
  /\ issuedAt \in [Code -> Time]
  /\ prompts \in [Subject -> Nat]
  /\ passed \in [Subject -> Nat]

\* However calls, retries, prompt hooks and kills of several sessions meet, a
\* subject never passes more often than prompts have named a code of it
\* (approvals.py:10, "lets exactly one matching call through").
OneCallPerPrompt == \A x \in Subject : passed[x] <= prompts[x]

\* A call goes through only if the principal typed, in the session that makes
\* it, within the TTL, a code drawn for this very subject, and did so after
\* the code was drawn (approvals.py:8, 143-155, 175-180).
OnlyBackedCallsPass ==
  [][\A x \in Subject : passed'[x] # passed[x] =>
       \E s \in Session, c \in Code :
         /\ subject[s] = x
         /\ shownFor[c] = x
         /\ typedAt[s][c] > issuedAt[c]
         /\ now - typedAt[s][c] <= TTL]_vars

\* The calls of x that prompts have bought and that were not made.
Credit == [x \in Subject |-> prompts[x] - passed[x]]

\* Files, hooks and processes that race and die keep the promise of
\* ApprovalPromise.tla: every code is drawn once, and each call that passes
\* uses up one prompt and shows its code typed (approvals.py:3-12).
Promise == INSTANCE ApprovalPromise
             WITH calling <- subject, drawnFor <- shownFor,
                  drawnAt <- issuedAt, credit <- Credit

PromiseKept == Promise!Spec
=============================================================================
