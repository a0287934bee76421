# The synthesis runtime in TLA+

The runtime under `synthesis/` lets several agent sessions of one person work on one
computer. It has no server: a session is a sequence of short processes (four hooks that
the harness starts, and `synthesis` commands) and everything the sessions know of each
other is in files under `~/.synthesis/v5`, in the repositories they share, and in the files
some skills keep. So the interesting behaviour is in what two processes do to the same
file, what a process killed halfway leaves behind, and what is read at one time and used at
another. The modules here model exactly that: one action per file read or write or git
command, processes of all sessions interleaved, kills between any two steps.

Contents: [the system](#1-the-system), [the modules](#2-the-modules),
[the runs](#3-what-the-runs-check), [fairness](#4-fairness),
[the proofs](#5-what-is-proved), [findings](#6-where-code-and-text-disagree),
[abstractions](#7-what-the-models-leave-out), [the plan](#8-plan).

## 1. The system

Processes of one session mostly run one after the other (the harness waits for its hooks,
the agent for its commands); processes of different sessions run at any time. Python's
`os.replace` makes each write of a JSON file atomic (`paths.write_json`), an unreadable or
missing file reads as empty (`paths.read_json`), and only two operations take a file lock:
deciding a claim, and exporting or syncing the archive. A hook is killed by the
harness after 5 or 10 seconds (`hooks/hooks.json`).

| Component | State | Operations | Meets others through |
|---|---|---|---|
| Board: claims (`board.py`) | one record per session (project, claims, ceded, last seen), `claims.lock`, `claims.jsonl` | touch, claim, claim with `--take`, release | the records, which `claim` of one session reads and rewrites for another; every hook touches |
| Board: messages (`board.py`, `hook.py`, `cli.py`) | one file per message in the box of a session or project, a read marker per reader, a broadcast mark per sender and text | message, inbox, the prompt hook | boxes; liveness and project from the session records |
| Approvals (`approvals.py`) | pending requests by code, grants by digest of the call, spent grants; the transcript of each session | request, grant_from_prompt, consume | a PreToolUse hook asks, a UserPromptSubmit hook grants, possibly of different sessions |
| Send window (`sends.py`, `guards.py`) | `window.json`, one ledger per day | open, close, covered, log, settle | the guards of all sessions; falls back on approvals |
| Turn end (`hook.py`, `autopilot.py`, `reply_check.py`) | a marker per session, a pointer with a count and a digest, the plan file | the Stop hook | the harness's repeat flag; plan and pointers shared by sessions |
| Autopilot commands (`autopilot_cli.py`) | the plan file, its claim, the pointer | engage, takeover, cycle, close | the plan file, edited by agents; the board |
| Deploy brake (`guards.py`) | the time of the last deploy of each site | check_deploy | approvals; the guards after it |
| Browser (`guards.py`) | the selected browser, the transcripts | check_browser | one extension for all sessions |
| Project index (`checkout.py`) | `projects/index.yaml` in HEAD, in git's index and in the working file | index_set | edits, staging and commits of others |
| Handoff (`project.py`) | the repository of project records and its remote | handoff; resume, brief and check only read | claims on the board, git, other machines |
| Worktrees (`worktree.py`) | git worktrees and branches | create, land, retire | claims, git |
| Install (`install.py`) | the `current` symlink, releases, an old board to be merged | install, forward_only, move_board | all sessions, which may load different releases |
| Archive (`sessions.py`) | segments, offsets, a lock, the sync state | export, sync | transcripts, git |
| Commit check (`commit_check.py`) | the file of approved lines | problems (run by git's pre-commit hook) | approvals, the index and HEAD of the repository |
| Holds (`holds_state.py`) | a log of events | place, amend, release | the log, appended to by all seats |
| Direct messages (`messages_send.py`) | a record per text and recipient | send | the approval of the send |
| Ritual watermarks (`sync_watermark.py`) | one store of marks and deferrals | begin, window, advance, defer, status | the store, which every command writes whole |
| Release (`release.py`) | the tag, every remote, the GitHub release, the tap's pull request and formula, what each harness has installed | preflight, publish, install, verify | the board (the train), one checkout for all sessions, CI, GitHub |
| Guards' shell reading, rituals, doctor, YAML reader, CLI, other skill scripts, installer | a log of day ends; files of one skill | pure reports and text functions | files of the others |

What makes each of them correct, and what is hard about it:

- **Claims.** No two sessions hold overlapping claims; a claim is lost only by its owner's
  release or by a takeover of a stale session, which is announced, logged and kept under
  `ceded`; the lock is always let go. Hard: `touch` and `release` write a record they loaded
  under no lock, while `claim` rewrites other sessions' records under one.
- **Messages.** Each is shown to each of its readers, once; a text goes to one session and is
  not broadcast. Hard: markers are set before printing, sessions move between projects and
  fall silent between two reads, senders die between mark and message.
- **Approvals.** One prompt lets one call through: the very call the code was drawn for, in
  the session it was typed in, within 15 minutes. Hard: four files and two kinds of process
  without a lock, retries that keep a code, kills that leave a request behind its grant.
- **Send window.** Never more sends than planned, every send in the ledger, the window closed
  by its last. Hard: counting and logging are separate steps, the window is judged and removed
  in separate steps, and the ledger changes file at midnight.
- **Turn end.** Two checks may each send a turn back, and must together let every turn end;
  a bad reply is revised once, an unfinished run is asked to go on at most `max_continuations`
  times, and the person is told when it is let go. Hard: the memory between stops is in two
  files that interrupted turns and failed hooks leave in any state.
- **Autopilot commands.** No entry of a plan is undone, and a running plan's owner has its claim.
  Hard: read, claim, write and point are steps of their own, and takeover releases the claim
  of another before it takes it.
- **Deploy brake.** A site is not deployed twice within the window without a stronger approval.
  Hard: two sessions judge before either writes its time; the write empties the file first.
- **Browser.** A session acts in the browser of its own workspace. Hard: one extension for all,
  and a confirmation that is read, checked in a transcript and written back.
- **Files shared in a checkout.** `index set` commits its own field and nothing of others;
  `retire` removes no work; `handoff` says READY only when another machine can go on. Hard:
  every git command is a moment at which others may edit, stage, commit, push or switch.
- **Install, board move.** `current` always leads to a whole release, and hooks go forward;
  no claim and no line is lost in the move. Hard: several processes, none with a lock.
- **Archive and sync.** Every row of a transcript is archived, once; what counts as synced was
  committed and pushed. Hard: a kill between appending and saving the offset, a transcript
  rewritten by its harness, commits that are refused and pushes that fail.
- **Commit check.** No disclosing text is committed that was approved nowhere, and no approval is asked for twice.
  Hard: several commits share one index, one file of approved lines and one HEAD, in which each looks for text that only moved.
- **Release.** What is called complete is true at every remote, at GitHub, at Homebrew and in every harness,
  and only a commit that CI passed becomes stable. Hard: every call may fail after it took effect, stages run again,
  HEAD moves under them, and pull requests outlive the runs that opened them.
- **Holds, direct messages, watermarks.** A hold is what its events say; a message goes out at
  most once, whatever was killed; nothing counts as read that was not. Hard: checks against a
  log that others append to, a send call whose end is unknown, whole stores written back.

## 2. The modules

| Module | Models |
|---|---|
| `ClaimPromise` | what the board promises of claims: free claims are acquired, given up, or taken over into `ceded` |
| `Board` | `board.py` claims, step by step; implements `ClaimPromise` |
| `ApprovalPromise` | what approvals promise: a prompt buys one call of what its code was drawn for, typed in the caller's session |
| `Approvals` | `approvals.py`, with the calls and prompts that use it; implements `ApprovalPromise` |
| `SendPromise` | what the send window promises: a call goes out booked, under an approval or within what was granted |
| `Sends` | `sends.py` with `check_send`, `check_desktop` and `check_outgoing` of `guards.py`; implements `SendPromise` |
| `MailPromise` | what the board promises of messages: one recipient per text for some hours, each message shown to a session once or never |
| `Mailbox` | messages of `board.py`, the prompt hook of `hook.py`, `synthesis inbox` of `cli.py`; implements `MailPromise` where commands of one session do not overlap |
| `Turn` | the Stop hook and `autopilot.evaluate` |
| `PlanFile` | `autopilot_cli.py`: engage, takeover, cycle, close |
| `ProjectIndex` | `checkout.index_set` |
| `Worktree` | `worktree.py`: create, retire, land |
| `Handoff` | `project.handoff` |
| `Deploy` | `check_deploy` of `guards.py` |
| `Archive`, `SessionSync` | export, and sync, of `sessions.py` |
| `Install`, `BoardMove` | install, and move_board, of `install.py` |
| `CommitCheck` | problems, scan and unapproved of `commit_check.py` |
| `Publish` | `release.py` of the skills manager, with the installs of `setup.py` it calls |
| `Browser` | `check_browser` of `guards.py` |
| `Holds` | `holds_state.py` of the chief of staff |
| `DirectSend` | `messages_send.py` of local messaging |
| `Watermark` | `sync_watermark.py` of the daily rituals |
| `MCBoard`, `MCApprovals`, `MCSends`, `MCMailbox`, `MCTurn` | model values and definitions for TLC |
| `MCRecords`, `MCMachine`, `MCOutside` | several components side by side, for one run each |
| `BoardProofs`, `ApprovalsProofs`, `SendsProofs`, `MailboxProofs`, `TurnProofs` | theorems about these modules and their proofs |
| `RecordsProofs` | of `Worktree`, `PlanFile`, `ProjectIndex` and `Handoff` |
| `MachineProofs` | of `Install`, `Publish`, `CommitCheck`, `Deploy`, `BoardMove` and `SessionSync` |
| `OutsideProofs` | of `Browser`, `DirectSend`, `Watermark`, `Holds` and `Archive` |

All have a program counter (or a step in a record) per process and an action per file
operation or git command. Components that meet do so through promises of each other: a claim
changes in one step in `Worktree`, `Handoff` and `PlanFile`, as `ClaimPromise` has it and `Board` is shown to
implement; an approval is there or not in `Sends`, `Deploy` and `CommitCheck`, and `Approvals`
shows what it takes. Apart from that they share no variable, so `MCRecords`, `MCMachine` and
`MCOutside` run several in one state space: a variable `part` names the component that
runs, and the others stay in their initial state.

Four components have an abstract specification beside them, small enough to be read as the contract: what a session may count
on, without files, locks, retries and kills. Each is instantiated in the detailed module as `Promise`, checked as
`PromiseKept` on its run and proved for every value of the constants. In it a claim is held or ceded; a prompt is a credit that one call uses up; a
message is posted, in the hands of one process, and shown or lost with it; a call goes out after its lines were booked. What the
code does not deliver is in the contract as well: calls that overlap may exceed a plan by `Slack`, and a hook may be an hour behind.

**Board.** `file[s]` is the saved record of a session; `copy[s]`, `scanned[s]`, `want[s]`,
`take[s]` are the local variables of its one process. `TouchLoad`/`TouchSave` and
`ReleaseLoad`/`ReleaseSave` are the two halves of the unlocked operations. `ClaimLock`, one
`Scan` per other session, `Refuse` or `Decide`, `Cede` and `Notify` per stale holder, `Enter`
(its touch), `Grant` and `Log` are `_claim` in the order of the code. `Crash` ends a process
anywhere and frees its lock, as the kernel does. Claims are model values; which ones overlap
is the constant `Overlap`. `lastClaimant` is `claims.jsonl` as `checkout.last_claimant` reads
it: the last row that overlaps a claim. `OwnersStayQuiet` is an assumption some runs make: no
session starts or is amid a process while another takes its stale claims.

**Approvals.** `pending`, `grant` and `spent` are the three kinds of file. A guarded call is
`Spend` or `NothingToSpend`, `ReadSpent`, `LetThrough` or `NotBacked`, `Pick`, `File`; a prompt
is `Prompt`, `ReadRequest` or `NoRequest`, `WriteGrant`, `RemoveRequest`. `Pick` includes the
sweep of expired files. `typedAt` is the harness's transcript, which `Backed` consults as the
code does. `shownFor`, `issuedAt`, `prompts` and `passed` are history variables for the
properties.

**Sends.** `file` is the window, `ledger` the lines of all days with the day each was written
to. A call reads the window and counts (`ReadWindow`, then `Covered` or `NotCovered`) once per
channel it posts to, or asks for an approval; then it stamps and appends a line per channel,
and settles: reads the window again, tallies, unlinks. The principal's `open` is stamp, then
write. `now` counts hours, for days and the window's end; `seq` orders what happens within one. `granted` is a history variable: every
window the principal opened, also those that were replaced before anyone read them.

**Mailbox.** A box never loses a message; `read[s]` are the markers of a session. `message` is
`Anyone`, `Resolve` or `Unresolved`, then the judgement of the mark (`Allow` or `RefuseBroadcast`), `Mark` and `Post`; a durable
message goes straight to `Post`. A reader picks its batch (`Look`: the oldest few at a prompt, all for
`synthesis inbox`), sets one marker per step (`MarkRead`), then prints (`Show`). `Move` changes
a session's project or its liveness at any time.

**Turn.** `marker[s]` and `pointer[s]` are the two files, `plan` the plan with its owner, what
its body amounts to, and its ledger. A stop is `Reply`, `Revise` or `ReplyPasses`, then
`NothingToAsk`, `Ask` or `LetGo`, `Mark`, and `SendBack` or `EndTurn`; `Fail` ends it at any step
(the hook's `except` and the harness's kill), and may leave an empty marker. The commands the
agent runs within its turn and its own edits are one step each here; their steps are in `PlanFile`.

**PlanFile.** `text` is the plan with its owner, its status and the entries it has, each entry
written once; a command holds the text it read and writes it back with its own change. Claim,
release, pointer and status are steps in the order each command has them. `silent` are owners
from whom nothing was heard for long enough to be taken over.

**ProjectIndex, Worktree, Handoff.** What git holds is reduced to what the properties tell
apart. In `ProjectIndex` a file is a value per field, in HEAD, in the git index, in the blob that
is built and in the working file; every edit writes a new value, which tells whose it is. In `Worktree`
and `Handoff` work is counted in pieces, and a commit, a branch or a remote is the set of pieces
it holds, so that "is merged" and "can be fast-forwarded" are subset relations. A push may land
although its answer is lost, and the remote may move between fetch and push. `late` and `switched`
are history variables for the cases the properties except.

**Deploy.** A time is kept as how long ago it was, up to the window; an empty file reads as never.
`ReadRecord` once per site, `SpendApproval` or `AskApproval`, `OpenRecord` (which empties the
file) and `FillRecord`, then `LetDeploy`, or `RefuseDeploy` by a later guard.

**Archive, SessionSync.** `native` is the harness's file, `segments` what was archived, `known` the
state file: which reading of the native file it is about, the offset and the next number. An export
holds the lock from its first look to its last write; killed, it leaves a torn last line and an
old offset. `SessionSync` copies, commits a month at a time, pulls, pushes and saves; each can fail.

**Install, BoardMove.** An install reads the version, later the hash, builds, places and switches, with
others between any two steps. In the move a file is a bag of items and its name is there or not, on
either side; `MoveNext` is testing, renaming, writing the merge and archiving, one name at a time.

**CommitCheck.** A line is a text in a place (a file); catalogs are files in which no text discloses. The approved lines are
read first (`ReadAllowed`), the staged lines that HEAD has not next (`ReadStaged`), and those whose text HEAD has anywhere by then, in a catalog
or in the place it stays in, count as moved (`PassMoved`, `InHead`). Each other line is judged and its approval spent, the file is written whole, and git commits
whatever is staged by then. HEAD holds any lines at first. History variables: `unasked`, texts that got into HEAD unjudged; `excused`, lines of HEAD
that were unjudged or passed as moved; `lost`, approvals that are gone.

**Publish.** `head` is the shared checkout, `tags` its tags, `published` the refs of each remote, `github` and `formula` what
visitors get; `release[p]` is a run with the version and the commit its preflight judged. Each git or GitHub command is a step: a push
moves all refs or none and its answer is not read, a read-back compares the remote with the HEAD that publish read. `Retry` starts the stage
again, `Stops` ends the run and keeps the train. `offered` and `installed` are the two things a harness's commands change. Remotes and
harnesses have their turns in the order of the code. `adrift` is a history variable: what was pushed after HEAD moved.

**Browser.** `selection` is the guard's file, `result[s]` what the transcript of a session shows of its
last selection, `extension` whose selection was carried out last. Reading the file, finding the
selection in the transcript and writing it back as confirmed are separate steps.

**Holds.** `log` is the file; `HoldIn(n)` is the replay of its first n events, by a recursive function.
A release is checked against the log in one step and appended in another.

**DirectSend.** A record is written to a draft and put in place, before the send call as `uncertain` and after it
as what is known. Overlapping runs of one text share the draft, and `NoDraft` is the run that finds it gone.

**Watermark.** Moments are numbers, and a mark is the moment up to which its key was read. Every
command that changes the store loads it whole and writes it whole. History variables: `reads`, what was really read; `begun` and `deferred`, when that was
last done; `highest`, the highest mark each key ever had; `lost`, the keys whose mark a copy loaded before has put back; `undone`, that
such a copy has put back the run.

## 3. What the runs check

| Run | Question | Properties |
|---|---|---|
| `board_claims` | Does the board keep its promise while owners stay quiet under a takeover, with kills? | `Exclusive`, `OnlyStaleLoses`, `PromiseKept` |
| `board_told` | Without kills, but with owners that wake during a takeover: is every takeover announced and logged, is a path shared only with one who was told, and does every decision end? | `RobbedIsTold`, `HolderIsLastClaimant`, `SharedIsTold`, `DecisionEnds` |
| `board_race` | An owner that wakes while it is taken from | `Exclusive`, violated |
| `approvals` | Two sessions make the same call, or one makes two, with prompts nobody typed and files that expire between any two steps | `OneCallPerPrompt`, `OnlyBackedCallsPass`, `PromiseKept` |
| `sends_crowd` | Calls that overlap, to two channels each | `OvershootBounded`, `PromiseKept`, `SpentCloses` |
| `sends_reopened` | A window opened while the last one settles | `ClosedByItsLast`, violated |
| `mailbox` | Messages while sessions move, fall silent and are prompted, with senders killed | `ShownOnce`, `ReadIsShown`, `OneRecipient`, `PromiseKept`, `EveryMessageShown` |
| `turn` | Two sessions, one plan, good and bad replies, interruptions, failing hooks | `AsksInTurn`, `AsksForPlan`, `NeverTwice`, `BadRepliesRevised`, `LetGoIsTold`, `TurnEnds` |
| `records` | Commands on files that sessions share in a checkout and the check of their commits, with others at work between any two steps | `ApprovedLines`, `WorkKept`, `ReadyIsTrue`, `PlanKept` |
| `machine` | What hooks, commands and a release keep in files of the machine and at its remotes, several at once, killed anywhere | `ArchiveKept`, `SyncKept`, `BoardKept`, `RapidIsApproved`, `InstallKept`, `PublishKept` |
| `outside` | What the program keeps of the world outside: sends one at a time, scripts' messages, holds, marks, the browser; and the projects index | `PlannedSends`, `ReachedOnce`, `HoldsKept`, `MarksKept`, `OwnBrowser`, `OthersEditsKept` |
| `marks_backwards` | A copy of the store written back after another session advanced a mark | `NeverBackwards`, violated |

Every property of a passing run has a mutant beside the definition it changes (its comment
begins with "Mutant"): a plausible bug of that code, under which TLC finds the property violated.

Many properties name exceptions ("unless ..."). Each exception is a case in which the code does
lose, repeat or mistake something, found by TLC while the property was stated without it; it is part
of the property so that everything else stays checked. Section 6 lists them.

**Bounds**, and why they are enough:

- *Board*: two sessions, a folder, a file in it and a file elsewhere, requests for the folder
  and for both files. Overlap is neither identity nor total, and a request can be partly in the
  way. `StaleAfter = 0` and a clock of two ticks: a session is live in the first and stale in
  the second, and the takeover can fall before, at and after the change. The theorem
  `BoardExclusive` covers more sessions, where a taker robs several.
- *Approvals*: `TTL = 1`; a behaviour is about one subject, called by two sessions, or about one session, which calls about
  two subjects (`about` in `MCApprovals`). Two sessions are needed for a code typed in the wrong one, two subjects for a second code,
  drawn when the first is used up or has expired; files carry no session, so that the two meet in no file. With one session, prompts may
  be untyped and the clock goes to 3; with two they are typed and it goes to 2: a request, a grant and a typed code expire before and
  after each other. `MaxPrompts = 1` makes one prompt per subject worth at most one call. The theorems cover any number.
- *Sends*: one session is enough for calls that do not overlap, and the plan of up to two sends
  leaves one to overshoot by. `Day = MaxHours = 2` and a clock of 0 to 2: a window opened in
  hour 0 or 1 spans midnight. With more than one day per window the day in between would not
  be counted, but `MAX_HOURS` is at most a day (assumed in `SendsAssumption`). In the crowd, a plan of
  one send, two sessions and three calls let one call overshoot and another come after.
- *Mailbox*: three sessions (a sender and two to choose between), one project, one text sent
  twice with an hour in between or not, a batch of one so that a second message waits. One
  process per kind runs at a time, which leaves the interleaving of a sender with a reader and
  with moves. One text suffices because nothing relates marks of different texts.
- *Turn*: a limit of two requests, two turns and two engagements in all: a turn
  can be asked twice, let go, engaged anew, taken over by the other session, and followed by a
  turn that finds what it left.
- *records*: two commits, two files and one text: a line in each of two places is enough for a text that moves, stays or is copied,
  and a catalog is one of the two or neither. Texts meet only in the file of approved lines, which two places share as well. One approval
  of each line. Two sessions on one worktree and one piece of work:
  the four ways of being merged all say that the default branch holds every piece of a branch, which
  two pieces do not change, and a branch that holds nothing is one whose work is all merged. A handoff with an
  outsider, two documents, two branches and two changes: one may be the session's and one not.
  A plan with four entries: two commands, and edits between and after them. Nothing tells one commit from the other, one document
  from the other or one file from the other, hence the symmetry.
- *machine*: two callers, two sites and commands that push one, both, or one twice; a transcript of five rows,
  one of them long, segments of three units and one rewrite, so that rotation, a torn line and a file that
  shrank or grew all occur; two archived sessions, two records and one rebuild; two installs of three
  releases, begun four times; two movers and three items in two names; two
  releasing sessions that nothing tells apart (hence the symmetry), two runs, two remotes and two commits of two versions, which lets
  HEAD move once; a third run finds nothing more (2.6 million states of `Publish` alone, not kept as a run for its length).
- *outside*, beside the sends: two runs of the script on two texts, and two calls that reach anyone, so that
  a second one of one text would show; one hold of one day by two seats, with three events; one surface with a local target, two
  sessions, three moments and three loads, two of which can write over each other's; three sessions, two of one workspace;
  two runs of `index set` on two fields and three values written in all: both commands and one edit of another, or one command and two.
  The theorems of section 5 hold for any number of all of them.

`CHECK_DEADLOCK FALSE` stands in the runs whose calls, sends, turns or commands are bounded:
when all are over the system has nothing left to do.

## 4. Fairness

- *Board*, `FairSpec`: a process that has started is scheduled until it ends (weak fairness of
  its next step). `board_told`, which checks it, has no kills: a killed process ends at once and the kernel frees its lock. Nothing is assumed of when sessions start one.
- *Sends*, `LiveSpec`: within one hour, a hook that is not killed runs to its end. A kill between
  the last line and `settle` would leave the window for the next call or the clock to end; `Spec`
  has the kills and the clock.
- *Mailbox*, `LiveSpec`: a hook or command that shows messages runs to its end (weak), and every
  session is prompted again and again (strong, because moves and other readers make a prompt
  come and go). The second is an assumption about people: a session that is never prompted is
  never shown anything. Senders need no fairness; a message that is not posted need not be shown.
- *Turn*, `LiveSpec`: an agent at work ends its reply at some time (weak fairness of `Replies`), and
  the hook runs to its end (weak). `Fail` and `Interrupt` are free to happen or not. Engagements
  are bounded: an agent that engages its plan again before every stop resets the count each
  time and could be sent back for ever, which is what the code does and intends.
- All other modules state safety alone and assume no fairness. What they model is commands that end
  by themselves and of which none waits for another: the code promises nothing of when
  they are run.

## 5. What is proved

TLC checks one small instance; the theorems hold for every value of the constants that satisfies
the named assumption of the module. They are in eight modules: one each for `Board`, `Approvals`, `Turn`, `Mailbox` and
`Sends`; `RecordsProofs` for what sessions share in a checkout, `MachineProofs` for the machine and the release, and
`OutsideProofs` for the scripts, the browser and the archive.

| Theorem | Says | Rests on |
|---|---|---|
| `BoardTypes` | `Spec => []TypeOK` | `BoardAssumption` |
| `BoardExclusive` | `Undisturbed /\ Spec => []Exclusive` | `BoardAssumption` |
| `BoardKeepsPromise`, `BoardLoses`, `BoardRecords` | `PromiseKept` (the safety of `ClaimPromise`), `OnlyStaleLoses` and `CededOnRecord`, under `Undisturbed` | `BoardAssumption` |
| `BoardTells`, `BoardNames`, `BoardShares` | `RobbedIsTold`, `HolderIsLastClaimant` and `SharedIsTold`, for boards on which no process is killed (`~Crashes`) | `BoardAssumption` |
| `ApprovalTypes`, `ApprovalBacked` | `TypeOK` always, and `OnlyBackedCallsPass` | `ApprovalsAssumption` |
| `ApprovalOnce` | `Spec => []OneCallPerPrompt` | `ApprovalsAssumption`, finitely many sessions |
| `ApprovalKeepsPromise` | `Spec => PromiseKept` (the safety of `ApprovalPromise`) | `ApprovalsAssumption`, finitely many sessions |
| `SendsTyped`, `SendsAccounted`, `SendsOvershoot` | `TypeOK`, `Accounted` and `OvershootBounded` always | `SendsAssumption` |
| `SendsKeepPromise` | `Spec => PromiseKept` (the safety of `SendPromise`, with the `Slack` of calls that overlap) | `SendsAssumption` |
| `SendsAsPlanned` | `Alone /\ Spec => []PlannedSends` | `SendsAssumption` |
| `MailTyped` | `MailTypes` always | `MailboxAssumption` |
| `MailGoesToOne`, `MailShownOnce` | `OneRecipient` and `ShownOnce`, where commands and hooks of one session do not overlap (`~Overlap`) | `MailboxAssumption` |
| `MailKeepsPromise` | `~Overlap /\ Spec => PromiseKept` (the safety of `MailPromise`) | `MailboxAssumption` |
| `MailReadIsShown` | `ReadIsShown`, where readers are not killed | `MailboxAssumption` |
| `TurnTypes`, `TurnAsks`, `TurnPlanAsks` | `TypeOK`, `AsksInTurn` and `AsksForPlan` always | `TurnAssumption` |
| `TurnNeverTwice`, `TurnRevises`, `TurnTells` | `NeverTwice`, `BadRepliesRevised` and `LetGoIsTold` always | `TurnAssumption` |
| `WorktreeTyped`, `WorktreeWorkKept` | `WorktreeTypes` and `WorkKept` always | `WorktreeAssumption` |
| `PlanTyped`, `PlanIsKept` | `PlanTypes` and `PlanKept` always | `PlanAssumption` |
| `IndexTyped`, `IndexKeepsEdits` | `IndexTypes` always, and `OthersEditsKept` | `IndexAssumption` |
| `HandoffTyped`, `HandoffIsTrue` | `HandoffTypes` always, and `ReadyIsTrue` | `HandoffAssumption` |
| `InstallTyped`, `InstallsKept` | `InstallTypes` always, and `InstallKept` | `InstallAssumption` |
| `BoardMoveTyped`, `BoardMoveKept` | `MoveTypes` and `BoardKept` always | `MoveAssumption` |
| `SyncTyped`, `SyncIsKept` | `SyncTypes` always, and `SyncKept` | `SyncAssumption` |
| `CommitTyped`, `CommitApproved` | `CheckTypes` and `ApprovedLines` always | `CheckAssumption` |
| `DeployTyped`, `DeployIsApproved` | `DeployTypes` always, and `RapidIsApproved` | `DeployAssumption` |
| `PublishTyped`, `StableChecked` | `PublishTypes` and `StableIsChecked` always | `PublishAssumption` |
| `PublishIsKept` | `PublishKept` | `PublishAssumption`, `VersionsRise` |
| `ArchiveTyped`, `ArchiveIsKept` | `ArchiveTypes` and `ArchiveKept` always | `ArchiveAssumption` |
| `BrowserTyped`, `BrowserIsOwn` | `BrowserTypes` always, and `OwnBrowser` | `BrowserAssumption` |
| `DirectTyped`, `DirectOnce` | `DirectTypes` and `ReachedOnce` always | `DirectAssumption` |
| `MarksTyped`, `MarksAreKept` | `MarkTypes` and `MarksKept` always | `WatermarkAssumption` |
| `HoldsTyped`, `HoldsAreKept` | `HoldsTypes` and `HoldsKept` always | `HoldsAssumption` |

So every safety property of the passing runs is a theorem, of the component that states it. Where several components
share one state space (`MCRecords`, `MCMachine`, `MCOutside`) the theorem is about the component's own specification, of which the composition
allows no more steps. The type invariants, `CededOnRecord` and `Accounted` are theorems that no run
repeats: the other properties of their modules rest on them.

**The assumptions.** Most say that bounds are numbers and that a "no such thing" value is none of the things. Those
with content: `Overlap` is reflexive and symmetric, as `board.overlaps` is; a window is open for a day at most
(`sends.MAX_HOURS`) and a call reaches something; names of sessions and of projects differ, as the box files do; a
command the brake looks at deploys some site (`<<>> \notin Command`: other commands never reach `check_deploy`'s files); a
segment of the archive has room for the longest row, two units; one remote is `origin`; and no commit names an older version than
the one before it (`VersionsRise`), as the entries of `CHANGELOG.md` do (`release.py` itself
compares the version with the newest of them, line 151, not with those before).

**BoardExclusive.** `Undisturbed` says that nobody may take over or that owners stay quiet; without
it the property is false (`board_race`). Crashes are allowed. `Exclusive` alone is not inductive,
because it says nothing of what processes hold in memory. The invariant adds: only the holder
of the lock is inside `claim` (`LockInv`); a loaded record never has more claims than the file (`CopyInv`), so
a late save adds none; what the taker has read of another covers what that one holds now
(`ScanInv`), because outside the lock claims only shrink; a record about to be rewritten has
not changed since it was read (`OwnerInv`); and a session that was passed or robbed has nothing
left in the way of the request (`ClearInv`), which gives `Exclusive` at `Grant`.

**BoardKeepsPromise, BoardLoses, BoardRecords.** Each step changes one record at most, and in one of three ways
(`FileStep`): its session gives claims up, adds claims with nobody in the way, or loses to a taker, stale, what is in the way; these are
the steps of `ClaimPromise`, and the abstract variables are the claims and the ceded claims of the files. It rests on what a
record about to be saved differs in (`SaveInv`), on a record about to be rewritten being as it was read (`SameInv`), and on a notice being
about claims that the ceding put on record (`NoticeInv`). The theorem covers the safety of `ClaimPromise`, which is all it states.

**BoardTells, BoardNames.** Here owners may wake, so files do change under the taker's hands, and the invariant is about what
every record, on disk or in memory, tells: its ceded claims were told or are about to be (`CededTold`), its claims are named by the log or about to be,
or told as lost (`ClaimsNamed`). A late save adds nothing else (`LateCopy`, `LateScan`, `LateClear`). "About to be told" ends only with the notice because
nobody is killed.

**BoardShares.** What holds of saved records must hold of every record in memory as well, since a late save makes one
of those the saved one: records of two sessions overlap only where one of the two was told (`RecordsShared`). The step to show is the grant, which adds
claims. A taker that has passed another session has nothing of it in the way that was not told (`LateClear`), and what it had to take is
told by then too (`HitsTold`); neither can be undone by an owner that wakes, as what it may still save was in its record before. So
whoever is being granted a claim has no untold record in its way (`GrantFree`).

**ApprovalBacked.** Codes are drawn once (`Pick` takes one never shown), so every file and every
copy in memory that names a code with a subject names the one it was drawn for, and gives a time not
before it was drawn (`DiskInv`, `CallInv`, `HookInv`, `PastInv`). A call passes only on a code
typed in its own session after that time.

**ApprovalOnce.** A prompt that names a code of a subject is worth one call. On its way this worth is a
hook about to write the grant, the grant, a call that has moved the grant aside, or a call let through.
`TokenInv` bounds their number by the prompts; no step increases it without one. The proof is the
reason for `os.replace` in `consume`: a copy would count twice.

**ApprovalKeepsPromise.** The abstract credit is what prompts have bought less what has passed. Files moved aside, a retry, the sweep and
a kill change nothing that the promise names, and a session without a process makes no call (`Quiet`); drawing a code, typing it and the prompt hook's reading of the request are `Draw`,
`Type` and `Buy`, and a call let through is `Pass`. That it has a credit left is `TokenInv`, which counts the call
itself; that it shows its code typed in time is what `ApprovalBacked` rests on (`PassPasses`, `PromiseStep`).

**Sends.** What a call has logged so far is in the ledger under its own id (`CallInv`), which gives `Accounted`. The lines of a window count
against it even when they were written after midnight, since a window is open for a day at most and a call lives for less than an hour after
(`TimeInv`, `LineInv`). So when a call is covered fewer calls than planned had logged a line, and the others that passed or are passing under the window
are those still between count and line: at most one for each other session, and none when calls do not overlap (`CountInv`, with `Slack`).

**SendsKeepPromise.** Every window that can be read is one that was granted (`GrantInv`). A call reads the window once per channel, so it may
count against one window and have another channel covered by the next; of each scope that it was covered for it is remembered that some granted window has that
scope and ended after the call began (`UnderInv`), which is why the promise says "an hour behind" and no more. The count under the window it names is
`CountInv`, the lines are `CallInv`: a call that goes out is a `Pass`, every line before a `Write`, the principal's `open` a `Grant`, and all else stutters.

**Mailbox.** A message that was shown is marked, one about to be shown was not shown, and nobody else of that session is about to show it
(`FreshInv`). A session's mark is its latest decision on a text (`MarkInv`), and what a sender judged is still so when it writes its mark, as nobody else
sends for that session meanwhile (`JudgeInv`). Ids are new because no more messages are posted than commands were begun (`CountInv`).

**MailKeepsPromise.** What is abstractly in a session's hands is the batch of the one process that shows it messages (`Hands`); `FreshInv` says that none of it
was shown, so a look is a `Take`, the last step of a reader a `Show`, and a kill a `Lose`. A mark is written only after `JudgeInv` found it open (`Decide`), and a
message for a session is posted only by the process that has just decided on it (`PostInv`), which no other of that session can change meanwhile.

**TurnAsks, TurnPlanAsks.** The pointer's streak is at least the number of requests of this turn, counted
with the one the hook is about to print (`TurnInv`), because after the first stop of a turn the
harness's flag is set and every stop counts on; and at least the number of requests for the plan
as it is, while the digest names that plan (`PlanInv`). Both are needed: an agent that edits its
plan at each request is stopped by the flag, one that is interrupted each time by the digest.

**TurnNeverTwice, TurnRevises, TurnTells.** Within a turn that was sent back the marker says what for (`MarkInv`), so the hook has not revised this
reply before, and evaluates a bad one only after it was revised (`ReplyInv`); the note that it is let go is only in the hands of a hook that sends
nothing back, and so reaches the person (`NoteInv`).

**WorktreeWorkKept.** What a branch holds stays on some branch or came to it late. What retire is about to remove is therefore in the head it found merged, or
late: commits of the topic branch, of a detached head, ignored files (`HeadMerged`, `TopicChecked`, `DetachedRead`, `IgnoredLate`), and merged work is on a branch that nothing removes.

**PlanIsKept.** A command that has read the plan has read every entry made before, and later ones are behind it (`ReadsAll`); the owner that it is about to write
has the claim or was robbed of it (`Covered`, `WritesRight`); and a plan that a session's close has closed is no longer running under it (`ClosedFirst`).

**IndexKeepsEdits, HandoffIsTrue.** What a run of `index set` read of HEAD, HEAD has held (`SeenHeld`), and at the replacement every difference from what it compared is in `late`
(`NotesLate`). In a handoff on an unswitched branch what must be sent is, according to the step, in the documents, committed, or at the remote (`NothingAside`); no step of anybody's takes it
back (`NothingLost`).

**InstallsKept.** A release has its folder before an install may switch to it, and folders are never removed
(`SwitchesToBuilt`). What a hook compared stays true until another install switches, which marks it as overtaken
(`StillNewer`): the comparison is not repeated, so nothing stronger holds.

**BoardMoveKept.** A merge about to write has what the two files have by now, but for what came late (`MergeHolds`), and the file about to go to the archive has nothing
that the other lacks (`ArchiveHolds`). While one process at a time merges the log, no line is in both files but just before the archive (`Apart`, `ReadApart`), so no line doubles.

**SyncIsKept.** The saved state never says more records than the archive has, and of a session of which it says all, HEAD has them (`DoneIsCommitted`), because
it is saved only after the commits, and after those everything that was copied is committed (`SyncedInOrder`). It is why a refused commit may not be counted.

**ArchiveIsKept.** A number may be used twice: an export killed before the state is saved leaves rows that the next one appends again. `ArchiveInv` says that under a number not yet counted
is the row that gets this number if the file is read on from the offset or from its top (`FromKilled`), or one the running export put there (`FromExport`), and that what the running export
has still to append agrees with it (`Agrees`); the rows before it are in order and kept (`InOrder`). The lock leaves one export.

**CommitApproved.** Of every line that is staged while a check is at work that has refused nothing yet, the check still has it to judge, found it approved in its place or let it pass as moved (`PlacesJudged`), and the text of each that it
does not have to judge was approved in some place, or got into HEAD unjudged (`TextsJudged`, `KnownTexts`): a text that HEAD had when the check looked was known then, and what is known stays so. A check that ends has saved what it spent (`NothingHeld`); lines count as approved only if they were
(`OnlyApproved`); and its copy of the file is the file unless another has written it (`ReadIsFresh`).

**DeployIsApproved.** The time on record is no older than the last deploy of the site, and than a spent approval, unless the file is being written or two calls clashed on it (`RecordIsFresh`, `StampIsFresh`);
so an ordinary approval was asked only where no deploy had been, but for the cases the property names (`OrdinaryIsFirst`).

**StableChecked.** A run keeps the commit its preflight judged: CI passed it, and the tag of its version
names it, or is not there yet, or HEAD has moved on (`Knows`). Tags are made once and never move, and a remote has a tag as the checkout
has it or not at all (`TagsKept`). So a push that finds HEAD at the commit judged sends that commit's own tag with it. All
this only grows while others commit, tag and pass CI (`Grows`), which is why the train need not be held for it.

**PublishIsKept.** The other two parts of `PublishKept` do need the train: one run is past the preflight (`OneOnTrain`). The commit that it has read is part of the history, and whatever visitors are shown,
or will be when a pull request merges, is behind it (`LeadsShown`, `ShownIsPast`), so no open pull request takes the tap back (`PullsForward`). A tag at a remote names a commit of
its version (`TagsMean`); what a run read back, saw at GitHub and verified in a harness is still there or was overtaken (`ReadBackHolds`, `SeenHolds`, `VerifiedHolds`). Most steps show nothing new and install nothing
(`Calm`) and keep all of that at once.

**BrowserIsOwn.** A session that was alone since its selection (no other selection under way then or
since) is the last selector, its transcript says "selected" only once the extension is in its browser, and
it confirms or acts only after that (`AloneIsIn`); whoever is named as confirmed selected last or was
confirming when another selected (`ConfirmedSelects`).

**DirectOnce.** Of a text no two runs of which overlapped and whose record nobody removed, at most one
run is under way, and what it knows is true (`RunIsTrue`): before its call nothing went out and the record or its
draft says `uncertain`; after it the draft says `not-sent` only if nothing did. So a record that lets the
next run try means that nothing went out, and stays so if the run dies anywhere.

**MarksAreKept.** A store says only what was read and put off (`StoreIsTrue`), and so does every copy
in the hands of a session, because what was read stays read; hence a copy written over a newer store puts marks, deferrals and the run back
(section 6) but names no mark that was not read. A mark is behind the highest it ever had only where such a copy put it back (`MarksStand`): a copy whose mark is lower than the file's
was loaded before that mark moved, and its save says so (`SaveStands`); `advance` puts none back itself, since it compares with its copy. Every copy's run was
begun before, and the store's is the one begun last unless a copy has put an earlier one back (`RunInv`); what status vouches for it vouches for since the run that the store names,
and since the last one but for that case (`RunVouched`).

**HoldsAreKept.** The replay is a recursive function of the log, and what such a function computes for every log would need induction over data. The log only grows by one event at a
time, though, so the invariant over the steps does the induction: the replay of the log is one and no other (`OneReplay`), whence an append makes of it what its event makes of the hold; and what it says of each
hold is what the events mean (`Means`). A checked release keeps the length of the log that it was checked against, and that part of the log never changes (`OnPurpose`).

Only model-checked: what must eventually happen (`DecisionEnds`, `SpentCloses`, `EveryMessageShown`,
`TurnEnds`), since liveness under fairness is outside what TLAPS can prove.
No module has a RECURSIVE operator, so that what TLC checks and TLAPS proves is one and the same
text.

## 6. Where code and text disagree

- `board_race` (`board.py:116`): `touch` and `release` load and save without the lock that `_claim`
  holds. A stale owner that wakes between the taker's read and its own save writes its claims
  back, and two sessions hold the same path, which `board.py:173` says the lock prevents. The
  takeover is announced, though: its notice tells the owner what it lost, and `SharedIsTold` shows that a path is
  shared in no other way.
- `sends_reopened` (`sends.py:313`): `settle` judges the window it read and unlinks whatever is there
  by then; a window opened in between is lost with its sends.
- `marks_backwards` (`sync_watermark.py:219`): `advance` compares with the copy it loaded, and `begin`, `defer` and `advance` save their whole copy without a lock. A mark that another session
  advanced in between goes back, against lines 18 and 207 ("never backwards"), and what was read is read again.

Limits that no run reports as a violation, because a property names them or a bound leaves them out:

- Counting and logging a send are separate and unlocked: of two overlapping calls both can take the last planned
  send. `OvershootBounded` shows the damage is one send per further session; `PlannedSends` holds when calls do not
  overlap. Also, `sends.py:289` takes the opening time before the window is written, so a line logged in between
  under the window before counts against the new one.
- Two commands of one session that overlap can both find no mark for a text and send it
  to two sessions, and two readers of a session both show a message: `OneRecipient` and `ShownOnce` are stated where they do not.
- Messages are marked read before they are printed (`hook.py:152`), so a hook killed in between (by its timeout, say) loses them; `board.py:340` says "a message is read
  once it has been shown, never before". `mailbox` kills senders only, and `ReadIsShown` is stated, and proved, where readers are not killed.
- Ritual marks: a copy of the store written back puts back the mark that another session advanced in between (`lost` in `Watermark`, and `marks_backwards` above), and the run
  another began (`undone`; `sync_watermark.py:251`): `status --since run` then blocks on nothing that was read or put off since the run before, though line 15 says it blocks on
  everything "this run did not re-read". A deferral that was spent or replaced comes back in the same way.
- A hook that starts on an older release can switch `current` back to it if another install switches after the
  hook compared (`BackOnlyWhenOvertaken`).
- An approval that `check_deploy` or `check_outgoing` spent is lost when a later guard (`check_claimed`, `guards.py:1653`) refuses the
  same command; the time of the deploy that never was is on record, too. Two calls that judge the same site before
  either writes its time both pass as ordinary (`near`), and a call that reads a file just emptied sees no deploy (`clashed`).
- `retire` (`worktree.py:204`) loses ignored files, commits on a detached HEAD and commits on the branch that were made after it
  had looked at their place (`late`).
- `index set` loses an edit of the working file that is made between its comparison and its replacement (`late` in `ProjectIndex`). `handoff` reads the
  branch once: switched meanwhile, READY says nothing of it (`switched`).
- The autopilot commands write the plan from the text they read: what was written in between is undone (`behindIt`), and a takeover
  that releases the owner's claim and then loses it to another leaves an owner without a claim (`robbed`).
- The archive: a row whose line runs into one a killed export left torn is unreadable, and rows of a rewritten transcript
  that grew past the offset unseen are skipped (`torn`, `unseen`); records are appended twice if an export was
  killed before the state was saved (`again`), and their numbers may go to other rows if the transcript was rewritten and grew past the offset.
- The board's move: what is written where a merge had already looked is off the board (`late`): in the archive if it was written to the file that goes there,
  lost outright if the merge writes over it. Two merges of one log double its lines (`twice`).
- The commit check lets a line through when its text is anywhere in HEAD (`commit_check.py:558`, `_in_head`, line 606), in a catalog or in a file where it stays. So a text that HEAD
  has in one file gets into a second one unasked (`excused`), and so does every text that HEAD had before there was a check. Line 576 says "a new place asks again"; line 607 means to
  except moved text alone. Also, a line staged between the check's reading and git's commit is not judged (`unseen`), nor one in a catalog, and the texts of both pass anywhere from then on (`unasked`, `excused`, with
  what HEAD had at first). An approval is gone when it was not backed or too old, when its check is killed, and when another check writes the file between this one's reading and writing (`lost`).
- A release publishes the HEAD it finds at its push, not the one its preflight judged (`release.py:177`, against line 130, "Nothing is
  pushed or installed unless problems is empty"): a commit made in the shared checkout in between becomes stable unchecked, and may be tagged
  with the version before its own (`adrift`). A harness that another run installs in after it was verified still counts (`overtaken`).
- The browser: the confirmation written back at `guards.py:408` can put a session's own selection over a newer one of another,
  so that its calls pass on without a new selection (`confirming`); `account-routing.md:108` says any other selection re-arms the check.
- Holds: a second release of a day that was never placed, of an id that was released before, makes every later reading of the log
  fail (`holds_state.py:174`), although line 171 keeps such events for the doctor; `ReadableLog` says exactly when.
- Direct messages: two runs of one text at once do send it twice (`crossed`), and so does one after its record aged away (`forgot`).

## 7. What the models leave out

- Texts. Claims, calls, codes, messages and plans are model values. That two spellings of one path
  overlap (`board.overlaps`), that a digest identifies one call, that `turn_end_reason` and
  `reply_check.check` judge well, is left to constants (`Overlap`, `Subject`, `Asking`) or to a
  free choice (`Reply`).
- *Board*: project, harness, working directory and the other fields a touch may set; a session's
  processes run one at a time.
- *Approvals*: the transcript formats of the three harnesses; a malformed file; that a code is
  not guessed, which is assumed by letting prompts name only codes that were drawn.
- *Sends*: how a call's channel, project and signature are recognised; they form one scope. That an
  approval was granted is a free choice in `Approved`; `Approvals` shows what it takes.
- *Mailbox*: the notice at a takeover (it is in `Board`), `--recent`, which shows read messages again,
  and the cut of long texts.
- *Turn*: `NothingToAsk` is possible at any stop, because a background task of the session makes the
  autopilot ask for nothing; the time of a turn's end, kept for a note at the next prompt; the claim a
  command makes on the plan file; how long an owner must be silent to be taken over.
- *PlanFile*: the checks of the plan's text, each of which may refuse a command before it writes.
- *ProjectIndex*: snapshots and the journal, which add commits under a ref of their own and lines to a log. Two git and file errors: the result of `read-tree` is not looked at
  (`checkout.py:196`), so if it fails the commit is made from an index that holds the one file alone; and if the last replacement fails (line 213), the commit is made
  and the working file is behind it.
- *Worktree, Handoff*: git itself beyond sets of commits; that every line of the sessions' sync is in the receipt. `handoff` skips claims on paths outside any
  repository (`project.py:396`) and may say READY over them: the model's claims are all on paths in git.
- *Deploy, Browser, CommitCheck*: how a command is read, what a call looks like, which texts disclose something; two lines of one text in one file are one line.
- *SessionSync*: `CopySession` writes a session's records and its `meta.json` in one step. A sync killed between the two (`sessions.py:750` and 758) leaves an old
  `meta.json`, and the next sync, which compares the records alone, does not repair it.
- *Archive*: the adapters of the transcripts' formats; *Install*: the scripts in `bin/` and the git hooks, which each
  install rewrites to one text.
- *Holds, Watermark*: queries, reports and parsing of dates. *DirectSend*: finding the chat, the photo and the route.

### Not modelled

- *Guards: shell reading and destructive commands* (most of `guards.py`), *YAML reader*: functions from text to a verdict. A model
  that kept their control would go through the text character by character; the repository tests them by example.
- *Doctor*, *brief*, *status* and the other reports: they read and print.
- *Rituals*: dates and streaks, pure functions of a log.
- *Scripts of skills*: most check or format a document. Those that keep a file of their own (action sheets, rulings, installed
  local models, onboarding) are run by one agent at a time for one person and rewrite it whole.
- *Installer, hook registration and tools*: run once by a person.

This is why the map covers a small share of the lines: most of the repository's code reads or writes
text, and what sessions share is kept by a few functions of each file listed above.

## 8. Plan

1. `Deploy` with the guards after it in one composition, so that an approval spent on a command that is refused later is a property
   and no longer a limit; `Sends`, `Deploy` and `CommitCheck` on `ApprovalPromise` in place of a free choice.
2. `OwnersStayQuiet` weakened to the owners of the claims that are being taken, and `BoardExclusive` under it.
3. Streaks and owed days of `rituals.py`, `overlaps` on paths, and the day arithmetic of the
   send window as operators against a reference definition.
4. Abstract specifications of the archive and of a release, which `Archive` and `Publish` are shown to implement.
