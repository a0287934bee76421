----------------------------- MODULE CommitCheck -----------------------------
(***************************************************************************)
(* The check git runs before every commit (commit_check.py, problems, scan *)
(* and unapproved): a staged line that discloses something is refused, and *)
(* asked about, unless its text is in HEAD already, in whatever file, or   *)
(* the line is among the approved ones or has an approval of the           *)
(* principal's, which is spent and then kept in the file of approved lines.*)
(* An approval is of a text in its place.  The check reads that file first *)
(* and the staged lines next, and writes the file, whole, after it has     *)
(* judged every line.  Several commits run at once in a shared checkout,   *)
(* and others stage files meanwhile; git commits what is staged when the   *)
(* check ends.  HEAD holds from the start what was there before the check. *)
(*                                                                         *)
(* Only disclosing texts are in the model: the patterns that find them are *)
(* pure, and the claims check and the repository's own hooks, which come   *)
(* after, may refuse any commit.                                           *)
(***************************************************************************)
EXTENDS Naturals

CONSTANTS
  Commit,  \* commits
  Path,    \* files of the repository
  Phrase,  \* what would disclose something
  Again    \* bound on the approvals of one line

ASSUME CheckAssumption == Again \in Nat

Disclosure == [place : Path, text : Phrase]

VARIABLES
  catalogs, \* files where no text is a disclosure: what the policy excludes
  staged,   \* the lines in the git index
  inHead,   \* the lines in HEAD
  allowed,  \* the file of approved lines
  granted,  \* lines whose approval waits to be spent
  grants,   \* grants[l]: how often l was approved
  check,    \* check[c]: the check of the commit c and what it has read
  unasked,  \* texts that got into HEAD where no check judged them
  excused,  \* lines of HEAD that were not judged, or passed as moved
  lost      \* approvals wasted, killed with a check, or written over

repository == <<catalogs, staged, inHead>>
history == <<unasked, excused, lost>>
checkVars == <<repository, allowed, granted, grants, check, history>>

\* unseen are the lines staged after the check read the others, passed those
\* it let pass as moved.
NoCheck == [at |-> "idle", allowed |-> {}, todo |-> {}, granted |-> {},
            unseen |-> {}, passed |-> {}, refused |-> FALSE, overtaken |-> FALSE]

Texts(lines) == {l.text : l \in lines}

CheckInit ==
  /\ catalogs \in SUBSET Path /\ inHead \in SUBSET Disclosure
  /\ staged = inHead /\ excused = inHead /\ unasked = Texts(inHead)
  /\ allowed = {} /\ granted = {}
  /\ grants = [l \in Disclosure |-> 0]
  /\ check = [c \in Commit |-> NoCheck]
  /\ lost = {}
-----------------------------------------------------------------------------
\* Checks that have read what is staged and refused nothing of it.
Running == {c \in Commit : /\ check[c].at \in {"moved", "judge", "commit"}
                           /\ ~check[c].refused}

StageLine(l) ==
  /\ l \notin staged /\ staged' = staged \cup {l}
  /\ check' = [c \in Commit |-> IF c \notin Running THEN check[c]
                 ELSE [check[c] EXCEPT !.unseen = @ \cup {l}]]
  /\ UNCHANGED <<catalogs, inHead, allowed, granted, grants, history>>

\* The line goes, from the index or with a commit that removes it.
RemoveLine(l) ==
  /\ l \in staged
  /\ staged' = staged \ {l}
  /\ inHead' \in {inHead, inHead \ {l}}
  /\ UNCHANGED <<catalogs, allowed, granted, grants, check, history>>

ApproveLine(l) ==
  /\ grants[l] < Again /\ l \notin granted
  /\ grants' = [grants EXCEPT ![l] = @ + 1]
  /\ granted' = granted \cup {l}
  /\ UNCHANGED <<repository, allowed, check, history>>
-----------------------------------------------------------------------------
Checks(c, step, r) == check[c].at = step /\ check' = [check EXCEPT ![c] = r]

ReadAllowed(c) ==
  /\ Checks(c, "idle", [NoCheck EXCEPT !.at = "diff", !.allowed = allowed])
  /\ UNCHANGED <<repository, allowed, granted, grants, history>>

\* The lines the commit adds, but for those in a catalog.
Added == {l \in staged \ inHead : l.place \notin catalogs}

ReadStaged(c) ==
  /\ Checks(c, "diff", [check[c] EXCEPT !.at = "moved", !.todo = Added])
  /\ UNCHANGED <<repository, allowed, granted, grants, history>>

\* Mutant: the texts are looked for in what is staged, and all are there.
InIndex(l) == \E k \in staged : k.text = l.text

\* HEAD has the text by now, in this place or any other, a catalog included.
InHead(l) == \E k \in inHead : k.text = l.text

\* Such a text counts as moved, not as a new disclosure, also if it stays where
\* it was.
PassMoved(c) ==
  LET moved == {l \in check[c].todo : InHead(l)}
  IN /\ Checks(c, "moved", [check[c] EXCEPT
              !.at = "judge", !.todo = @ \ moved, !.passed = moved])
     /\ UNCHANGED <<repository, allowed, granted, grants, history>>

JudgesLine(c, l, r) == l \in check[c].todo /\ Checks(c, "judge", r)
Rest(c, l) == [check[c] EXCEPT !.todo = @ \ {l}]
Refused(c, l) ==
  [Rest(c, l) EXCEPT !.refused = TRUE, !.unseen = {}, !.passed = {}]

PassAllowed(c, l) ==
  /\ l \in check[c].allowed
  /\ JudgesLine(c, l, Rest(c, l))
  /\ UNCHANGED <<repository, allowed, granted, grants, history>>

SpendLine(c, l) ==
  /\ l \notin check[c].allowed /\ l \in granted
  /\ granted' = granted \ {l}
  /\ JudgesLine(c, l, [Rest(c, l) EXCEPT !.granted = @ \cup {l}])
  /\ UNCHANGED <<repository, allowed, grants, history>>

\* An approval that is too old, or that the session's record does not show the
\* principal to have typed, is spent for nothing.
WasteLine(c, l) ==
  /\ l \notin check[c].allowed /\ l \in granted
  /\ granted' = granted \ {l}
  /\ JudgesLine(c, l, Refused(c, l))
  /\ lost' = lost \cup {l}
  /\ UNCHANGED <<repository, allowed, grants, unasked, excused>>

AskLine(c, l) ==
  /\ l \notin check[c].allowed \cup granted
  /\ JudgesLine(c, l, Refused(c, l))
  /\ UNCHANGED <<repository, allowed, granted, grants, history>>

\* Mutant: the file gets the lines approved now.
NewOnly(c) == check[c].granted

\* The lines read at the start, and those approved now.
AllowedNow(c) == check[c].allowed \cup check[c].granted

\* The file is replaced if anything was approved, also when the commit is
\* refused for another line.
JudgedAll(c) ==
  LET new == IF check[c].granted = {} THEN allowed ELSE AllowedNow(c)
      ended == [check[c] EXCEPT !.at = IF @ = "judge" THEN "commit" ELSE @,
                  !.allowed = {}, !.granted = {}, !.overtaken = FALSE]
  IN /\ check[c].at = "judge" /\ check[c].todo = {}
     /\ allowed' = new
     /\ check' = [o \in Commit |->
          IF o = c THEN ended
          ELSE [check[o] EXCEPT !.overtaken =
                  @ \/ (new # allowed /\ check[o].at \in
                                            {"diff", "moved", "judge"})]]
     /\ lost' = IF check[c].overtaken THEN lost \cup (allowed \ new) ELSE lost
     /\ UNCHANGED <<repository, granted, grants, unasked, excused>>

NothingRefused(c) == ~check[c].refused

\* Staged now, and in a catalog or not yet there when the check read.
Unjudged(c) == {l \in staged : l.place \in catalogs \/ l \in check[c].unseen}

CommitIndex(c) ==
  /\ NothingRefused(c)
  /\ Checks(c, "commit", NoCheck)
  /\ inHead' = staged
  /\ unasked' = unasked \cup Texts(Unjudged(c))
  /\ excused' = staged \cap (excused \cup Unjudged(c) \cup check[c].passed)
  /\ UNCHANGED <<catalogs, staged, allowed, granted, grants, lost>>

\* It is refused: by a line, by a claim of another session, or by another hook.
RefuseCommit(c) ==
  /\ Checks(c, "commit", NoCheck)
  /\ UNCHANGED <<repository, allowed, granted, grants, history>>

CheckDies(c) ==
  /\ check[c].at # "idle" /\ Checks(c, check[c].at, NoCheck)
  /\ lost' = lost \cup check[c].granted
  /\ UNCHANGED <<repository, allowed, granted, grants, unasked, excused>>

CheckNext ==
  \/ \E l \in Disclosure :
       \/ StageLine(l) \/ RemoveLine(l) \/ ApproveLine(l)
       \/ \E c \in Commit :
            \/ PassAllowed(c, l) \/ SpendLine(c, l) \/ WasteLine(c, l)
            \/ AskLine(c, l)
  \/ \E c \in Commit :
       \/ ReadAllowed(c) \/ ReadStaged(c) \/ PassMoved(c) \/ JudgedAll(c)
       \/ CommitIndex(c) \/ RefuseCommit(c) \/ CheckDies(c)

CheckSpec == CheckInit /\ [][CheckNext]_checkVars
-----------------------------------------------------------------------------
InFlight == UNION {check[c].granted : c \in Commit}

CheckTypes ==
  /\ {staged, inHead, allowed, granted, excused, lost} \subseteq SUBSET Disclosure
  /\ catalogs \subseteq Path /\ unasked \subseteq Phrase
  /\ grants \in [Disclosure -> 0..Again]
  /\ check \in [Commit ->
       [at : {"idle", "diff", "moved", "judge", "commit"},
        allowed : SUBSET Disclosure, todo : SUBSET Disclosure,
        granted : SUBSET Disclosure, unseen : SUBSET Disclosure,
        passed : SUBSET Disclosure, refused : BOOLEAN, overtaken : BOOLEAN]]

KnownText(x) == x \in unasked \/ \E k \in Disclosure : k.text = x /\ grants[k] > 0

\* A text in HEAD was approved in some place, unless it got there unjudged: HEAD
\* had it at first, a catalog brought it, or it was staged between a check's
\* reading of the index and its commit.  So it is however many commits move and
\* copy texts at once and find what others approved (commit_check.py:607,
\* "moved text is not a new disclosure").
NewTextIsApproved == \A l \in inHead : KnownText(l.text)

\* A line in HEAD was approved in its own place, unless it got there unjudged or
\* HEAD had its text somewhere when the check looked (commit_check.py:574-576).
PlaceIsApproved == \A l \in inHead \ excused : grants[l] > 0

\* An approval that a check has spent is in the file of approved lines, or still
\* with its check: it is lost only unbacked, with a killed check, or when another
\* check wrote the file between this one's reading and its writing
\* (commit_check.py:576, "that line passes from then on").
SpentIsKept ==
  \A l \in Disclosure : grants[l] > 0 =>
    l \in granted \cup InFlight \cup allowed \cup lost

\* All three: no text and no place is disclosed unapproved but as named, and no
\* approval is forgotten.
ApprovedLines == NewTextIsApproved /\ PlaceIsApproved /\ SpentIsKept
=============================================================================
