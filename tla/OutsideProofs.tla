---------------------------- MODULE OutsideProofs ----------------------------
(***************************************************************************)
(* Theorems about what guards and scripts keep of the world outside: the   *)
(* browser that was selected, messages sent by a script, what was read up  *)
(* to when, calendar holds, and the transcripts that harnesses write.  The *)
(* components share no variable, and each theorem is about the             *)
(* specification of one of them.                                           *)
(***************************************************************************)
EXTENDS Browser, DirectSend, Watermark, Holds, Archive, SequenceTheorems, TLAPS
-----------------------------------------------------------------------------
(* Browser                                                                 *)

(* Proofs about Browser.  A selection that no other overlapped stays the one *)
(* the extension carried out last, and what is confirmed was selected last   *)
(* or was being confirmed when another session selected.                     *)

\* A session alone since its selection: the file and its call go on only once
\* the selection succeeded, and then the extension is in its browser.
AloneIsIn ==
  \A s \in alone :
    /\ selector = s
    /\ \A o \in User : doing[o] = "select" => o = s
    /\ result[s] = "selected" => extension = s
    /\ doing[s] \in {"confirm", "act"} => result[s] = "selected"
    /\ selection = Selected(s, TRUE) =>
         result[s] = "selected" /\ doing[s] # "select"

Selects(s) == selector = s \/ s \in confirming

\* Who is confirmed, or confirming, selected last or was confirming then.
ConfirmedSelects ==
  /\ ~selection.confirmed => selection.session = selector
  /\ selection.confirmed => Selects(selection.session)
  /\ \A s \in User : doing[s] = "confirm" => Selects(s)

BrowserInv == BrowserTypes /\ AloneIsIn /\ ConfirmedSelects

\* The file holds what Selected makes.
LEMMA SelectedFields ==
  ASSUME NEW s, NEW t, NEW b \in BOOLEAN, NEW c \in BOOLEAN
  PROVE  /\ Selected(s, b).session = s /\ Selected(s, b).confirmed = b
         /\ Selected(s, b) = Selected(t, c) <=> s = t /\ b = c
  BY DEF Selected

\* Nothing is selected, confirmed or under way at first.
LEMMA BrowserInitInv == BrowserInit => BrowserInv
  BY DEF BrowserInit, BrowserInv, BrowserTypes, AloneIsIn, ConfirmedSelects,
         Selected, Selects

\* Every step keeps the invariant.
LEMMA BrowserNextInv == BrowserInv /\ [BrowserNext]_browserVars => BrowserInv'
<1> SUFFICES ASSUME BrowserInv, [BrowserNext]_browserVars PROVE BrowserInv'
  OBVIOUS
<1> USE BrowserAssumption DEF BrowserInv, BrowserTypes
<1>1. ASSUME NEW s \in User, LetSelect(s) PROVE BrowserInv'
  <2> USE <1>1 DEF LetSelect, Advances, NewSelection
  <2>1. BrowserTypes'
    BY DEF Selected
  <2>2. AloneIsIn'
    BY DEF AloneIsIn, Selected
  <2>3. ConfirmedSelects'
    BY DEF ConfirmedSelects, Selects, Selected
  <2> QED BY <2>1, <2>2, <2>3
<1>2. ASSUME NEW s \in User, SelectSucceeds(s) PROVE BrowserInv'
  <2> USE <1>2 DEF SelectSucceeds, Advances
  <2>1. BrowserTypes'
    OBVIOUS
  <2>2. AloneIsIn'
    BY DEF AloneIsIn
  <2>3. ConfirmedSelects'
    BY DEF ConfirmedSelects, Selects
  <2> QED BY <2>1, <2>2, <2>3
<1>3. ASSUME NEW s \in User, SelectFails(s) PROVE BrowserInv'
  <2> USE <1>3 DEF SelectFails, Advances
  <2>1. BrowserTypes'
    OBVIOUS
  <2>2. AloneIsIn'
    BY DEF AloneIsIn, Selected
  <2>3. ConfirmedSelects'
    BY DEF ConfirmedSelects, Selects
  <2> QED BY <2>1, <2>2, <2>3
<1>4. ASSUME NEW s \in User, LetCall(s) PROVE BrowserInv'
  <2> USE <1>4 DEF LetCall, Advances
  <2>1. BrowserTypes'
    OBVIOUS
  <2>2. AloneIsIn'
    BY ZenonT(30) DEF AloneIsIn
  <2>3. ConfirmedSelects'
    BY DEF ConfirmedSelects, Selects
  <2> QED BY <2>1, <2>2, <2>3
<1>5. ASSUME NEW s \in User, LastSelection(s) PROVE BrowserInv'
  <2> USE <1>5 DEF LastSelection, Advances
  <2>1. BrowserTypes'
    OBVIOUS
  <2>2. AloneIsIn'
    BY ZenonT(30) DEF AloneIsIn
  <2>3. ConfirmedSelects'
    BY SelectedFields DEF ConfirmedSelects, Selects, Selected
  <2> QED BY <2>1, <2>2, <2>3
<1>6. ASSUME NEW s \in User, Confirm(s) PROVE BrowserInv'
  <2> USE <1>6 DEF Confirm, Advances
  <2>1. BrowserTypes'
    BY DEF Selected
  <2>2. AloneIsIn'
    BY DEF AloneIsIn, Selected
  <2>3. ConfirmedSelects'
    BY DEF ConfirmedSelects, Selects, Selected
  <2> QED BY <2>1, <2>2, <2>3
<1>7. ASSUME NEW s \in User, Act(s) \/ UserDies(s) PROVE BrowserInv'
  <2> USE <1>7 DEF Act, UserDies, Advances
  <2>1. BrowserTypes'
    OBVIOUS
  <2>2. AloneIsIn'
    BY DEF AloneIsIn
  <2>3. ConfirmedSelects'
    BY DEF ConfirmedSelects, Selects
  <2> QED BY <2>1, <2>2, <2>3
<1>8. CASE UNCHANGED browserVars
  BY <1>8 DEF browserVars, AloneIsIn, ConfirmedSelects, Selects
<1> QED BY <1>1, <1>2, <1>3, <1>4, <1>5, <1>6, <1>7, <1>8 DEF BrowserNext

\* The guard's file, the calls and the extension keep their types.
THEOREM BrowserTyped == BrowserSpec => []BrowserTypes
<1>1. BrowserInv => BrowserTypes
  BY DEF BrowserInv
<1> QED BY <1>1, BrowserInitInv, BrowserNextInv, PTL DEF BrowserSpec

\* For any number of sessions and browsers, and whoever is killed: a session
\* acts in its own browser, and a confirmed selection is the latest one, with
\* the exceptions OwnBrowser names.
THEOREM BrowserIsOwn == BrowserSpec => OwnBrowser
<1>1. BrowserInv /\ [BrowserNext]_browserVars =>
        [\A s \in User :
           /\ Act(s) /\ s \in alone => extension \in User
                                       /\ Device[extension] = Device[s]
           /\ LetCall(s) => selector = s \/ s \in confirming]_browserVars
  <2> SUFFICES ASSUME BrowserInv, NEW s \in User
               PROVE /\ Act(s) /\ s \in alone =>
                          extension \in User /\ Device[extension] = Device[s]
                     /\ LetCall(s) => selector = s \/ s \in confirming
    OBVIOUS
  <2>1. ASSUME Act(s), s \in alone PROVE extension = s
    BY <2>1 DEF BrowserInv, AloneIsIn, Act, Advances
  <2>2. ASSUME LetCall(s) PROVE Selects(s)
    BY <2>2, SelectedFields DEF BrowserInv, ConfirmedSelects, LetCall
  <2> QED BY <2>1, <2>2 DEF Selects
<1> QED BY <1>1, BrowserInitInv, BrowserNextInv, PTL DEF BrowserSpec, OwnBrowser
-----------------------------------------------------------------------------
(* DirectSend                                                              *)

(* Proofs about DirectSend.  A run of a key that no other overlapped, and      *)
(* whose record nobody removed, finds the record that says what its step says. *)

RunAt(r, k, step) == run[r].key = k /\ run[r].at = step

\* The send call of k is on record before it is made ...
Recorded(k) == attempt[k] \in {"uncertain", "not-sent", "dispatched"}

\* ... and what a run knows of it is true.
RunIsTrue(r, k) ==
  /\ run[r].at = "ask" =>
       went[k] = 0 /\ ~run[r].called /\ run[r].status = "uncertain"
  /\ run[r].at \in {"write", "place"} /\ ~run[r].called => went[k] = 0
  /\ run[r].at = "write" /\ ~run[r].called => run[r].status = "uncertain"
  /\ run[r].at = "place" /\ ~run[r].called => draft[k] = "uncertain"
  /\ run[r].at = "call" =>
       went[k] = 0 /\ ~run[r].called /\ attempt[k] = "uncertain"
  /\ run[r].called => attempt[k] = "uncertain"
  /\ run[r].called /\ run[r].at = "write" /\ run[r].status = "not-sent" =>
       went[k] = 0
  /\ run[r].called /\ run[r].at = "place" =>
       draft[k] # NoRecord /\ (draft[k] = "not-sent" => went[k] = 0)

KeyIsTrue(k) ==
  /\ went[k] <= 1
  /\ MayTry(k) => went[k] = 0
  /\ \A r, q \in Under(k) : r = q
  /\ \A r \in Under(k) : RunIsTrue(r, k)

DirectInv == DirectTypes /\ \A k \in Key \ (crossed \cup forgot) : KeyIsTrue(k)
-----------------------------------------------------------------------------
\* What a run is, for the prover.
RunRecord ==
  [at : {"idle", "ask", "write", "place", "call"},
   key : Key \cup {NoRecord}, status : Status, called : BOOLEAN]

\* Nothing is recorded, sent or under way at first.
LEMMA DirectInitInv == DirectInit => DirectInv
  BY DirectAssumption DEF DirectInit, DirectInv, DirectTypes, KeyIsTrue, Under,
     NoRun, MayTry, Status

\* Every step keeps the types.
LEMMA DirectNextTypes ==
  DirectTypes /\ [DirectNext]_directVars => DirectTypes'
<1> SUFFICES ASSUME DirectTypes, [DirectNext]_directVars PROVE DirectTypes'
  OBVIOUS
<1> USE DirectAssumption DEF DirectTypes, Status, NoRun, Continues, Arrives
<1>1. ASSUME NEW k \in Key, RecordAges(k) PROVE DirectTypes'
  BY <1>1 DEF RecordAges
<1>2. ASSUME NEW r \in Run, NEW k \in Key, BeginSend(r, k) PROVE DirectTypes'
  BY <1>2 DEF BeginSend, MayTry
<1>3. ASSUME NEW r \in Run, SendRefused(r) PROVE DirectTypes'
  BY <1>3 DEF SendRefused
<1>4. ASSUME NEW r \in Run, SendAllowed(r) PROVE DirectTypes'
  BY <1>4 DEF SendAllowed
<1>5. ASSUME NEW r \in Run, WriteDraft(r) PROVE DirectTypes'
  BY ZenonT(30), <1>5 DEF WriteDraft
<1>6. ASSUME NEW r \in Run, PlaceDraft(r) PROVE DirectTypes'
  <2>1. run' \in [Run -> RunRecord]
    <3>1. /\ run[r] \in RunRecord /\ NoRun \in RunRecord
          /\ [run[r] EXCEPT !.at = "call"] \in RunRecord
      BY DEF RunRecord
    <3> QED BY <1>6, <3>1 DEF PlaceDraft, RunRecord
  <2>2. run[r].key \in Key \cup {NoRecord}
    OBVIOUS
  <2>3. /\ attempt' \in [Key -> Status \cup {NoRecord}]
        /\ draft' \in [Key -> Status \cup {NoRecord}]
    BY <1>6, <2>2 DEF PlaceDraft
  <2> QED BY <1>6, <2>1, <2>3 DEF PlaceDraft, RunRecord
<1>7. ASSUME NEW r \in Run, NoDraft(r) PROVE DirectTypes'
  BY <1>7 DEF NoDraft
<1>8. ASSUME NEW r \in Run, NEW status \in Status, SendCall(r, status)
      PROVE DirectTypes'
  <2>1. went' \in [Key -> Nat]
    BY <1>8 DEF SendCall
  <2>2. run[r] \in RunRecord
    BY DEF RunRecord
  <2>3. [run[r] EXCEPT !.at = "write", !.called = TRUE, !.status = status]
          \in RunRecord
    BY <2>2 DEF RunRecord
  <2>4. run' \in [Run -> RunRecord]
    BY <1>8, <2>3 DEF SendCall, RunRecord
  <2> QED BY <1>8, <2>1, <2>4 DEF SendCall, RunRecord
<1>9. ASSUME NEW r \in Run, SendDies(r) PROVE DirectTypes'
  BY <1>9 DEF SendDies
<1>10. CASE UNCHANGED directVars
  BY <1>10 DEF directVars
<1> QED BY <1>1, <1>2, <1>3, <1>4, <1>5, <1>6, <1>7, <1>8, <1>9, <1>10 DEF DirectNext

\* What no step of a key's run touches stays true of the key.
LEMMA OtherKey ==
  ASSUME DirectTypes, NEW k \in Key, KeyIsTrue(k),
         attempt'[k] = attempt[k], draft'[k] = draft[k], went'[k] = went[k],
         Under(k)' \subseteq Under(k),
         \A q \in Under(k)' : run'[q] = run[q]
  PROVE  KeyIsTrue(k)'
  BY DEF KeyIsTrue, RunIsTrue, MayTry

\* A step of a key's run, when it is the only one, is judged by itself.
LEMMA OwnKey ==
  ASSUME NEW k \in Key, NEW r \in Run,
         KeyIsTrue(k), r \in Under(k),
         \A q \in Run \ {r} : run'[q] = run[q],
         r \in Under(k)' => RunIsTrue(r, k)',
         went'[k] <= 1, MayTry(k)' => went'[k] = 0
  PROVE  KeyIsTrue(k)'
<1>1. Under(k)' \subseteq {r}
  BY DEF KeyIsTrue, Under
<1> QED BY <1>1 DEF KeyIsTrue

\* A run of k that is under way has k as its key.
LEMMA UnderKey ==
  ASSUME NEW k \in Key, NEW r \in Run
  PROVE  r \in Under(k) <=> run[r].at # "idle" /\ run[r].key = k
  BY DEF Under

\* Every step keeps the invariant.
LEMMA DirectNextInv ==
  DirectInv /\ [DirectNext]_directVars => DirectInv'
<1> SUFFICES ASSUME DirectInv, [DirectNext]_directVars,
                    NEW k \in Key \ (crossed' \cup forgot')
             PROVE  KeyIsTrue(k)'
  BY DirectNextTypes DEF DirectInv
<1>0. DirectTypes /\ DirectTypes'
  BY DirectNextTypes DEF DirectInv
<1>a. ASSUME k \notin crossed \cup forgot PROVE KeyIsTrue(k)
  BY <1>a DEF DirectInv
<1> USE DirectAssumption
<1>1. ASSUME NEW j \in Key, RecordAges(j) PROVE KeyIsTrue(k)'
  BY <1>0, <1>1, <1>a, OtherKey DEF RecordAges, Under
<1>2. ASSUME NEW r \in Run, NEW j \in Key, BeginSend(r, j)
      PROVE KeyIsTrue(k)'
  <2>0. KeyIsTrue(k)
    BY <1>2, <1>a DEF BeginSend
  <2>1. CASE j # k
    BY <1>0, <1>2, <2>0, <2>1, OtherKey
       DEF BeginSend, Under, NoRun, DirectTypes
  <2>2. CASE j = k
    <3>0. Under(k) = {}
      BY <1>2, <2>2 DEF BeginSend
    <3>1. Under(k)' = {r}
      <4>1. /\ run'[r] = [NoRun EXCEPT !.at = "ask", !.key = k]
            /\ \A q \in Run \ {r} : run'[q] = run[q]
        BY <1>0, <1>2, <2>2 DEF BeginSend, DirectTypes
      <4>2. run'[r].at # "idle" /\ run'[r].key = k
        BY <4>1 DEF NoRun
      <4>3. \A q \in Run : q \in Under(k)' <=> q = r
        BY <3>0, <4>1, <4>2 DEF Under
      <4> QED BY <4>3 DEF Under
    <3>2. RunIsTrue(r, k)'
      BY <1>0, <1>2, <2>0, <2>2
         DEF BeginSend, NoRun, RunIsTrue, KeyIsTrue, MayTry, DirectTypes
    <3> QED BY <1>2, <2>0, <3>1, <3>2 DEF BeginSend, KeyIsTrue, MayTry
  <2> QED BY <2>1, <2>2
<1>3. ASSUME NEW r \in Run, SendRefused(r) PROVE KeyIsTrue(k)'
  <2>0. KeyIsTrue(k)
    BY <1>3, <1>a DEF SendRefused
  <2>1. CASE r \notin Under(k)
    BY <1>0, <1>3, <2>0, <2>1, OtherKey
       DEF SendRefused, Continues, Under, NoRun, DirectTypes
  <2>2. CASE r \in Under(k)
    <3>1. /\ \A q \in Run \ {r} : run'[q] = run[q]
          /\ r \in Under(k)' => RunIsTrue(r, k)'
      BY <1>0, <1>3, <2>0, <2>2
         DEF SendRefused, Continues, Under, NoRun, DirectTypes, KeyIsTrue, RunIsTrue, MayTry
    <3>2. went'[k] <= 1 /\ (MayTry(k)' => went'[k] = 0)
      BY <1>0, <1>3, <2>0, <2>2
         DEF SendRefused, Continues, Under, NoRun, DirectTypes, KeyIsTrue, RunIsTrue, MayTry
    <3> QED BY <2>0, <2>2, <3>1, <3>2, OwnKey
  <2> QED BY <2>1, <2>2
<1>4. ASSUME NEW r \in Run, SendAllowed(r) PROVE KeyIsTrue(k)'
  <2>0. KeyIsTrue(k)
    BY <1>4, <1>a DEF SendAllowed
  <2>1. CASE r \notin Under(k)
    BY <1>0, <1>4, <2>0, <2>1, OtherKey
       DEF SendAllowed, Continues, Under, NoRun, DirectTypes
  <2>2. CASE r \in Under(k)
    <3>1. /\ \A q \in Run \ {r} : run'[q] = run[q]
          /\ r \in Under(k)' => RunIsTrue(r, k)'
      BY <1>0, <1>4, <2>0, <2>2
         DEF SendAllowed, Continues, Under, NoRun, DirectTypes, KeyIsTrue, RunIsTrue, MayTry
    <3>2. went'[k] <= 1 /\ (MayTry(k)' => went'[k] = 0)
      BY <1>0, <1>4, <2>0, <2>2
         DEF SendAllowed, Continues, Under, NoRun, DirectTypes, KeyIsTrue, RunIsTrue, MayTry
    <3> QED BY <2>0, <2>2, <3>1, <3>2, OwnKey
  <2> QED BY <2>1, <2>2
<1>5. ASSUME NEW r \in Run, WriteDraft(r) PROVE KeyIsTrue(k)'
  <2>0. KeyIsTrue(k)
    BY <1>5, <1>a DEF WriteDraft
  <2>1. CASE r \notin Under(k)
    BY <1>0, <1>5, <2>0, <2>1, OtherKey
       DEF WriteDraft, Continues, Under, NoRun, DirectTypes, Status
  <2>2. CASE r \in Under(k)
    <3>1. /\ \A q \in Run \ {r} : run'[q] = run[q]
          /\ r \in Under(k)' => RunIsTrue(r, k)'
      BY <1>0, <1>5, <2>0, <2>2
         DEF WriteDraft, Continues, Under, NoRun, DirectTypes, KeyIsTrue, RunIsTrue, MayTry, Status
    <3>2. went'[k] <= 1 /\ (MayTry(k)' => went'[k] = 0)
      BY <1>0, <1>5, <2>0, <2>2
         DEF WriteDraft, Continues, Under, NoRun, DirectTypes, KeyIsTrue, RunIsTrue, MayTry, Status
    <3> QED BY <2>0, <2>2, <3>1, <3>2, OwnKey
  <2> QED BY <2>1, <2>2
<1>6. ASSUME NEW r \in Run, PlaceDraft(r) PROVE KeyIsTrue(k)'
  <2>0. KeyIsTrue(k)
    BY <1>6, <1>a DEF PlaceDraft
  <2>1. CASE r \notin Under(k)
    BY <1>0, <1>6, <2>0, <2>1, OtherKey
       DEF PlaceDraft, Continues, Under, NoRun, DirectTypes, Status
  <2>2. CASE r \in Under(k)
    <3>1. /\ \A q \in Run \ {r} : run'[q] = run[q]
          /\ r \in Under(k)' => RunIsTrue(r, k)'
      BY <1>0, <1>6, <2>0, <2>2
         DEF PlaceDraft, Continues, Under, NoRun, DirectTypes, KeyIsTrue, RunIsTrue, MayTry, Status
    <3>2. went'[k] <= 1 /\ (MayTry(k)' => went'[k] = 0)
      BY <1>0, <1>6, <2>0, <2>2
         DEF PlaceDraft, Continues, Under, NoRun, DirectTypes, KeyIsTrue, RunIsTrue, MayTry, Status
    <3> QED BY <2>0, <2>2, <3>1, <3>2, OwnKey
  <2> QED BY <2>1, <2>2
<1>7. ASSUME NEW r \in Run, NoDraft(r) PROVE KeyIsTrue(k)'
  <2>0. KeyIsTrue(k)
    BY <1>7, <1>a DEF NoDraft
  <2>1. CASE r \notin Under(k)
    BY <1>0, <1>7, <2>0, <2>1, OtherKey
       DEF NoDraft, Continues, Under, NoRun, DirectTypes
  <2>2. CASE r \in Under(k)
    <3>1. /\ \A q \in Run \ {r} : run'[q] = run[q]
          /\ r \in Under(k)' => RunIsTrue(r, k)'
      BY <1>0, <1>7, <2>0, <2>2
         DEF NoDraft, Continues, Under, NoRun, DirectTypes, KeyIsTrue, RunIsTrue, MayTry
    <3>2. went'[k] <= 1 /\ (MayTry(k)' => went'[k] = 0)
      BY <1>0, <1>7, <2>0, <2>2
         DEF NoDraft, Continues, Under, NoRun, DirectTypes, KeyIsTrue, RunIsTrue, MayTry
    <3> QED BY <2>0, <2>2, <3>1, <3>2, OwnKey
  <2> QED BY <2>1, <2>2
<1>8. ASSUME NEW r \in Run, NEW status \in Status, SendCall(r, status) PROVE KeyIsTrue(k)'
  <2>0. KeyIsTrue(k)
    BY <1>8, <1>a DEF SendCall
  <2>1. CASE r \notin Under(k)
    BY <1>0, <1>8, <2>0, <2>1, OtherKey
       DEF SendCall, Continues, Under, NoRun, DirectTypes, Arrives, Status
  <2>2. CASE r \in Under(k)
    <3>1. /\ \A q \in Run \ {r} : run'[q] = run[q]
          /\ r \in Under(k)' => RunIsTrue(r, k)'
      BY <1>0, <1>8, <2>0, <2>2
         DEF SendCall, Continues, Under, NoRun, DirectTypes, KeyIsTrue, RunIsTrue, MayTry, Arrives, Status
    <3>2. went'[k] <= 1 /\ (MayTry(k)' => went'[k] = 0)
      BY <1>0, <1>8, <2>0, <2>2
         DEF SendCall, Continues, Under, NoRun, DirectTypes, KeyIsTrue, RunIsTrue, MayTry, Arrives, Status
    <3> QED BY <2>0, <2>2, <3>1, <3>2, OwnKey
  <2> QED BY <2>1, <2>2
<1>9. ASSUME NEW r \in Run, SendDies(r) PROVE KeyIsTrue(k)'
  <2>0. KeyIsTrue(k)
    BY <1>9, <1>a DEF SendDies
  <2>1. CASE r \notin Under(k)
    BY <1>0, <1>9, <2>0, <2>1, OtherKey
       DEF SendDies, Continues, Under, NoRun, DirectTypes, Arrives
  <2>2. CASE r \in Under(k)
    <3>1. /\ \A q \in Run \ {r} : run'[q] = run[q]
          /\ r \in Under(k)' => RunIsTrue(r, k)'
      BY <1>0, <1>9, <2>0, <2>2
         DEF SendDies, Continues, Under, NoRun, DirectTypes, KeyIsTrue, RunIsTrue, MayTry, Arrives
    <3>2. went'[k] <= 1 /\ (MayTry(k)' => went'[k] = 0)
      BY <1>0, <1>9, <2>0, <2>2
         DEF SendDies, Continues, Under, NoRun, DirectTypes, KeyIsTrue, RunIsTrue, MayTry, Arrives
    <3> QED BY <2>0, <2>2, <3>1, <3>2, OwnKey
  <2> QED BY <2>1, <2>2
<1>10. CASE UNCHANGED directVars
  BY <1>0, <1>10, <1>a, OtherKey DEF directVars, Under
<1> QED BY <1>1, <1>2, <1>3, <1>4, <1>5, <1>6, <1>7, <1>8, <1>9, <1>10 DEF DirectNext

\* The records, drafts and runs keep their types.
THEOREM DirectTyped == DirectSpec => []DirectTypes
<1>1. DirectInv => DirectTypes
  BY DEF DirectInv
<1> QED BY <1>1, DirectInitInv, DirectNextInv, PTL DEF DirectSpec

\* For any number of runs and messages, killed and uncertain wherever: a
\* message reaches its recipient at most once, with the exceptions ReachedOnce
\* names.
THEOREM DirectOnce == DirectSpec => []ReachedOnce
<1>1. DirectInv => ReachedOnce
  BY DEF DirectInv, ReachedOnce, KeyIsTrue
<1> QED BY <1>1, DirectInitInv, DirectNextInv, PTL DEF DirectSpec
-----------------------------------------------------------------------------
(* Watermark                                                               *)

(* Proofs about Watermark.  Every copy of the store, in the file or in the      *)
(* hands of a session, says only what was read and put off, so writing one      *)
(* over another leaves a store that says no more than that.                     *)

\* With what r says was read, everything up to m was read for the mark k.
ReadTo(r, k, m) == 1..m \subseteq r[k] \cup r[Surface]

\* A store or a copy of it says no more than what was read and put off.
StoreIsTrue(x, r, d) ==
  \A k \in Mark : ReadTo(r, k, x.through[k]) /\ x.deferral[k] <= d[k]

CommandIsTrue(c, r, d) ==
  /\ StoreIsTrue(c.copy, r, d)
  /\ c.does \in {"read", "advance"} => \A k \in c.keys : ReadTo(r, k, c.reach)

MarkInv ==
  /\ MarkTypes
  /\ StoreIsTrue(store, reads, deferred)
  /\ \A p \in Ritual : CommandIsTrue(command[p], reads, deferred)
-----------------------------------------------------------------------------
\* Of two numbers Min returns one that is no larger than the other ...
LEMMA MinOfTwo ==
  ASSUME NEW a \in Nat, NEW b \in Nat
  PROVE  Min({a, b}) \in {a, b} /\ Min({a, b}) <= b
<1>1. \E x \in {a, b} : \A y \in {a, b} : x <= y
  <2>1. CASE a <= b
    BY <2>1
  <2>2. CASE b <= a
    BY <2>2
  <2> QED BY <2>1, <2>2
<1> QED BY <1>1 DEF Min

\* ... and Max one that is no smaller.
LEMMA MaxOfTwo ==
  ASSUME NEW a \in Nat, NEW b \in Nat
  PROVE  Max({a, b}) \in {a, b} /\ a <= Max({a, b}) /\ b <= Max({a, b})
<1>1. \E x \in {a, b} : \A y \in {a, b} : x >= y
  <2>1. CASE a <= b
    BY <2>1
  <2>2. CASE b <= a
    BY <2>2
  <2> QED BY <2>1, <2>2
<1> QED BY <1>1 DEF Max

\* What was read up to a moment was read up to every earlier one.
LEMMA ReadToEarlier ==
  ASSUME NEW r, NEW k, NEW m \in Nat, NEW n \in Nat, n <= m, ReadTo(r, k, m)
  PROVE  ReadTo(r, k, n)
  BY DEF ReadTo

\* Reading and putting off more keeps what was true.
LEMMA TrueStays ==
  ASSUME NEW r, NEW q, NEW d \in [Mark -> Moment], NEW e \in [Mark -> Moment],
         \A k \in Mark : r[k] \subseteq q[k] /\ d[k] <= e[k]
  PROVE  /\ \A k \in Mark : \A m : ReadTo(r, k, m) => ReadTo(q, k, m)
         /\ \A x \in Store : StoreIsTrue(x, r, d) => StoreIsTrue(x, q, e)
         /\ \A c \in Command : CommandIsTrue(c, r, d) => CommandIsTrue(c, q, e)
<1>1. ASSUME NEW k \in Mark, NEW m, ReadTo(r, k, m) PROVE ReadTo(q, k, m)
  BY <1>1 DEF ReadTo, Mark
<1>2. ASSUME NEW x \in Store, StoreIsTrue(x, r, d) PROVE StoreIsTrue(x, q, e)
  <2> SUFFICES ASSUME NEW k \in Mark
               PROVE  ReadTo(q, k, x.through[k]) /\ x.deferral[k] <= e[k]
    BY DEF StoreIsTrue
  <2>1. ReadTo(r, k, x.through[k]) /\ x.deferral[k] <= d[k]
    BY <1>2 DEF StoreIsTrue
  <2>2. x.deferral[k] \in Nat /\ d[k] \in Nat /\ e[k] \in Nat
    BY WatermarkAssumption DEF Store, Moment
  <2> QED BY <1>1, <2>1, <2>2
<1>3. ASSUME NEW c \in Command, CommandIsTrue(c, r, d)
      PROVE  CommandIsTrue(c, q, e)
  BY <1>1, <1>2, <1>3 DEF CommandIsTrue, Command
<1> QED BY <1>1, <1>2, <1>3

\* Nothing is read or marked at first.
LEMMA MarkInitInv == MarkInit => MarkInv
<1> SUFFICES ASSUME MarkInit PROVE MarkInv
  OBVIOUS
<1>1. NoMarks \in Store /\ NoCommand \in Command
  BY WatermarkAssumption DEF NoMarks, None0, Store, Moment, NoCommand, Command
<1>2. MarkTypes
  <2>1. undone \in BOOLEAN
    BY DEF MarkInit
  <2> QED BY <1>1, <2>1, WatermarkAssumption DEF MarkInit, MarkTypes, None0, Moment
<1>3. StoreIsTrue(NoMarks, reads, deferred)
  BY DEF StoreIsTrue, NoMarks, None0, ReadTo, MarkInit
<1> QED BY <1>2, <1>3 DEF MarkInit, MarkInv, CommandIsTrue, NoCommand

\* The marks and deferrals a command writes keep their types.
LEMMA PutMarksType ==
  ASSUME NEW f \in [Mark -> Moment], NEW keys \in SUBSET Mark, NEW m \in Moment
  PROVE  PutMarks(f, keys, m) \in [Mark -> Moment]
  BY DEF PutMarks

\* What advance writes is a store.
LEMMA AdvancedType ==
  ASSUME NEW c \in Command
  PROVE  /\ Advanced(c) \in Store
         /\ Advanced(c).run = c.copy.run
         /\ \E moves \in SUBSET c.keys :
              /\ Advanced(c).through = PutMarks(c.copy.through, moves, c.reach)
              /\ Advanced(c).deferral = PutMarks(c.copy.deferral, moves, 0)
<1> DEFINE moves == {k \in c.keys : c.reach >= c.copy.through[k]}
<1>1. moves \in SUBSET Mark /\ moves \in SUBSET c.keys
  BY DEF Command
<1>2. c.copy \in Store /\ c.reach \in Moment /\ 0 \in Moment
  BY WatermarkAssumption DEF Command, Moment
<1>3. /\ PutMarks(c.copy.through, moves, c.reach) \in [Mark -> Moment]
      /\ PutMarks(c.copy.deferral, moves, 0) \in [Mark -> Moment]
  BY <1>1, <1>2, PutMarksType DEF Store
<1> HIDE DEF moves
<1>4. Advanced(c) = [c.copy EXCEPT
                       !.through = PutMarks(c.copy.through, moves, c.reach),
                       !.deferral = PutMarks(c.copy.deferral, moves, 0)]
  BY DEF Advanced, moves
<1> QED BY <1>1, <1>2, <1>3, <1>4 DEF Store

\* A session that loads the store has a command with that copy.
LEMMA LoadTypes ==
  ASSUME MarkTypes, NEW p \in Ritual, NEW c \in Command, Load(p, c)
  PROVE  MarkTypes' /\ command' = [command EXCEPT ![p] = [c EXCEPT !.copy = store]]
<1>1. [c EXCEPT !.copy = store] \in Command
  BY DEF MarkTypes, Command
<1>2. command' \in [Ritual -> Command]
  BY <1>1 DEF Load, MarkTypes
<1> QED BY <1>2 DEF Load, MarkTypes, history

\* ... and one that writes it is done.
LEMMA SaveTypes ==
  ASSUME MarkTypes, NEW p \in Ritual, NEW does, NEW x \in Store,
         Save(p, does, x), begun' \in Moment, deferred' \in [Mark -> Moment]
  PROVE  MarkTypes'
<1>0. /\ highest' \in [Mark -> Moment] /\ lost' \subseteq Mark
      /\ undone' \in BOOLEAN
  <2>1. \A k \in Mark : /\ highest[k] \in Moment /\ highest[k] \in Nat
                        /\ x.through[k] \in Moment /\ x.through[k] \in Nat
    BY DEF MarkTypes, Store, Moment
  <2>2. \A k \in Mark : Max({highest[k], x.through[k]}) \in Moment
    BY <2>1, MaxOfTwo
  <2>3. highest' = [k \in Mark |-> Max({highest[k], x.through[k]})]
    BY DEF Save
  <2> QED BY <2>2, <2>3 DEF Save, Stale, MarkTypes
<1>1. NoCommand \in Command
  BY WatermarkAssumption
     DEF NoMarks, None0, Store, Moment, NoCommand, Command
<1>2. command' \in [Ritual -> Command]
  BY <1>1 DEF Save, MarkTypes
<1> QED BY <1>0, <1>2 DEF Save, MarkTypes

\* What SaveBegin and SaveDefer write are stores.
LEMMA BegunType ==
  ASSUME NEW x \in Store, NEW m \in Moment
  PROVE  /\ [x EXCEPT !.run = m] \in Store
         /\ [x EXCEPT !.run = m].through = x.through
         /\ [x EXCEPT !.run = m].deferral = x.deferral
  BY DEF Store

LEMMA DeferredType ==
  ASSUME NEW x \in Store, NEW f \in [Mark -> Moment]
  PROVE  /\ [x EXCEPT !.deferral = f] \in Store
         /\ [x EXCEPT !.deferral = f].through = x.through
         /\ [x EXCEPT !.deferral = f].deferral = f
  BY DEF Store

\* The command of a session that reads, begins or defers.
LEMMA NewCommandType ==
  ASSUME NEW does \in {"read", "begin", "defer"}, NEW keys \in SUBSET Mark,
         NEW at \in Moment, NEW reach \in Moment
  PROVE  [NoCommand EXCEPT !.does = does, !.keys = keys, !.at = at,
                           !.reach = reach] \in Command
<1>1. NoMarks \in Store
  BY WatermarkAssumption DEF NoMarks, None0, Store, Moment
<1> QED BY <1>1 DEF NoCommand, Command

\* What other commands hold stays true while one command starts or ends.
LEMMA OthersStayTrue ==
  ASSUME MarkInv, MarkTypes', NEW p \in Ritual,
         \A k \in Mark : reads[k] \subseteq reads'[k]
                         /\ deferred[k] <= deferred'[k],
         \A q \in Ritual \ {p} : command'[q] = command[q],
         StoreIsTrue(store', reads', deferred'),
         CommandIsTrue(command'[p], reads', deferred')
  PROVE  MarkInv'
<1>1. \A q \in Ritual \ {p} : CommandIsTrue(command'[q], reads', deferred')
  BY TrueStays DEF MarkInv, MarkTypes
<1> QED BY <1>1 DEF MarkInv

\* Every step keeps the invariant.
LEMMA MarkNextInv == MarkInv /\ [MarkNext]_markVars => MarkInv'
<1> SUFFICES ASSUME MarkInv, [MarkNext]_markVars PROVE MarkInv'
  OBVIOUS
<1> USE WatermarkAssumption
<1>0. /\ MarkTypes /\ StoreIsTrue(store, reads, deferred)
      /\ \A p \in Ritual : CommandIsTrue(command[p], reads, deferred)
      /\ \A k \in Mark : deferred[k] <= deferred[k]
  BY DEF MarkInv, MarkTypes, Moment
<1>a. /\ NoCommand \in Command
      /\ CommandIsTrue(NoCommand, reads, deferred)
  <2>1. NoMarks \in Store
    BY DEF NoMarks, None0, Store, Moment
  <2>2. NoCommand \in Command
    BY <2>1 DEF NoCommand, Command, Moment
  <2>3. \A k \in Mark : deferred[k] \in Nat
    BY <1>0 DEF MarkTypes, Moment
  <2>4. StoreIsTrue(NoMarks, reads, deferred)
    BY <2>3 DEF StoreIsTrue, NoMarks, None0, ReadTo
  <2> QED BY <2>2, <2>4 DEF CommandIsTrue, NoCommand
<1>1. CASE MarkTick
  BY <1>0, <1>1 DEF MarkTick, MarkTypes, MarkInv, Moment, history
<1>2. ASSUME NEW p \in Ritual, NEW reach \in 1..clock,
             NEW keys \in ((SUBSET Target) \ {{}}) \cup {{Surface}},
             ReadUpTo(p, keys, reach)
      PROVE  MarkInv'
  <2> DEFINE c == [NoCommand EXCEPT !.does = "read", !.keys = keys,
                                    !.at = clock, !.reach = reach]
  <2>1. keys \in SUBSET Mark /\ reach \in Moment /\ clock \in Moment
    BY <1>0 DEF Mark, MarkTypes, Moment
  <2>2. c \in Command
    BY <2>1, NewCommandType
  <2>3. /\ c.does = "read" /\ c.keys = keys /\ c.reach = reach
        /\ c.copy = NoMarks
    BY DEF NoCommand
  <2> HIDE DEF c
  <2>4. command' = [command EXCEPT ![p] = c] /\ command'[p] = c
    BY <1>0, <1>2 DEF ReadUpTo, c, MarkTypes
  <2>5. reads' \in [Mark -> SUBSET Moment]
    <3>1. \A k \in Mark : Oldest(k) \in Nat
      BY <1>0 DEF Oldest, MarkTypes, Store, Mark, Moment
    <3>2. \A k \in Mark : (Oldest(k) + 1)..reach \subseteq Moment
      BY <2>1, <3>1 DEF Moment
    <3> QED BY <1>0, <1>2, <3>2 DEF ReadUpTo, MarkTypes, history
  <2>6. MarkTypes'
    BY <1>0, <1>2, <2>2, <2>4, <2>5 DEF ReadUpTo, MarkTypes, history
  <2>7. \A k \in Mark : reads[k] \subseteq reads'[k]
                         /\ deferred[k] <= deferred'[k]
    BY <1>0, <1>2 DEF ReadUpTo, MarkTypes, history
  <2>8. ASSUME NEW k \in keys PROVE ReadTo(reads', k, reach)
    <3>0. k \in Mark /\ Surface \in Mark
      BY <2>1 DEF Mark
    <3>1. ReadTo(reads, k, Oldest(k))
      BY <1>0, <3>0 DEF Oldest, StoreIsTrue, ReadTo
    <3>2. (Oldest(k) + 1)..reach \subseteq reads'[k]
      BY <1>2, <3>0 DEF ReadUpTo
    <3>3. Oldest(k) \in Nat /\ reach \in Nat
      BY <1>0, <2>1, <3>0 DEF Oldest, MarkTypes, Store, Moment
    <3>4. 1..reach \subseteq 1..Oldest(k) \cup (Oldest(k) + 1)..reach
      BY <3>3
    <3> QED BY <2>7, <3>0, <3>1, <3>2, <3>4 DEF ReadTo
  <2>9. StoreIsTrue(store', reads', deferred')
    BY <1>0, <1>2, <2>6, <2>7, TrueStays DEF ReadUpTo, MarkTypes, history
  <2>10. CommandIsTrue(c, reads', deferred')
    BY <1>0, <1>a, <2>3, <2>6, <2>7, <2>8, TrueStays
       DEF CommandIsTrue, MarkTypes, NoCommand, Command
  <2> QED BY <1>2, <2>4, <2>6, <2>7, <2>9, <2>10, OthersStayTrue
             DEF ReadUpTo, MarkTypes, history
<1>3. ASSUME NEW p \in Ritual, NEW c \in Command, Load(p, c),
             c.does = "advance" => \A k \in c.keys : ReadTo(reads, k, c.reach),
             c.does # "read"
      PROVE  MarkInv'
  <2>1. MarkTypes' /\ command' = [command EXCEPT ![p] = [c EXCEPT !.copy = store]]
    BY <1>0, <1>3, LoadTypes
  <2>2. /\ command'[p] = [c EXCEPT !.copy = store]
        /\ \A q \in Ritual \ {p} : command'[q] = command[q]
    BY <1>0, <2>1 DEF MarkTypes
  <2>3. CommandIsTrue(command'[p], reads, deferred)
    BY <1>0, <1>3, <2>2 DEF CommandIsTrue, Command
  <2>4. store' = store /\ reads' = reads /\ deferred' = deferred
    BY <1>3 DEF Load, history
  <2> QED BY <1>0, <2>1, <2>2, <2>3, <2>4, OthersStayTrue
<1>4. ASSUME NEW p \in Ritual, LoadBegin(p) PROVE MarkInv'
  <2>1. clock \in Moment
    BY <1>0 DEF MarkTypes
  <2>2. [NoCommand EXCEPT !.does = "begin", !.at = clock] \in Command
    BY <1>a, <2>1 DEF Command
  <2>3. [NoCommand EXCEPT !.does = "begin", !.at = clock].does = "begin"
    BY DEF NoCommand
  <2> QED BY <1>3, <1>4, <2>2, <2>3 DEF LoadBegin
<1>5. ASSUME NEW p \in Ritual, NEW k \in Mark, LoadDefer(p, k) PROVE MarkInv'
  <2>1. clock \in Moment
    BY <1>0 DEF MarkTypes
  <2>2. [NoCommand EXCEPT !.does = "defer", !.keys = {k}, !.at = clock] \in Command
    BY <1>a, <2>1 DEF Command
  <2>3. [NoCommand EXCEPT !.does = "defer", !.keys = {k}, !.at = clock].does
          = "defer"
    BY DEF NoCommand
  <2> QED BY <1>3, <1>5, <2>2, <2>3 DEF LoadDefer
<1>6. ASSUME NEW p \in Ritual, LoadAdvance(p) PROVE MarkInv'
  <2> DEFINE r == command[p]
             c == [r EXCEPT !.does = "advance", !.reach = Reach(r)]
  <2>1. r \in Command /\ r.reach \in Nat /\ r.at \in Nat
    BY <1>0 DEF MarkTypes, Command, Moment
  <2>2. Reach(r) \in Moment /\ Reach(r) \in Nat /\ Reach(r) <= r.reach
    BY <2>1, MinOfTwo DEF Reach, Command, Moment
  <2>3. c \in Command /\ c.does = "advance" /\ c.keys = r.keys
        /\ c.reach = Reach(r)
    BY <2>1, <2>2 DEF Command
  <2>4. \A k \in r.keys : ReadTo(reads, k, r.reach)
    BY <1>0, <1>6 DEF LoadAdvance, CommandIsTrue
  <2>5. \A k \in c.keys : ReadTo(reads, k, c.reach)
    BY <2>1, <2>2, <2>3, <2>4, ReadToEarlier
  <2>6. Load(p, c)
    BY <1>6 DEF LoadAdvance
  <2> HIDE DEF c, r
  <2> QED BY <1>3, <2>3, <2>5, <2>6
<1>7. ASSUME NEW p \in Ritual, NEW does, NEW x \in Store, Save(p, does, x),
             begun' \in Moment, deferred' \in [Mark -> Moment],
             \A k \in Mark : deferred[k] <= deferred'[k],
             StoreIsTrue(x, reads, deferred')
      PROVE  MarkInv'
  <2>1. MarkTypes'
    BY <1>0, <1>7, SaveTypes
  <2>2. /\ command'[p] = NoCommand
        /\ \A q \in Ritual \ {p} : command'[q] = command[q]
        /\ store' = x /\ reads' = reads
    BY <1>0, <1>7 DEF Save, MarkTypes
  <2>3. CommandIsTrue(NoCommand, reads, deferred')
    BY <1>0, <1>a, <1>7, TrueStays DEF MarkTypes
  <2> QED BY <1>7, <2>1, <2>2, <2>3, OthersStayTrue
<1>8. ASSUME NEW p \in Ritual PROVE
        /\ command[p] \in Command /\ command[p].copy \in Store
        /\ StoreIsTrue(command[p].copy, reads, deferred)
        /\ command[p].at \in Moment /\ command[p].at \in Nat
  BY <1>0, <1>8 DEF MarkTypes, Command, CommandIsTrue, Moment
<1>9. ASSUME NEW p \in Ritual, SaveBegin(p) PROVE MarkInv'
  <2> DEFINE x == [command[p].copy EXCEPT !.run = command[p].at]
  <2>1. /\ x \in Store /\ x.through = command[p].copy.through
        /\ x.deferral = command[p].copy.deferral
    BY <1>8, BegunType
  <2>2. Save(p, "begin", x) /\ deferred' = deferred
    BY <1>9 DEF SaveBegin
  <2>3. begun' \in Moment
    <3>1. begun \in Moment /\ begun \in Nat
      BY <1>0 DEF MarkTypes, Moment
    <3>2. Max({begun, command[p].at}) \in {begun, command[p].at}
      BY <1>8, <3>1, MaxOfTwo
    <3> QED BY <1>8, <1>9, <3>1, <3>2 DEF SaveBegin
  <2> HIDE DEF x
  <2>4. StoreIsTrue(x, reads, deferred)
    BY <1>8, <2>1 DEF StoreIsTrue
  <2> QED BY <1>0, <1>7, <2>1, <2>2, <2>3, <2>4 DEF MarkTypes
<1>10. ASSUME NEW p \in Ritual, SaveDefer(p) PROVE MarkInv'
  <2> DEFINE c == command[p]
             f == PutMarks(c.copy.deferral, c.keys, c.at)
             x == [c.copy EXCEPT !.deferral = f]
  <2>1. f \in [Mark -> Moment]
    BY <1>8, PutMarksType DEF Store, Command
  <2>2. x \in Store /\ x.through = c.copy.through /\ x.deferral = f
    BY <1>8, <2>1, DeferredType
  <2>3. Save(p, "defer", x) /\ begun' = begun
    BY <1>10 DEF SaveDefer
  <2>4. \A k \in Mark : deferred[k] \in Nat /\ deferred[k] \in Moment
    BY <1>0 DEF MarkTypes, Moment
  <2>5. deferred' = [k \in Mark |-> IF k \in c.keys THEN Max({deferred[k], c.at})
                                    ELSE deferred[k]]
    BY <1>10 DEF SaveDefer
  <2>6. \A k \in Mark :
          /\ deferred'[k] \in Moment
          /\ deferred[k] <= deferred'[k]
          /\ k \in c.keys => c.at <= deferred'[k]
    <3> SUFFICES ASSUME NEW k \in Mark
                 PROVE  /\ deferred'[k] \in Moment
                        /\ deferred[k] <= deferred'[k]
                        /\ k \in c.keys => c.at <= deferred'[k]
      OBVIOUS
    <3>1. CASE k \in c.keys
      <4> DEFINE m == Max({deferred[k], c.at})
      <4>1. m \in {deferred[k], c.at} /\ deferred[k] <= m /\ c.at <= m
        BY <1>8, <2>4, MaxOfTwo
      <4>2. deferred'[k] = m
        BY <2>5, <3>1
      <4> QED BY <1>8, <2>4, <4>1, <4>2
    <3>2. CASE k \notin c.keys
      BY <2>4, <2>5, <3>2
    <3> QED BY <3>1, <3>2
  <2>7. deferred' \in [Mark -> Moment]
    BY <2>5, <2>6
  <2>8. StoreIsTrue(x, reads, deferred')
    <3> SUFFICES ASSUME NEW k \in Mark
                 PROVE  ReadTo(reads, k, x.through[k]) /\ x.deferral[k] <= deferred'[k]
      BY DEF StoreIsTrue
    <3>1. ReadTo(reads, k, x.through[k])
      BY <1>8, <2>2 DEF StoreIsTrue
    <3>2. c.copy.deferral[k] <= deferred[k] /\ c.copy.deferral[k] \in Nat
      BY <1>8 DEF StoreIsTrue, Store, Moment
    <3>3. x.deferral[k] = IF k \in c.keys THEN c.at ELSE c.copy.deferral[k]
      BY <2>2 DEF PutMarks
    <3>4. deferred'[k] \in Nat /\ deferred[k] \in Nat
      BY <2>4, <2>6 DEF Moment
    <3>5. deferred[k] <= deferred'[k] /\ (k \in c.keys => c.at <= deferred'[k])
      BY <2>6
    <3>6. c.at \in Nat
      BY <1>8
    <3>7. x.deferral[k] <= deferred'[k]
      BY <3>2, <3>3, <3>4, <3>5
    <3> QED BY <3>1, <3>7
  <2> HIDE DEF x, c, f
  <2> QED BY <1>0, <1>7, <2>2, <2>3, <2>6, <2>7, <2>8 DEF MarkTypes
<1>11. ASSUME NEW p \in Ritual, SaveAdvance(p) PROVE MarkInv'
  <2> DEFINE c == command[p]
             x == Advanced(c)
  <2>1. c \in Command
    BY <1>8
  <2>2. PICK moves \in SUBSET c.keys :
          /\ x.through = PutMarks(c.copy.through, moves, c.reach)
          /\ x.deferral = PutMarks(c.copy.deferral, moves, 0)
    BY <2>1, AdvancedType
  <2>3. x \in Store
    BY <2>1, AdvancedType
  <2>4. Save(p, "advance", x) /\ begun' = begun /\ deferred' = deferred
    BY <1>11 DEF SaveAdvance
  <2>5. \A k \in c.keys : ReadTo(reads, k, c.reach)
    BY <1>0, <1>11 DEF SaveAdvance, Save, CommandIsTrue
  <2> HIDE DEF x
  <2>6. StoreIsTrue(x, reads, deferred)
    <3> SUFFICES ASSUME NEW k \in Mark
                 PROVE  ReadTo(reads, k, x.through[k]) /\ x.deferral[k] <= deferred[k]
      BY DEF StoreIsTrue
    <3>1. /\ x.through[k] = IF k \in moves THEN c.reach ELSE c.copy.through[k]
          /\ x.deferral[k] = IF k \in moves THEN 0 ELSE c.copy.deferral[k]
      BY <2>2 DEF PutMarks
    <3>2. ReadTo(reads, k, c.copy.through[k]) /\ c.copy.deferral[k] <= deferred[k]
      BY <1>8 DEF StoreIsTrue
    <3>3. 0 <= deferred[k]
      BY <1>0 DEF MarkTypes, Moment
    <3> QED BY <2>2, <2>5, <3>1, <3>2, <3>3
  <2> QED BY <1>0, <1>7, <2>3, <2>4, <2>6 DEF MarkTypes
<1>12. ASSUME NEW p \in Ritual, RitualDies(p) PROVE MarkInv'
  <2>1. /\ command' = [command EXCEPT ![p] = NoCommand]
        /\ UNCHANGED <<clock, store, loads, reads, begun, deferred, highest,
                       lost, undone>>
    BY <1>12 DEF RitualDies, history
  <2>2. MarkTypes'
    BY <1>0, <1>a, <2>1 DEF MarkTypes
  <2> QED BY <1>0, <1>a, <2>1, <2>2, OthersStayTrue DEF MarkTypes
<1>13. CASE UNCHANGED markVars
  BY <1>0, <1>13 DEF markVars, history, MarkInv, MarkTypes
<1> QED BY <1>1, <1>2, <1>4, <1>5, <1>6, <1>9, <1>10, <1>11, <1>12, <1>13
           DEF MarkNext

\* What a command writes is, for a mark that nobody moved meanwhile, no less
\* than the file had.
LEMMA SaveStands ==
  ASSUME MarkTypes, MarksStand, NEW p \in Ritual, NEW does, NEW x \in Store,
         Save(p, does, x),
         \A k \in Mark : command[p].copy.through[k] <= x.through[k]
  PROVE  MarksStand'
<1> SUFFICES ASSUME NEW k \in Mark, k \notin lost'
             PROVE  store'.through[k] = highest'[k]
  BY DEF MarksStand
<1>1. /\ x.through[k] \in Nat /\ highest[k] \in Nat
      /\ store' = x /\ highest'[k] = Max({highest[k], x.through[k]})
  BY DEF Save, MarkTypes, Store, Moment
<1>2. highest[k] <= x.through[k]
  <2>1. CASE k \in lost \cup Stale(p)
    BY <1>1, <2>1 DEF Save
  <2>2. CASE k \notin lost \cup Stale(p)
    BY <2>2 DEF Stale, MarksStand
  <2> QED BY <2>1, <2>2
<1> QED BY <1>1, <1>2, MaxOfTwo

\* So a mark is behind only where a copy loaded before it moved put it back.
LEMMA StandsStep ==
  MarkTypes /\ MarksStand /\ [MarkNext]_markVars => MarksStand'
<1> SUFFICES ASSUME MarkTypes, MarksStand, [MarkNext]_markVars
             PROVE  MarksStand'
  OBVIOUS
<1>0. \A p \in Ritual :
        /\ command[p] \in Command /\ command[p].copy \in Store
        /\ command[p].at \in Moment
        /\ \A k \in Mark : command[p].copy.through[k] \in Nat
  BY DEF MarkTypes, Command, Store, Moment
<1>1. ASSUME NEW p \in Ritual, SaveBegin(p) PROVE MarksStand'
  <2> DEFINE x == [command[p].copy EXCEPT !.run = command[p].at]
  <2>1. x \in Store /\ x.through = command[p].copy.through
    BY <1>0, BegunType
  <2>2. Save(p, "begin", x)
    BY <1>1 DEF SaveBegin
  <2> HIDE DEF x
  <2> QED BY <1>0, <2>1, <2>2, SaveStands
<1>2. ASSUME NEW p \in Ritual, SaveDefer(p) PROVE MarksStand'
  <2> DEFINE c == command[p]
             f == PutMarks(c.copy.deferral, c.keys, c.at)
             x == [c.copy EXCEPT !.deferral = f]
  <2>1. f \in [Mark -> Moment]
    BY <1>0, PutMarksType DEF Store, Command
  <2>2. x \in Store /\ x.through = c.copy.through
    BY <1>0, <2>1, DeferredType
  <2>3. Save(p, "defer", x)
    BY <1>2 DEF SaveDefer
  <2> HIDE DEF x, f
  <2> QED BY <1>0, <2>2, <2>3, SaveStands
<1>3. ASSUME NEW p \in Ritual, SaveAdvance(p) PROVE MarksStand'
  <2> DEFINE c == command[p]
             x == Advanced(c)
             moves == {k \in c.keys : c.reach >= c.copy.through[k]}
  <2>1. x \in Store
    BY <1>0, AdvancedType
  <2>2. x.through = PutMarks(c.copy.through, moves, c.reach)
    BY <1>0 DEF Advanced, Store
  <2>3. \A k \in Mark : c.copy.through[k] <= x.through[k]
    <3> SUFFICES ASSUME NEW k \in Mark
                 PROVE  c.copy.through[k] <= x.through[k]
      OBVIOUS
    <3>1. x.through[k] = IF k \in moves THEN c.reach ELSE c.copy.through[k]
      BY <2>2 DEF PutMarks
    <3>2. c.reach \in Nat /\ c.copy.through[k] \in Nat
      BY <1>0 DEF Command, Moment
    <3> QED BY <3>1, <3>2
  <2>4. Save(p, "advance", x)
    BY <1>3 DEF SaveAdvance
  <2> HIDE DEF x
  <2> QED BY <2>1, <2>3, <2>4, SaveStands
<1>4. CASE UNCHANGED <<store, highest, lost>>
  BY <1>4 DEF MarksStand
<1> QED BY <1>1, <1>2, <1>3, <1>4
  DEF MarkNext, MarkTick, LoadBegin, LoadAdvance, LoadDefer, ReadUpTo, Load,
      RitualDies, markVars, history

LEMMA StandsInit == MarkInit => MarksStand
BY DEF MarkInit, MarksStand, NoMarks, None0

\* Runs are begun in the past, and the file and its copies name none later than
\* the last: the file names the last, unless a copy from before was put back.
RunInv ==
  /\ begun <= clock /\ store.run <= begun
  /\ \A p \in Ritual :
       /\ command[p].copy.run <= begun
       /\ command[p].does = "begin" =>
            command[p].copy.run <= command[p].at /\ command[p].at <= clock
  /\ undone \/ store.run = begun

\* A command that writes the file names the run it began or the one it loaded.
LEMMA SaveRun ==
  ASSUME MarkTypes, RunInv, NEW p \in Ritual, NEW does, NEW x \in Store,
         Save(p, does, x), command[p].copy.run <= x.run, x.run <= clock,
         \/ begun' = begun /\ x.run = command[p].copy.run
         \/ begun' = Max({begun, x.run})
  PROVE  RunInv'
<1>0. /\ x.run \in Nat /\ begun \in Nat /\ clock \in Nat /\ store.run \in Nat
      /\ \A q \in Ritual : command[q].copy.run \in Nat /\ command[q].at \in Nat
  BY DEF MarkTypes, Command, Store, Moment
<1>1. /\ store' = x /\ clock' = clock
      /\ command' = [command EXCEPT ![p] = NoCommand]
      /\ undone' = ((undone \/ command[p].copy.run # store.run) /\ x.run < begun)
  BY DEF Save
<1>2. begun' \in Nat /\ begun <= begun' /\ x.run <= begun' /\ begun' <= clock
  BY <1>0, MaxOfTwo DEF RunInv
<1>3. ASSUME NEW q \in Ritual
      PROVE  /\ command'[q].copy.run <= begun'
             /\ command'[q].does = "begin" =>
                  command'[q].copy.run <= command'[q].at /\ command'[q].at <= clock'
  <2>1. CASE q = p
    BY <1>1, <1>2, <2>1 DEF MarkTypes, NoCommand, NoMarks
  <2>2. CASE q # p
    <3>1. command'[q] = command[q]
      BY <1>1, <2>2 DEF MarkTypes
    <3> QED BY <1>0, <1>1, <1>2, <3>1 DEF RunInv
  <2> QED BY <2>1, <2>2
<1>4. undone' \/ store'.run = begun'
  <2> SUFFICES ASSUME ~undone' PROVE x.run = begun'
    BY <1>1
  <2>1. ~((undone \/ command[p].copy.run # store.run) /\ x.run < begun)
    BY <1>1, Zenon
  <2>2. x.run >= begun \/ (~undone /\ command[p].copy.run = store.run)
    BY <1>0, <2>1
  <2>3. undone \/ store.run = begun
    BY DEF RunInv
  <2>4. x.run >= begun
    BY <1>0, <2>2, <2>3
  <2>5. command[p].copy.run <= begun
    BY DEF RunInv
  <2> QED BY <1>0, <2>4, <2>5, MaxOfTwo
<1> QED BY <1>1, <1>2, <1>3, <1>4 DEF RunInv

\* No step of a command names a run that was not begun.
LEMMA RunStep == MarkTypes /\ RunInv /\ [MarkNext]_markVars => RunInv'
<1> SUFFICES ASSUME MarkTypes, RunInv, [MarkNext]_markVars
             PROVE  RunInv'
  OBVIOUS
<1>0. /\ begun \in Nat /\ clock \in Nat /\ store.run \in Nat /\ store \in Store
      /\ \A p \in Ritual :
           /\ command[p] \in Command /\ command[p].copy \in Store
           /\ command[p].at \in Moment
           /\ command[p].copy.run \in Nat /\ command[p].at \in Nat
  BY DEF MarkTypes, Command, Store, Moment
<1>1. CASE MarkTick
  BY <1>0, <1>1 DEF MarkTick, history, RunInv
<1>2. ASSUME NEW p \in Ritual, NEW c,
             command' = [command EXCEPT ![p] = c],
             UNCHANGED <<clock, store, begun, undone>>,
             c.copy.run <= begun,
             c.does = "begin" => c.copy.run <= c.at /\ c.at <= clock
      PROVE  RunInv'
  <2>1. command'[p] = c /\ \A q \in Ritual \ {p} : command'[q] = command[q]
    BY <1>2 DEF MarkTypes
  <2> QED BY <1>2, <2>1 DEF RunInv
<1>a. [NoCommand EXCEPT !.does = "begin", !.at = clock] \in Command
      /\ \A k \in Mark : [NoCommand EXCEPT !.does = "defer", !.keys = {k},
                                           !.at = clock] \in Command
  <2>1. NoCommand \in Command
    BY WatermarkAssumption DEF NoMarks, None0, Store, Moment, NoCommand, Command
  <2>2. clock \in Moment
    BY DEF MarkTypes
  <2> QED BY <2>1, <2>2 DEF Command
<1>3. ASSUME NEW p \in Ritual, NEW c \in Command, Load(p, c),
             c.does = "begin" => c.at = clock
      PROVE  RunInv'
  <2> DEFINE d == [c EXCEPT !.copy = store]
  <2>1. d.does = c.does /\ d.at = c.at /\ d.copy = store
    BY DEF Command
  <2>2. /\ command' = [command EXCEPT ![p] = d]
        /\ UNCHANGED <<clock, store, begun, undone>>
    BY <1>3 DEF Load, history
  <2> HIDE DEF d
  <2>3. /\ d.copy.run <= begun
        /\ d.does = "begin" => d.copy.run <= d.at /\ d.at <= clock
    BY <1>0, <1>3, <2>1 DEF RunInv
  <2> QED BY <1>2, <2>2, <2>3
<1>b. ASSUME NEW p \in Ritual, LoadBegin(p) PROVE RunInv'
  <2> DEFINE c == [NoCommand EXCEPT !.does = "begin", !.at = clock]
  <2>1. c \in Command /\ c.at = clock
    BY <1>a DEF NoCommand
  <2>2. Load(p, c)
    BY <1>b DEF LoadBegin
  <2> HIDE DEF c
  <2> QED BY <1>3, <2>1, <2>2
<1>c. ASSUME NEW p \in Ritual, NEW k \in Mark, LoadDefer(p, k) PROVE RunInv'
  <2> DEFINE c == [NoCommand EXCEPT !.does = "defer", !.keys = {k}, !.at = clock]
  <2>1. c \in Command /\ c.does = "defer"
    BY <1>a DEF NoCommand
  <2>2. Load(p, c)
    BY <1>c DEF LoadDefer
  <2> HIDE DEF c
  <2> QED BY <1>3, <2>1, <2>2
<1>d. ASSUME NEW p \in Ritual, LoadAdvance(p) PROVE RunInv'
  <2> DEFINE r == command[p]
             c == [r EXCEPT !.does = "advance", !.reach = Reach(r)]
  <2>1. r \in Command /\ r.reach \in Nat /\ r.at \in Nat
    BY <1>0 DEF Command, Moment
  <2>2. Reach(r) \in Moment
    BY <2>1, MinOfTwo DEF Reach, Command, Moment
  <2>3. c \in Command /\ c.does = "advance"
    BY <2>1, <2>2 DEF Command
  <2>4. Load(p, c)
    BY <1>d DEF LoadAdvance
  <2> HIDE DEF c, r
  <2> QED BY <1>3, <2>3, <2>4
<1>4. ASSUME NEW p \in Ritual, NEW keys, NEW reach, ReadUpTo(p, keys, reach)
      PROVE  RunInv'
  <2> DEFINE c == [NoCommand EXCEPT !.does = "read", !.keys = keys, !.at = clock,
                                    !.reach = reach]
  <2>1. c.copy.run = 0 /\ c.does = "read"
    BY DEF NoCommand, NoMarks
  <2>2. command' = [command EXCEPT ![p] = c]
        /\ UNCHANGED <<clock, store, begun, undone>>
    BY <1>4 DEF ReadUpTo, history
  <2> HIDE DEF c
  <2>3. c.copy.run <= begun /\ c.does # "begin"
    BY <1>0, <2>1
  <2> QED BY <1>2, <2>2, <2>3
<1>5. ASSUME NEW p \in Ritual, SaveBegin(p) PROVE RunInv'
  <2> DEFINE x == [command[p].copy EXCEPT !.run = command[p].at]
  <2>1. x \in Store /\ x.run = command[p].at
    BY <1>0, BegunType DEF Store
  <2>2. /\ Save(p, "begin", x) /\ begun' = Max({begun, command[p].at})
        /\ command[p].does = "begin"
    BY <1>5 DEF SaveBegin, Save
  <2> HIDE DEF x
  <2>3. command[p].copy.run <= x.run /\ x.run <= clock
    BY <2>1, <2>2 DEF RunInv
  <2>4. Save(p, "begin", x) /\ begun' = Max({begun, x.run})
    BY <2>1, <2>2
  <2> QED BY <2>1, <2>3, <2>4, SaveRun
<1>e. ASSUME NEW p \in Ritual, NEW does, NEW x \in Store, Save(p, does, x),
             x.run = command[p].copy.run, begun' = begun
      PROVE  RunInv'
  <2>1. x.run <= begun /\ begun <= clock
    BY <1>e DEF RunInv
  <2>2. command[p].copy.run <= x.run /\ x.run <= clock
    BY <1>0, <1>e, <2>1
  <2> QED BY <1>e, <2>2, SaveRun
<1>6. ASSUME NEW p \in Ritual, SaveDefer(p) PROVE RunInv'
  <2> DEFINE c == command[p]
             f == PutMarks(c.copy.deferral, c.keys, c.at)
             x == [c.copy EXCEPT !.deferral = f]
  <2>1. f \in [Mark -> Moment]
    BY <1>0, PutMarksType DEF Store, Command
  <2>2. x \in Store /\ x.run = c.copy.run
    BY <1>0, <2>1, DeferredType DEF Store
  <2>3. Save(p, "defer", x) /\ begun' = begun
    BY <1>6 DEF SaveDefer
  <2> HIDE DEF x, f
  <2> QED BY <1>e, <2>2, <2>3
<1>7. ASSUME NEW p \in Ritual, SaveAdvance(p) PROVE RunInv'
  <2>1. Advanced(command[p]) \in Store
        /\ Advanced(command[p]).run = command[p].copy.run
    BY <1>0, AdvancedType
  <2>2. Save(p, "advance", Advanced(command[p])) /\ begun' = begun
    BY <1>7 DEF SaveAdvance
  <2> QED BY <1>e, <2>1, <2>2
<1>8. ASSUME NEW p \in Ritual, RitualDies(p) PROVE RunInv'
  <2>1. NoCommand.copy.run = 0 /\ NoCommand.does = "nothing"
    BY DEF NoCommand, NoMarks
  <2>2. command' = [command EXCEPT ![p] = NoCommand]
        /\ UNCHANGED <<clock, store, begun, undone>>
    BY <1>8 DEF RitualDies, history
  <2>3. NoCommand.copy.run <= begun /\ NoCommand.does # "begin"
    BY <1>0, <2>1
  <2> QED BY <1>2, <2>2, <2>3
<1>9. CASE UNCHANGED markVars
  BY <1>9 DEF markVars, history, RunInv
<1> QED BY <1>1, <1>b, <1>c, <1>d, <1>4, <1>5, <1>6, <1>7, <1>8, <1>9 DEF MarkNext

LEMMA RunInit == MarkInit => RunInv
<1>1. NoMarks.run = 0 /\ NoCommand.copy.run = 0 /\ NoCommand.does = "nothing"
  BY DEF NoMarks, NoCommand
<1> QED BY <1>1 DEF MarkInit, RunInv

\* What the invariants say of the store is what status may be asked for.
LEMMA TrueIsKept == MarkInv /\ RunInv => NoHole /\ RunVouched
<1> SUFFICES ASSUME MarkInv, RunInv PROVE NoHole /\ RunVouched
  OBVIOUS
<1> USE WatermarkAssumption
<1>1. \A k \in Mark :
        /\ ReadTo(reads, k, store.through[k])
        /\ store.deferral[k] <= deferred[k]
        /\ store.through[k] \in Nat /\ store.deferral[k] \in Nat
        /\ deferred[k] \in Nat /\ store.run \in Nat
  BY DEF MarkInv, StoreIsTrue, MarkTypes, Store, Moment
<1>2. NoHole
  BY <1>1 DEF NoHole, ReadTo
<1>3. ASSUME NothingBlocks, NEW t \in Target
      PROVE  ReadOrPutOff(t, store.run)
  <2>0. t \in Mark /\ Surface \in Mark
    BY DEF Mark
  <2>1. CASE LiveDeferral(Surface)
    BY <1>1, <1>3, <2>0, <2>1 DEF LiveDeferral, ReadOrPutOff
  <2>2. CASE LiveDeferral(t)
    BY <1>1, <1>3, <2>0, <2>2 DEF LiveDeferral, ReadOrPutOff
  <2>3. CASE Current(t)
    <3>1. /\ store.through[t] \in 1..store.through[t]
          /\ store.through[t] >= store.run
      BY <1>1, <1>3, <2>0, <2>3 DEF Current
    <3> QED BY <1>1, <2>0, <3>1 DEF ReadTo, ReadOrPutOff
  <2> QED BY <1>3, <2>1, <2>2, <2>3 DEF NothingBlocks
<1> QED BY <1>2, <1>3 DEF RunVouched, RunInv

\* The file, the copies and what was read keep their types.
THEOREM MarksTyped == MarkSpec => []MarkTypes
<1>1. MarkInv => MarkTypes
  BY DEF MarkInv
<1> QED BY <1>1, MarkInitInv, MarkNextInv, PTL DEF MarkSpec

\* For any number of sessions, targets and moments, and whichever copies are
\* written over which: no mark leaves a hole behind it, a mark is behind where
\* it was moved to only if a copy from before put it back, and what a run that
\* nothing blocks declares was read or put off since that run, the last one but
\* for such a copy.
THEOREM MarksAreKept == MarkSpec => []MarksKept
<1>1. MarkInit => MarkInv /\ MarksStand /\ RunInv
  BY MarkInitInv, StandsInit, RunInit
<1>2. MarkInv /\ MarksStand /\ RunInv /\ [MarkNext]_markVars
        => (MarkInv /\ MarksStand /\ RunInv)'
  BY MarkNextInv, StandsStep, RunStep DEF MarkInv
<1>3. MarkInv /\ MarksStand /\ RunInv => MarksKept
  BY TrueIsKept DEF MarksKept
<1> QED BY <1>1, <1>2, <1>3, PTL DEF MarkSpec
-----------------------------------------------------------------------------
(* Archive                                                                 *)

\* The rows that an export has put, or passed over, from the top of the file.
Past(x) == x.offset - Len(x.lines)

Kept(row) ==
  (\E p \in Records : At(p).row = row) \/ row \in torn \cup unseen

\* A number that a killed export used, where AppendedOnce makes an exception.
Excused(a, row) == a.from < rewrites \/ row \in unseen

\* What a killed export put under a number that is not counted: the row that
\* has this number if the file is read on from the offset, or from the top.
FromKilled(p) ==
  \E a \in again :
    /\ a.seq = At(p).seq
    /\ \/ Excused(a, At(p).row)
       \/ \E j \in 1..Len(native) :
            /\ At(p).row = native[j]
            /\ \/ j = known.offset + 1 + a.seq - known.seq
               \/ /\ known.from < rewrites /\ j < known.offset
                  /\ j = 1 + a.seq - known.seq

\* What the running export x put.
FromExport(p, x) ==
  /\ x.at # "idle" /\ At(p).seq < x.seq
  /\ \/ x.from < rewrites
     \/ \E j \in 1..Len(native) :
          At(p).row = native[j] /\ j = Past(x) + At(p).seq - x.seq + 1

NotCounted ==
  \A p \in Records : At(p).seq >= known.seq =>
    FromKilled(p) \/ \E e \in Exporter : FromExport(p, export[e])

\* A number that the export x has yet to use names what x will put under it, if
\* it names anything already.
Agreed(p, x) ==
  \E a \in again :
    /\ a.seq = At(p).seq
    /\ \/ Excused(a, At(p).row)
       \/ \E j \in 1..Len(native) :
            At(p).row = native[j] /\ j = Past(x) + a.seq - x.seq + 1
Agrees(x) == \A p \in Records : At(p).seq >= x.seq => Agreed(p, x)

\* What AppendedOnce says of two records with one number.
Excepted(p, q) ==
  \E a \in again :
    /\ a.seq = At(p).seq
    /\ \/ At(p).row = At(q).row \/ a.from < rewrites
       \/ {At(p).row, At(q).row} \cap unseen # {}

\* It reads on from the offset, or a file that had become shorter from the top.
ReadsOn(x) ==
  LET start == Past(x) - (x.seq - known.seq)
  IN \/ start = known.offset
     \/ start = 0 /\ known.from < rewrites /\ x.offset < known.offset

InOrder(x) ==
  /\ x.offset <= Len(native)
  /\ \A n \in 1..Past(x) : Kept(native[n])
  /\ \A i \in 1..Len(x.lines) : x.lines[i] = native[Past(x) + i]
  /\ ReadsOn(x)

ExportHolds(x) ==
  /\ x.from <= rewrites /\ known.seq <= x.seq
  /\ Len(x.lines) <= x.offset
  /\ \A a \in again : a.from <= x.from
  /\ x.from = rewrites => InOrder(x)
  /\ Agrees(x)

FromsPast == \A a \in again : a.from <= rewrites

ArchiveInv ==
  /\ ArchiveTypes /\ Len(native) <= rows
  /\ known.from <= rewrites
  /\ known.from = rewrites => known.offset <= Len(native)
  /\ FromsPast /\ EveryRowKept /\ AppendedOnce /\ NotCounted
  /\ \A e \in Exporter : export[e].at # "idle" => ExportHolds(export[e])
-----------------------------------------------------------------------------
\* A line is appended to one segment; every line that was there stays.
LEMMA LineAdded ==
  ASSUME segments \in [1..MaxSegments -> Seq(Line)],
         NEW k \in 1..MaxSegments, NEW line \in Line,
         segments' = [segments EXCEPT ![k] = Append(@, line)]
  PROVE  /\ segments' \in [1..MaxSegments -> Seq(Line)]
         /\ \E new : /\ At(new)' = line /\ new \notin Lines
                     /\ Lines' = Lines \cup {new}
         /\ \A p \in Lines : At(p)' = At(p) /\ At(p) \in Line
<1>1. /\ Append(segments[k], line) \in Seq(Line)
      /\ Len(segments[k]) \in Nat /\ DOMAIN segments[k] = 1..Len(segments[k])
      /\ Len(Append(segments[k], line)) = Len(segments[k]) + 1
      /\ \A i \in 1..Len(segments[k]) :
           Append(segments[k], line)[i] = segments[k][i]
      /\ Append(segments[k], line)[Len(segments[k]) + 1] = line
  BY AppendProperties, LenProperties
<1>2. /\ segments' \in [1..MaxSegments -> Seq(Line)]
      /\ segments'[k] = Append(segments[k], line)
      /\ \A m \in 1..MaxSegments : m # k => segments'[m] = segments[m]
  BY <1>1
<1>3. DOMAIN segments'[k] = 1..(Len(segments[k]) + 1)
  BY <1>1, <1>2, LenProperties
<1>4. \A p : p \in Lines <=>
        p = <<p[1], p[2]>> /\ p[1] \in 1..MaxSegments /\ p[2] \in DOMAIN segments[p[1]]
  BY DEF Lines
<1>5. \A p : p \in Lines' <=>
        p = <<p[1], p[2]>> /\ p[1] \in 1..MaxSegments /\ p[2] \in DOMAIN segments'[p[1]]
  BY <1>2 DEF Lines
<1> PICK new : new = <<k, Len(segments[k]) + 1>>
  OBVIOUS
<1>7. At(new)' = line /\ new \notin Lines /\ new \in Lines'
  BY <1>1, <1>2, <1>3, <1>4, <1>5 DEF At
<1>8. Lines' = Lines \cup {new}
  <2>1. ASSUME NEW p \in Lines', p # new PROVE p \in Lines
    BY <1>1, <1>2, <1>3, <1>4, <1>5, <2>1
  <2>2. ASSUME NEW p \in Lines PROVE p \in Lines'
    BY <1>1, <1>2, <1>3, <1>4, <1>5, <2>2
  <2> QED BY <1>7, <2>1, <2>2
<1>9. ASSUME NEW p \in Lines PROVE At(p)' = At(p) /\ At(p) \in Line
  <2>1. p[1] \in 1..MaxSegments /\ p[2] \in DOMAIN segments[p[1]]
    BY <1>4
  <2>2. segments[p[1]][p[2]] \in Line
    BY <2>1, LenProperties, ElementOfSeq
  <2>3. segments'[p[1]][p[2]] = segments[p[1]][p[2]]
    BY <1>1, <1>2, <2>1
  <2> QED BY <2>2, <2>3 DEF At
<1> QED BY <1>2, <1>7, <1>8, <1>9
-----------------------------------------------------------------------------
\* What no step takes back: lines, exceptions, and the rows of the file but for
\* a rewrite, which is an exception itself.
Onward ==
  /\ again \subseteq again' /\ unseen \subseteq unseen' /\ torn \subseteq torn'
  /\ Lines \subseteq Lines' /\ \A p \in Lines : At(p)' = At(p)
  /\ rewrites' \in Nat /\ Len(native') \in Nat
  /\ \/ /\ rewrites' = rewrites /\ Len(native') >= Len(native)
        /\ \A j \in 1..Len(native) : native'[j] = native[j]
     \/ rewrites' > rewrites

LEMMA Numbers ==
  ArchiveTypes =>
    /\ rows \in Nat /\ rewrites \in Nat /\ Len(native) \in Nat
    /\ \A n \in 1..Len(native) : native[n] \in Row
    /\ \A a \in again : a.seq \in Nat /\ a.from \in Nat
    /\ \A p \in Lines : At(p) \in Line
    /\ known \in Known /\ known.offset \in Nat /\ known.seq \in Nat
    /\ known.from \in Nat
<1> SUFFICES ASSUME ArchiveTypes
             PROVE  /\ rows \in Nat /\ rewrites \in Nat /\ Len(native) \in Nat
                    /\ \A n \in 1..Len(native) : native[n] \in Row
                    /\ \A a \in again : a.seq \in Nat /\ a.from \in Nat
                    /\ \A p \in Lines : At(p) \in Line
                    /\ known \in Known /\ known.offset \in Nat
                    /\ known.seq \in Nat /\ known.from \in Nat
  OBVIOUS
<1>1. MaxRows \in Nat /\ MaxRewrites \in Nat
  BY ArchiveAssumption
<1>2. Len(native) \in Nat /\ \A n \in 1..Len(native) : native[n] \in Row
  BY LenProperties, ElementOfSeq DEF ArchiveTypes
<1>3. ASSUME NEW p \in Lines PROVE At(p) \in Line
  <2>1. p[1] \in 1..MaxSegments /\ p[2] \in DOMAIN segments[p[1]]
    BY DEF Lines, ArchiveTypes
  <2>2. segments[p[1]] \in Seq(Line)
    BY <2>1 DEF ArchiveTypes
  <2> QED BY <2>1, <2>2, LenProperties, ElementOfSeq DEF At
<1> QED BY <1>1, <1>2, <1>3 DEF ArchiveTypes, Known

LEMMA KeptStays ==
  ASSUME Onward
  PROVE  /\ Records \subseteq Records'
         /\ \A p \in Records : At(p)' = At(p)
         /\ \A row : Kept(row) => Kept(row)'
<1>1. Records \subseteq Records' /\ \A p \in Records : At(p)' = At(p)
  BY DEF Onward, Records
<1> QED BY <1>1 DEF Kept, Onward

LEMMA ExceptionsStay ==
  ASSUME ArchiveTypes, FromsPast, Onward, NEW p \in Records
  PROVE  /\ \A q \in Records : Excepted(p, q) => Excepted(p, q)'
         /\ known' = known /\ FromKilled(p) => FromKilled(p)'
         /\ \A x : Agreed(p, x) => Agreed(p, x)'
         /\ \A x : x.from <= rewrites /\ x.from \in Nat /\ FromExport(p, x)
              => FromExport(p, x)'
<1>1. \A q \in Records : At(q)' = At(q)
  BY KeptStays
<1>2. \A a \in again : a \in again' /\ (a.from < rewrites => a.from < rewrites')
                       /\ \A row : Excused(a, row) => Excused(a, row)'
  BY Numbers DEF Onward, Excused, FromsPast
<1>3. rewrites' = rewrites \/ \A a \in again : a.from < rewrites'
  BY Numbers DEF Onward, FromsPast
<1>4. rewrites' = rewrites => \A j \in 1..Len(native) :
        j \in 1..Len(native') /\ native'[j] = native[j]
  BY LenProperties, Numbers DEF Onward, ArchiveTypes
<1>5. \A q \in Records : Excepted(p, q) => Excepted(p, q)'
  BY <1>1, <1>2 DEF Excepted, Onward
<1>6. known' = known /\ FromKilled(p) => FromKilled(p)'
  BY <1>1, <1>2, <1>3, <1>4 DEF FromKilled, Excused, Onward
<1>7. \A x : Agreed(p, x) => Agreed(p, x)'
  BY <1>1, <1>2, <1>3, <1>4 DEF Agreed, Excused, Onward
<1>8. \A x : x.from <= rewrites /\ x.from \in Nat /\ FromExport(p, x)
              => FromExport(p, x)'
  <2> SUFFICES ASSUME NEW x, x.from <= rewrites, x.from \in Nat,
                      FromExport(p, x)
               PROVE  FromExport(p, x)'
    OBVIOUS
  <2>1. At(p)' = At(p)
    BY <1>1
  <2>2. rewrites' = rewrites \/ x.from < rewrites'
    BY Numbers DEF Onward
  <2>3. x.from < rewrites => x.from < rewrites'
    BY Numbers DEF Onward
  <2> QED BY <1>4, <2>1, <2>2, <2>3 DEF FromExport, Past
<1> QED BY <1>5, <1>6, <1>7, <1>8
-----------------------------------------------------------------------------
LEMMA ExportFields ==
  ASSUME NEW x \in Export
  PROVE  /\ x.seq \in Nat /\ x.offset \in Nat /\ x.from \in Nat
         /\ x.lines \in Seq(Row) /\ Len(x.lines) \in Nat
         /\ x.offset \in 0..MaxRows /\ x.segment \in 1..MaxSegments
         /\ x.at \in {"idle", "append"} /\ Past(x) \in Int
<1>1. MaxRows \in Nat
  BY ArchiveAssumption
<1>2. x.lines \in Seq(Row)
  BY DEF Export
<1>3. Len(x.lines) \in Nat
  BY <1>2, LenProperties
<1> QED BY <1>1, <1>2, <1>3 DEF Export, Past

\* The lock leaves room for one export.
LEMMA OneExport ==
  ASSUME ArchiveTypes
  PROVE  /\ \A e \in Exporter : export[e] \in Export
         /\ lock = Nobody => \A e \in Exporter : export[e].at = "idle"
         /\ \A e, f \in Exporter :
              export[e].at # "idle" /\ f # e => export[f].at = "idle"
BY ArchiveAssumption DEF ArchiveTypes

\* The pairs of records that were there before a step keep their exception, and
\* the rows the state counts stay in the archive.
LEMMA RecordsHold ==
  ASSUME ArchiveInv, Onward
  PROVE  /\ \A p, q \in Records : p # q /\ At(p)'.seq = At(q)'.seq =>
              Excepted(p, q)'
         /\ known' = known => EveryRowKept' /\ known'.from <= rewrites'
<1>1. /\ \A p \in Records : At(p)' = At(p)
      /\ \A row : Kept(row) => Kept(row)'
  BY KeptStays
<1>2. ArchiveTypes /\ FromsPast
  BY DEF ArchiveInv
<1>3. \A p, q \in Records : Excepted(p, q) => Excepted(p, q)'
  BY <1>2, ExceptionsStay
<1>4. \A p, q \in Records : p # q /\ At(p).seq = At(q).seq => Excepted(p, q)
  BY DEF ArchiveInv, AppendedOnce, Excepted
<1>5. ASSUME NEW p \in Records, NEW q \in Records, p # q,
             At(p)'.seq = At(q)'.seq
      PROVE  Excepted(p, q)'
  BY <1>1, <1>3, <1>4, <1>5
<1>6. ASSUME known' = known PROVE EveryRowKept' /\ known'.from <= rewrites'
  <2>1. known.from <= rewrites /\ known.from \in Nat /\ rewrites \in Nat
    BY <1>2, Numbers DEF ArchiveInv
  <2>2. known.from <= rewrites'
    BY <2>1 DEF Onward
  <2>3. ASSUME known.from = rewrites', NEW n \in 1..known.offset
        PROVE  Kept(native[n])'
    <3>1. rewrites' = rewrites
      BY <2>1, <2>3 DEF Onward
    <3>2. known.offset <= Len(native) /\ known.offset \in Nat
      BY <1>2, <2>3, <3>1, Numbers DEF ArchiveInv
    <3>3. n \in 1..Len(native)
      BY <1>2, <3>2, Numbers
    <3>4. native'[n] = native[n]
      BY <2>1, <3>1, <3>3 DEF Onward
    <3>5. Kept(native[n])
      BY <2>3, <3>1 DEF ArchiveInv, EveryRowKept, Kept
    <3>6. Kept(native[n]) => \E row : row = native'[n] /\ Kept(row)'
      BY <1>1, <3>4
    <3> QED BY <3>5, <3>6 DEF Kept
  <2>4. EveryRowKept'
    BY <1>6, <2>3 DEF EveryRowKept, Kept
  <2> QED BY <1>6, <2>2, <2>4
<1> QED BY <1>5, <1>6

\* What an export has in hand stays good through the steps of others.
LEMMA ExportStays ==
  ASSUME ArchiveInv, Onward, known' = known, again' = again, Records' = Records,
         NEW x \in Export, ExportHolds(x)
  PROVE  ExportHolds(x)'
<1>1. ArchiveTypes /\ FromsPast
  BY DEF ArchiveInv
<1>2. rewrites \in Nat /\ rewrites' \in Nat /\ rewrites <= rewrites'
  BY <1>1, Numbers DEF Onward
<1>3. /\ x.from <= rewrites' /\ known'.seq <= x.seq
      /\ Len(x.lines) <= x.offset
      /\ \A a \in again' : a.from <= x.from
  BY <1>2, ExportFields DEF ExportHolds
<1>4. ASSUME x.from = rewrites' PROVE InOrder(x)'
  <2>1. rewrites' = rewrites /\ x.from = rewrites
    BY <1>2, <1>4, ExportFields DEF ExportHolds
  <2>2. /\ x.offset <= Len(native)
        /\ \A n \in 1..Past(x) : Kept(native[n])
        /\ \A i \in 1..Len(x.lines) : x.lines[i] = native[Past(x) + i]
        /\ ReadsOn(x)
    BY <2>1 DEF ExportHolds, InOrder
  <2>3. /\ Len(native) \in Nat /\ Len(native') \in Nat
        /\ Len(native') >= Len(native)
        /\ \A j \in 1..Len(native) : native'[j] = native[j]
    BY <1>1, <1>2, <2>1, Numbers DEF Onward
  <2>4. /\ Past(x) <= x.offset
        /\ \A n \in 1..Past(x) : n \in 1..Len(native)
        /\ \A i \in 1..Len(x.lines) : Past(x) + i \in 1..Len(native)
    BY SMTT(30), <2>2, <2>3, ExportFields DEF ExportHolds, Past
  <2>5. \A row : Kept(row) => Kept(row)'
    BY KeptStays
  <2>6. ReadsOn(x)'
    BY <2>1, <2>2 DEF ReadsOn, Past
  <2>7. x.offset <= Len(native')
    BY <2>2, <2>3, ExportFields
  <2> QED BY <2>2, <2>3, <2>4, <2>5, <2>6, <2>7 DEF InOrder, Past
<1>5. Agrees(x)'
  <2>1. \A p \in Records : At(p)' = At(p) /\ (Agreed(p, x) => Agreed(p, x)')
    BY <1>1, KeptStays, ExceptionsStay
  <2> QED BY <2>1 DEF Agrees, ExportHolds
<1> QED BY <1>3, <1>4, <1>5 DEF ExportHolds
-----------------------------------------------------------------------------
\* What an export has in hand, whatever segment it is at.
SameHand(x, y) ==
  /\ y.at = x.at /\ y.lines = x.lines /\ y.seq = x.seq
  /\ y.offset = x.offset /\ y.from = x.from

LEMMA HandStays ==
  ASSUME NEW x, NEW e, SameHand(x, export'[e]), ExportHolds(x)'
  PROVE  ExportHolds(export[e])'
BY DEF SameHand, ExportHolds, InOrder, ReadsOn, Past, Agrees, Agreed

\* A step that puts no record, saves nothing and leaves exports as they are.
LEMMA QuietStep ==
  ASSUME ArchiveInv, ArchiveTypes', Onward,
         Records' = Records, known' = known, again' = again,
         Len(native') <= rows',
         known.from = rewrites' => known.offset <= Len(native'),
         \A e \in Exporter : SameHand(export[e], export'[e])
  PROVE  ArchiveInv'
<1>1. ArchiveTypes /\ FromsPast
  BY DEF ArchiveInv
<1>2. \A p \in Records : At(p)' = At(p)
  BY KeptStays
<1>3. AppendedOnce' /\ EveryRowKept' /\ known'.from <= rewrites'
  BY RecordsHold DEF AppendedOnce, Excepted
<1>4. rewrites \in Nat /\ rewrites' \in Nat /\ rewrites <= rewrites'
      /\ \A a \in again : a.from \in Nat
  BY <1>1, Numbers DEF Onward
<1>5. FromsPast'
  BY <1>1, <1>4 DEF FromsPast
<1>6. ASSUME NEW e \in Exporter, export'[e].at # "idle"
      PROVE  ExportHolds(export[e])'
  <2> PICK x \in Export : x = export[e]
    BY <1>1, OneExport
  <2>1. ExportHolds(x)
    BY <1>6 DEF ArchiveInv, SameHand
  <2>2. ExportHolds(x)'
    BY <2>1, ExportStays
  <2>3. SameHand(x, export'[e])
    OBVIOUS
  <2> QED BY <2>2, <2>3, HandStays
<1>7. ASSUME NEW p \in Records, At(p)'.seq >= known.seq
      PROVE  FromKilled(p)' \/ \E e \in Exporter : FromExport(p, export[e])'
  <2>1. CASE FromKilled(p)
    BY <1>1, <2>1, ExceptionsStay
  <2>2. CASE \E e \in Exporter : FromExport(p, export[e])
    <3> PICK e \in Exporter : FromExport(p, export[e])
      BY <2>2
    <3> PICK x \in Export : x = export[e]
      BY <1>1, OneExport
    <3>1. x.from <= rewrites /\ x.from \in Nat
      BY ExportFields DEF ArchiveInv, ExportHolds, FromExport
    <3>2. FromExport(p, x)'
      BY <1>1, <3>1, ExceptionsStay
    <3>3. SameHand(x, export'[e])
      OBVIOUS
    <3> QED BY <3>2, <3>3 DEF SameHand, FromExport, Past
  <2>3. FromKilled(p) \/ \E e \in Exporter : FromExport(p, export[e])
    BY <1>2, <1>7 DEF ArchiveInv, NotCounted
  <2> QED BY <2>1, <2>2, <2>3
<1>8. NotCounted'
  BY <1>7 DEF NotCounted
<1> QED BY <1>3, <1>5, <1>6, <1>8 DEF ArchiveInv

\* The harness adds a row to its file, or to what it kept of it.
LEMMA NativeRowAdds ==
  ASSUME ArchiveTypes, NEW file \in Seq(Row), Len(file) <= Len(native),
         Len(native) <= rows, NativeRow(file)
  PROVE  /\ native' \in Seq(Row) /\ rows' \in 0..MaxRows
         /\ Len(native') <= rows' /\ Len(native') = Len(file) + 1
         /\ Len(native') \in Nat
         /\ \A j \in 1..Len(file) : native'[j] = file[j]
<1>1. MaxRows \in Nat /\ rows \in Nat /\ Len(native) \in Nat /\ rows < MaxRows
  BY ArchiveAssumption, Numbers DEF NativeRow
<1>2. rows' = rows + 1 /\ native' = Append(file, rows') /\ rows' \in Row
  BY <1>1 DEF NativeRow, Row
<1>3. /\ Append(file, rows') \in Seq(Row)
      /\ Len(Append(file, rows')) = Len(file) + 1
      /\ \A j \in 1..Len(file) : Append(file, rows')[j] = file[j]
      /\ Len(file) \in Nat
  BY <1>2, AppendProperties, LenProperties
<1>4. Len(file) + 1 <= rows + 1
  BY <1>1, <1>3
<1> QED BY <1>1, <1>2, <1>3, <1>4

LEMMA SameLines ==
  ASSUME UNCHANGED <<segments, again, torn, unseen>>
  PROVE  /\ Lines' = Lines /\ Records' = Records /\ \A p : At(p)' = At(p)
         /\ again \subseteq again' /\ unseen \subseteq unseen'
         /\ torn \subseteq torn'
BY DEF Lines, Records, At

LEMMA WritesHolds == ArchiveInv /\ HarnessWrites => ArchiveInv'
<1> SUFFICES ASSUME ArchiveInv, HarnessWrites PROVE ArchiveInv'
  OBVIOUS
<1>1. ArchiveTypes /\ Len(native) <= rows /\ native \in Seq(Row)
      /\ Len(native) \in Nat /\ rewrites \in Nat /\ known.offset \in Nat
  BY Numbers DEF ArchiveInv, ArchiveTypes
<1>2. NativeRow(native)
      /\ UNCHANGED <<rewrites, segments, known, lock, export, again, torn,
                     unseen>>
  BY DEF HarnessWrites
<1>3. /\ native' \in Seq(Row) /\ rows' \in 0..MaxRows
      /\ Len(native') <= rows' /\ Len(native') = Len(native) + 1
      /\ \A j \in 1..Len(native) : native'[j] = native[j]
  BY <1>1, <1>2, NativeRowAdds
<1>4. ArchiveTypes'
  BY <1>1, <1>2, <1>3 DEF ArchiveTypes
<1>5. Onward /\ Records' = Records
  BY <1>1, <1>2, <1>3, SameLines DEF Onward
<1>6. \A e \in Exporter : SameHand(export[e], export'[e])
  BY <1>2 DEF SameHand
<1>7. known.from = rewrites' => known.offset <= Len(native')
  BY <1>1, <1>2, <1>3 DEF ArchiveInv
<1> QED BY <1>2, <1>3, <1>4, <1>5, <1>6, <1>7, QuietStep

LEMMA RewritesHolds == ArchiveInv /\ HarnessRewrites => ArchiveInv'
<1> SUFFICES ASSUME ArchiveInv, HarnessRewrites PROVE ArchiveInv'
  OBVIOUS
<1>1. ArchiveTypes /\ Len(native) <= rows /\ native \in Seq(Row)
      /\ Len(native) \in Nat /\ rewrites \in Nat /\ MaxRewrites \in Nat
      /\ known.from \in Nat /\ known.from <= rewrites
  BY Numbers, ArchiveAssumption DEF ArchiveInv, ArchiveTypes
<1>2. PICK kept \in 0..(Len(native) - 1) : NativeRow(SubSeq(native, 1, kept))
  BY DEF HarnessRewrites
<1>3. /\ rewrites < MaxRewrites /\ rewrites' = rewrites + 1
      /\ UNCHANGED <<segments, known, lock, export, again, torn, unseen>>
  BY DEF HarnessRewrites
<1>4. SubSeq(native, 1, kept) \in Seq(Row)
      /\ Len(SubSeq(native, 1, kept)) <= Len(native)
  <2>1. \A i \in 1..kept : native[i] \in Row
    BY <1>1, Numbers
  <2> QED BY <1>1, <2>1, SubSeqProperties
<1>5. /\ native' \in Seq(Row) /\ rows' \in 0..MaxRows
      /\ Len(native') <= rows' /\ Len(native') \in Nat
  BY <1>1, <1>2, <1>4, NativeRowAdds
<1>6. ArchiveTypes'
  BY <1>1, <1>3, <1>5 DEF ArchiveTypes
<1>7. Onward /\ Records' = Records
  BY <1>1, <1>3, <1>5, SameLines DEF Onward
<1>8. \A e \in Exporter : SameHand(export[e], export'[e])
  BY <1>3 DEF SameHand
<1>9. known.from = rewrites' => known.offset <= Len(native')
  BY <1>1, <1>3
<1> QED BY <1>3, <1>5, <1>6, <1>7, <1>8, <1>9, QuietStep

LEMMA SegmentHolds ==
  ASSUME ArchiveInv, NEW e \in Exporter, NextSegment(e) PROVE ArchiveInv'
<1>1. ArchiveTypes /\ Len(native) <= rows /\ native \in Seq(Row)
      /\ Len(native) \in Nat /\ rewrites \in Nat /\ MaxSegments \in Nat
      /\ (known.from = rewrites => known.offset <= Len(native))
  BY Numbers, ArchiveAssumption DEF ArchiveInv, ArchiveTypes
<1> PICK x \in Export : x = export[e]
  BY <1>1, OneExport
<1>2. /\ x.at = "append" /\ x.segment < MaxSegments
      /\ export' = [export EXCEPT ![e] = [x EXCEPT !.segment = @ + 1]]
      /\ UNCHANGED <<native, rows, rewrites, segments, known, lock, again,
                     torn, unseen>>
  BY DEF NextSegment, Exports
<1>3. x.segment + 1 \in 1..MaxSegments
  BY <1>1, <1>2, ExportFields
<1> PICK y : y = [x EXCEPT !.segment = @ + 1]
  OBVIOUS
<1>4. y \in Export /\ SameHand(x, y)
  BY <1>3 DEF Export, SameHand
<1>5. export \in [Exporter -> Export]
      /\ \A f \in Exporter : export[f].at # "idle" => lock = f
  BY <1>1 DEF ArchiveTypes
<1>6. export' \in [Exporter -> Export] /\ export'[e] = y
      /\ \A f \in Exporter \ {e} : export'[f] = export[f]
  BY <1>2, <1>4, <1>5
<1>7. \A f \in Exporter : SameHand(export[f], export'[f])
  BY <1>4, <1>6 DEF SameHand
<1>8. ArchiveTypes'
  <2>1. \A f \in Exporter : export'[f].at # "idle" => lock' = f
    BY <1>2, <1>5, <1>7 DEF SameHand
  <2> QED BY <1>1, <1>2, <1>6, <2>1 DEF ArchiveTypes
<1>9. Onward /\ Records' = Records
  BY <1>1, <1>2, SameLines DEF Onward
<1> QED BY <1>1, <1>2, <1>7, <1>8, <1>9, QuietStep
-----------------------------------------------------------------------------
\* What a read takes: the rows from the offset on, and all before are kept or
\* were never seen.
LEMMA ReadTakes ==
  ASSUME ArchiveInv, NEW e \in Exporter, ReadNative(e)
  PROVE  \E x \in Export :
           /\ x.at = "append" /\ x.seq = known.seq /\ x.from = rewrites
           /\ x.offset = Len(native) /\ Past(x) = Offset
           /\ Len(x.lines) = Len(native) - Offset
           /\ \A i \in 1..Len(x.lines) : x.lines[i] = native[Offset + i]
           /\ export' = [export EXCEPT ![e] = x]
           /\ lock' = e /\ lock = Nobody /\ export[e].at = "idle"
           /\ UNCHANGED <<native, rows, rewrites, segments, known, again, torn>>
           /\ unseen' = IF known.from = rewrites \/ Len(native) < known.offset
                        THEN unseen
                        ELSE unseen \cup {native[n] : n \in 1..known.offset}
<1>1. /\ ArchiveTypes /\ Len(native) <= rows /\ native \in Seq(Row)
      /\ Len(native) \in Nat /\ known \in Known /\ known.offset \in Nat
      /\ rows \in 0..MaxRows /\ MaxRows \in Nat /\ rewrites \in Nat
      /\ \A n \in 1..Len(native) : native[n] \in Row
  BY Numbers, ArchiveAssumption DEF ArchiveInv, ArchiveTypes
<1>2. /\ Offset \in Nat /\ Offset <= Len(native)
      /\ Len(native) \in 0..MaxRows
  BY <1>1 DEF Offset
<1> PICK new : new = SubSeq(native, Offset + 1, Len(native))
  OBVIOUS
<1>3. /\ new \in Seq(Row) /\ Len(new) = Len(native) - Offset
      /\ \A i \in 1..Len(new) : new[i] = native[Offset + i]
  <2>1. \A i \in (Offset + 1)..Len(native) : native[i] \in Row
    BY <1>1, <1>2
  <2>2. Offset + 1 \in Int /\ Len(native) \in Int
    BY <1>1, <1>2
  <2>3. /\ new \in Seq(Row)
        /\ Len(new) = IF Offset + 1 <= Len(native)
                      THEN Len(native) - (Offset + 1) + 1 ELSE 0
        /\ \A i \in 1..Len(native) - (Offset + 1) + 1 :
             new[i] = native[Offset + 1 + i - 1]
    BY <1>1, <1>2, <2>1, <2>2, SubSeqProperties
  <2>4. Len(new) = Len(native) - Offset
    BY <1>1, <1>2, <2>3
  <2>5. ASSUME NEW i \in 1..Len(new) PROVE new[i] = native[Offset + i]
    <3>1. Offset + 1 + i - 1 = Offset + i
          /\ i \in 1..Len(native) - (Offset + 1) + 1
      BY <1>1, <1>2, <2>4
    <3> QED BY <2>3, <3>1
  <2> QED BY <2>3, <2>4, <2>5
<1> PICK x : x = [at |-> "append", lines |-> new, seq |-> known.seq,
                  segment |-> known.segment, offset |-> Len(native),
                  from |-> rewrites]
  OBVIOUS
<1>4. x \in Export
  BY <1>1, <1>2, <1>3 DEF Export, Known
<1>5. Past(x) = Offset
  BY <1>1, <1>2, <1>3 DEF Past
<1>6. /\ lock = Nobody /\ lock' = e /\ export[e].at = "idle"
      /\ export' = [export EXCEPT ![e] = x]
      /\ UNCHANGED <<native, rows, rewrites, segments, known, again, torn>>
      /\ unseen' = IF known.from = rewrites \/ Len(native) < known.offset
                   THEN unseen
                   ELSE unseen \cup {native[n] : n \in 1..known.offset}
  BY DEF ReadNative, LockFree, Exports
<1> QED BY <1>3, <1>4, <1>5, <1>6

LEMMA ReadHolds ==
  ASSUME ArchiveInv, NEW e \in Exporter, ReadNative(e) PROVE ArchiveInv'
<1>1. /\ ArchiveTypes /\ FromsPast /\ Len(native) <= rows
      /\ native \in Seq(Row) /\ Len(native) \in Nat /\ known.offset \in Nat
      /\ known.seq \in Nat /\ known.from \in Nat /\ rewrites \in Nat
      /\ known.from <= rewrites
      /\ (known.from = rewrites => known.offset <= Len(native))
      /\ \A n \in 1..Len(native) : native[n] \in Row
  BY Numbers DEF ArchiveInv, ArchiveTypes
<1> PICK x \in Export :
           /\ x.at = "append" /\ x.seq = known.seq /\ x.from = rewrites
           /\ x.offset = Len(native) /\ Past(x) = Offset
           /\ Len(x.lines) = Len(native) - Offset
           /\ \A i \in 1..Len(x.lines) : x.lines[i] = native[Offset + i]
           /\ export' = [export EXCEPT ![e] = x]
           /\ lock' = e /\ lock = Nobody /\ export[e].at = "idle"
           /\ UNCHANGED <<native, rows, rewrites, segments, known, again, torn>>
           /\ unseen' = IF known.from = rewrites \/ Len(native) < known.offset
                        THEN unseen
                        ELSE unseen \cup {native[n] : n \in 1..known.offset}
  BY ReadTakes
<1>2. /\ Offset \in Nat /\ Offset <= Len(native)
      /\ \/ Offset = known.offset
         \/ /\ Offset = 0 /\ Len(native) < known.offset /\ known.from < rewrites
  BY <1>1 DEF Offset
<1>3. /\ unseen \subseteq unseen' /\ unseen' \subseteq Row
      /\ known.from # rewrites /\ known.offset <= Len(native) =>
           \A n \in 1..known.offset : native[n] \in unseen'
  BY <1>1 DEF ArchiveTypes
<1>4. /\ \A f \in Exporter : export[f].at = "idle" /\ export[f] \in Export
      /\ export' \in [Exporter -> Export] /\ export'[e] = x
      /\ \A f \in Exporter \ {e} : export'[f] = export[f]
  BY <1>1, OneExport DEF ArchiveTypes
<1>5. ArchiveTypes'
  <2>1. \A f \in Exporter : export'[f].at # "idle" => lock' = f
    BY <1>4
  <2> QED BY <1>1, <1>3, <1>4, <2>1 DEF ArchiveTypes
<1>6. /\ Lines' = Lines /\ Records' = Records /\ \A p : At(p)' = At(p)
  BY DEF Lines, Records, At
<1>7. Onward
  BY <1>1, <1>3, <1>6 DEF Onward
<1>8. AppendedOnce' /\ EveryRowKept'
  BY <1>6, <1>7, RecordsHold DEF AppendedOnce, Excepted
<1>9. ASSUME NEW p \in Records, At(p).seq >= known.seq
      PROVE  FromKilled(p)' /\ Agreed(p, x)'
  <2>1. FromKilled(p)
    BY <1>4, <1>9 DEF ArchiveInv, NotCounted, FromExport
  <2>2. FromKilled(p)'
    BY <1>1, <1>7, <2>1, ExceptionsStay
  <2>3. PICK a \in again :
          /\ a.seq = At(p).seq
          /\ \/ Excused(a, At(p).row)
             \/ \E j \in 1..Len(native) :
                  /\ At(p).row = native[j]
                  /\ \/ j = known.offset + 1 + a.seq - known.seq
                     \/ /\ known.from < rewrites /\ j < known.offset
                        /\ j = 1 + a.seq - known.seq
    BY <2>1 DEF FromKilled
  <2>4. a.seq \in Nat
    BY <1>1, Numbers
  <2>5. ASSUME Excused(a, At(p).row) PROVE Agreed(p, x)'
    BY <1>3, <1>6, <2>3, <2>5 DEF Agreed, Excused
  <2>6. ASSUME NEW j \in 1..Len(native), At(p).row = native[j],
               \/ j = known.offset + 1 + a.seq - known.seq
               \/ /\ known.from < rewrites /\ j < known.offset
                  /\ j = 1 + a.seq - known.seq
        PROVE  Agreed(p, x)'
    <3>1. CASE j = Offset + a.seq - known.seq + 1
      BY <1>6, <2>3, <2>6, <3>1 DEF Agreed, Past
    <3>2. CASE j # Offset + a.seq - known.seq + 1
      <4>0. /\ a.seq >= known.seq /\ j \in Nat /\ j <= Len(native)
            /\ Offset = known.offset \/ (Offset = 0 /\ Len(native) < known.offset)
            /\ \/ j = known.offset + 1 + a.seq - known.seq
               \/ j < known.offset /\ j = 1 + a.seq - known.seq
        BY <1>1, <1>2, <1>9, <2>3, <2>4, <2>6
      <4>1. /\ Offset = known.offset /\ j < known.offset
            /\ known.from < rewrites
        <5>1. PICK i \in Nat, o \in Nat, ko \in Nat, s \in Nat, k \in Nat,
                   n \in Nat :
                /\ i = j /\ o = Offset /\ ko = known.offset /\ s = a.seq
                /\ k = known.seq /\ n = Len(native)
          <6>1. /\ j \in Nat /\ Offset \in Nat /\ known.offset \in Nat
                /\ a.seq \in Nat /\ known.seq \in Nat /\ Len(native) \in Nat
            BY <1>1, <1>2, <2>4, <4>0
          <6> QED BY <6>1
        <5>2. s >= k /\ i <= n /\ (o = ko \/ (o = 0 /\ n < ko))
          BY <4>0, <5>1
        <5>3. i = ko + 1 + s - k \/ (i < ko /\ i = 1 + s - k)
          BY <4>0, <5>1
        <5>4. i # o + s - k + 1
          BY <3>2, <5>1
        <5>5. o = ko /\ i < ko /\ i # ko + 1 + s - k
          BY <5>2, <5>3, <5>4
        <5> QED BY <2>6, <5>1, <5>5
      <4>2. known.from # rewrites /\ known.offset <= Len(native)
            /\ j \in 1..known.offset
        BY <1>1, <1>2, <4>1
      <4>3. native[j] \in unseen'
        BY <1>3, <4>2
      <4> QED BY <1>6, <2>3, <2>6, <4>3 DEF Agreed, Excused
    <3> QED BY <3>1, <3>2
  <2> QED BY <2>2, <2>3, <2>5, <2>6
<1>10. NotCounted' /\ Agrees(x)'
  BY <1>6, <1>9 DEF NotCounted, Agrees
<1>11. InOrder(x)'
  <2>1. ASSUME NEW n \in 1..Offset PROVE Kept(native[n])'
    <3>1. Offset = known.offset /\ n \in 1..known.offset
      BY <1>2
    <3>2. CASE known.from = rewrites
      BY <1>8, <3>1, <3>2 DEF EveryRowKept, Kept
    <3>3. CASE known.from # rewrites
      BY <1>2, <1>3, <3>1, <3>3 DEF Kept
    <3> QED BY <3>2, <3>3
  <2>2. ReadsOn(x)'
    BY <1>1, <1>2 DEF ReadsOn, Past
  <2> QED BY <1>1, <2>1, <2>2 DEF InOrder, Past
<1>12. ExportHolds(x)'
  <2>1. \A a \in again' : a.from <= x.from
    BY <1>1 DEF FromsPast
  <2>2. Len(x.lines) <= x.offset /\ x.from <= rewrites' /\ known'.seq <= x.seq
    BY <1>1, <1>2
  <2> QED BY <1>10, <1>11, <2>1, <2>2 DEF ExportHolds
<1>13. ASSUME NEW f \in Exporter, export'[f].at # "idle"
       PROVE  ExportHolds(export[f])'
  <2>1. SameHand(x, export'[f])
    BY <1>4, <1>13 DEF SameHand
  <2> QED BY <1>12, <2>1, HandStays
<1>14. FromsPast'
  BY <1>1 DEF FromsPast
<1> QED BY <1>1, <1>5, <1>8, <1>10, <1>13, <1>14 DEF ArchiveInv

LEMMA SaveHolds ==
  ASSUME ArchiveInv, NEW e \in Exporter, SaveState(e) PROVE ArchiveInv'
<1>1. /\ ArchiveTypes /\ FromsPast /\ Len(native) <= rows
      /\ native \in Seq(Row) /\ Len(native) \in Nat /\ rewrites \in Nat
      /\ known.seq \in Nat
  BY Numbers DEF ArchiveInv, ArchiveTypes
<1> PICK x \in Export : x = export[e]
  BY <1>1, OneExport
<1>2. /\ x.at = "append" /\ x.lines = <<>> /\ lock' = Nobody
      /\ known' = [offset |-> x.offset, seq |-> x.seq, segment |-> x.segment,
                   from |-> x.from]
      /\ export' = [export EXCEPT ![e] = NoExport]
      /\ UNCHANGED <<native, rows, rewrites, segments, again, torn, unseen>>
  BY DEF SaveState, ReadSoFar, Exports
<1>3. ExportHolds(x) /\ Past(x) = x.offset
  BY <1>2, ExportFields, EmptySeq DEF ArchiveInv, Past
<1>4. /\ \A f \in Exporter : export'[f].at = "idle"
      /\ export' \in [Exporter -> Export]
  <2>1. \A f \in Exporter \ {e} : export[f].at = "idle"
    BY <1>1, <1>2, OneExport
  <2>2. NoExport \in Export
    BY ArchiveAssumption, EmptySeq DEF NoExport, Export
  <2>3. NoExport.at = "idle" /\ export \in [Exporter -> Export]
    BY <1>1 DEF NoExport, ArchiveTypes
  <2> QED BY <1>2, <2>1, <2>2, <2>3
<1>5. known' \in Known
  BY <1>2, ExportFields DEF Known
<1>6. ArchiveTypes'
  BY <1>1, <1>2, <1>4, <1>5 DEF ArchiveTypes
<1>7. /\ Lines' = Lines /\ Records' = Records /\ \A p : At(p)' = At(p)
  BY <1>2 DEF Lines, Records, At
<1>8. Onward
  BY <1>1, <1>2, <1>7 DEF Onward
<1>9. AppendedOnce'
  BY <1>7, <1>8, RecordsHold DEF AppendedOnce, Excepted
<1>10. /\ known'.offset = x.offset /\ known'.seq = x.seq /\ known'.from = x.from
  BY <1>2
<1>11. EveryRowKept' /\ known'.from <= rewrites'
       /\ (known'.from = rewrites' => known'.offset <= Len(native'))
  <2>1. x.from <= rewrites
    BY <1>3 DEF ExportHolds
  <2>2. ASSUME x.from = rewrites
        PROVE  /\ x.offset <= Len(native)
               /\ \A n \in 1..x.offset : Kept(native[n])
    BY <1>3, <2>2 DEF ExportHolds, InOrder
  <2>3. \A row : Kept(row) => Kept(row)'
    BY <1>8, KeptStays
  <2> QED BY <1>2, <1>10, <2>1, <2>2, <2>3 DEF EveryRowKept, Kept
<1>12. ASSUME NEW p \in Records, At(p).seq >= x.seq PROVE FromKilled(p)'
  <2>1. Agreed(p, x)
    BY <1>3, <1>12 DEF ExportHolds, Agrees
  <2>2. PICK a \in again :
          /\ a.seq = At(p).seq
          /\ \/ Excused(a, At(p).row)
             \/ \E j \in 1..Len(native) :
                  At(p).row = native[j] /\ j = Past(x) + a.seq - x.seq + 1
    BY <2>1 DEF Agreed
  <2>3. a.seq \in Nat
    BY <1>1, Numbers
  <2>4. CASE Excused(a, At(p).row)
    BY <1>2, <1>7, <2>2, <2>4 DEF FromKilled, Excused
  <2>5. ASSUME NEW j \in 1..Len(native), At(p).row = native[j],
               j = Past(x) + a.seq - x.seq + 1
        PROVE  FromKilled(p)'
    <3>1. j = known'.offset + 1 + a.seq - known'.seq
      BY <1>3, <1>10, <2>3, <2>5, ExportFields
    <3> QED BY <1>2, <1>7, <2>2, <2>5, <3>1 DEF FromKilled
  <2> QED BY <2>2, <2>4, <2>5
<1>13. NotCounted'
  BY <1>7, <1>10, <1>12 DEF NotCounted
<1>14. FromsPast' /\ Len(native') <= rows'
  BY <1>1, <1>2 DEF FromsPast
<1> QED BY <1>4, <1>6, <1>9, <1>11, <1>13, <1>14 DEF ArchiveInv

\* A killed export leaves its numbers, and perhaps half a line, which is no
\* record.
LEMMA DieLeaves ==
  ASSUME ArchiveInv, NEW e \in Exporter, Die(e)
  PROVE  /\ segments' \in [1..MaxSegments -> Seq(Line)]
         /\ Records' = Records /\ Lines \subseteq Lines'
         /\ \A p \in Lines : At(p)' = At(p)
<1>1. /\ ArchiveTypes /\ segments \in [1..MaxSegments -> Seq(Line)]
      /\ export[e] \in Export
  BY OneExport DEF ArchiveInv, ArchiveTypes
<1>2. CASE UNCHANGED segments
  BY <1>1, <1>2 DEF Lines, Records, At
<1>3. CASE /\ export[e].lines # <<>>
           /\ segments' = [segments EXCEPT ![export[e].segment] =
                             Put(@, Half(Head(export[e].lines)))]
  <2> PICK k \in 1..MaxSegments : k = export[e].segment
    BY <1>1, ExportFields
  <2> PICK row \in Row : row = Head(export[e].lines)
    BY <1>1, <1>3, ExportFields, HeadTailProperties
  <2>1. PICK line \in Line :
          /\ Put(segments[k], Half(row)) = Append(segments[k], line)
          /\ line.kind # "record"
    <3>1. Half(row) \in Line /\ Half(row).kind # "record"
      BY DEF Half, Line
    <3>2. /\ [Half(row) EXCEPT !.kind = "spoiled", !.seq = 0] \in Line
          /\ [Half(row) EXCEPT !.kind = "spoiled", !.seq = 0].kind # "record"
      BY <3>1 DEF Half, Line
    <3> QED BY <3>1, <3>2 DEF Put
  <2>2. segments' = [segments EXCEPT ![k] = Append(@, line)]
    BY <1>1, <1>3, <2>1
  <2>3. /\ segments' \in [1..MaxSegments -> Seq(Line)]
        /\ \E new : /\ At(new)' = line /\ new \notin Lines
                    /\ Lines' = Lines \cup {new}
        /\ \A p \in Lines : At(p)' = At(p) /\ At(p) \in Line
    BY <1>1, <2>2, LineAdded
  <2>4. Records' = Records
    BY <2>1, <2>3 DEF Records
  <2> QED BY <2>3, <2>4
<1> QED BY <1>2, <1>3 DEF Die

LEMMA DieHolds ==
  ASSUME ArchiveInv, NEW e \in Exporter, Die(e) PROVE ArchiveInv'
<1>1. /\ ArchiveTypes /\ FromsPast /\ Len(native) <= rows
      /\ native \in Seq(Row) /\ Len(native) \in Nat /\ rewrites \in Nat
      /\ known.seq \in Nat /\ known.from \in Nat /\ known.offset \in Nat
      /\ \A p \in Lines : At(p) \in Line
  BY Numbers DEF ArchiveInv, ArchiveTypes
<1> PICK x \in Export : x = export[e]
  BY <1>1, OneExport
<1>2. /\ x.at # "idle" /\ lock' = Nobody
      /\ again' = again \cup [seq : known.seq..(x.seq - 1), from : {x.from}]
      /\ export' = [export EXCEPT ![e] = NoExport]
      /\ UNCHANGED <<native, rows, rewrites, known, torn, unseen>>
  BY DEF Die, Exports
<1>3. /\ segments' \in [1..MaxSegments -> Seq(Line)]
      /\ Records' = Records /\ Lines \subseteq Lines'
      /\ \A p \in Lines : At(p)' = At(p)
      /\ \A p \in Records : p \in Lines
  BY DieLeaves DEF Records
<1>4. /\ \A f \in Exporter : export'[f].at = "idle"
      /\ \A f \in Exporter \ {e} : export[f].at = "idle"
      /\ export' \in [Exporter -> Export]
  <2>1. \A f \in Exporter \ {e} : export[f].at = "idle"
    BY <1>1, <1>2, OneExport
  <2>2. NoExport \in Export
    BY ArchiveAssumption, EmptySeq DEF NoExport, Export
  <2>3. NoExport.at = "idle" /\ export \in [Exporter -> Export]
    BY <1>1 DEF NoExport, ArchiveTypes
  <2> QED BY <1>2, <2>1, <2>2, <2>3
<1>5. /\ \A a \in again' : a \in again \/ a.from = x.from
      /\ again' \subseteq [seq : Nat, from : Nat]
      /\ \A n \in known.seq..(x.seq - 1) :
           \E a \in again' : a.seq = n /\ a.from = x.from
  <2> USE <1>1, ExportFields
  <2>1. known.seq..(x.seq - 1) \subseteq Nat /\ x.from \in Nat
    OBVIOUS
  <2>2. \A a \in again' : a \in again \/ a.from = x.from
    BY <1>2
  <2>3. again' \subseteq [seq : Nat, from : Nat]
    BY <1>2, <2>1 DEF ArchiveTypes
  <2>4. ASSUME NEW n \in known.seq..(x.seq - 1)
        PROVE  \E a \in again' : a.seq = n /\ a.from = x.from
    <3>1. [seq |-> n, from |-> x.from] \in again'
      BY <1>2, <2>4
    <3> QED BY <3>1
  <2> QED BY <2>2, <2>3, <2>4
<1>6. ArchiveTypes'
  BY <1>1, <1>2, <1>3, <1>4, <1>5 DEF ArchiveTypes
<1>7. Onward
  BY <1>1, <1>2, <1>3 DEF Onward
<1>8. AppendedOnce' /\ EveryRowKept' /\ known'.from <= rewrites'
  BY <1>2, <1>3, <1>7, RecordsHold DEF AppendedOnce, Excepted
<1>9. ExportHolds(x) /\ x.from <= rewrites
  BY <1>2 DEF ArchiveInv, ExportHolds
<1>10. FromsPast' /\ Len(native') <= rows'
       /\ (known'.from = rewrites' => known'.offset <= Len(native'))
  BY <1>1, <1>2, <1>5, <1>9 DEF FromsPast, ArchiveInv
<1>11. ASSUME NEW p \in Records, At(p).seq >= known.seq
       PROVE  FromKilled(p)'
  <2>1. CASE FromKilled(p)
    BY <1>1, <1>2, <1>7, <2>1, ExceptionsStay
  <2>2. CASE FromExport(p, x)
    <3>1. At(p).seq \in Nat
      BY <1>1, <1>3 DEF Line
    <3>2. PICK a \in again' : a.seq = At(p).seq /\ a.from = x.from
      <4>1. At(p).seq < x.seq /\ x.seq \in Nat
        BY <2>2, ExportFields DEF FromExport
      <4>2. At(p).seq \in known.seq..(x.seq - 1)
        BY <1>1, <1>11, <3>1, <4>1
      <4> QED BY <1>5, <4>2
    <3>3. CASE x.from < rewrites
      BY <1>2, <1>3, <3>2, <3>3 DEF FromKilled, Excused
    <3>4. ASSUME x.from = rewrites, NEW j \in 1..Len(native),
                 At(p).row = native[j], j = Past(x) + At(p).seq - x.seq + 1
          PROVE  FromKilled(p)'
      <4>1. /\ x.offset <= Len(native) /\ ReadsOn(x) /\ Len(x.lines) <= x.offset
        BY <1>9, <3>4 DEF ExportHolds, InOrder
      <4>2. \/ j = known.offset + 1 + a.seq - known.seq
            \/ /\ known.from < rewrites /\ j < known.offset
               /\ j = 1 + a.seq - known.seq
        <5>1. /\ a.seq < x.seq /\ Past(x) <= x.offset /\ a.seq \in Nat
              /\ j \in Nat /\ j = Past(x) + a.seq - x.seq + 1
          <6>1. a.seq \in Nat /\ a.seq = At(p).seq
            BY <3>1, <3>2
          <6>2. a.seq < x.seq
            BY <2>2, <6>1 DEF FromExport
          <6>3. j \in Nat /\ j = Past(x) + a.seq - x.seq + 1
            BY <1>1, <3>4, <6>1
          <6>4. Past(x) <= x.offset
            <7>1. PICK n \in Nat, o \in Nat : n = Len(x.lines) /\ o = x.offset
              BY ExportFields
            <7>2. Past(x) = o - n
              BY <7>1 DEF Past
            <7>3. o - n <= o
              OBVIOUS
            <7> QED BY <7>1, <7>2, <7>3
          <6> QED BY <6>1, <6>2, <6>3, <6>4
        <5>2. PICK i \in Nat, s \in Nat, q \in Nat, k \in Nat, past \in Int,
                   o \in Nat, ko \in Nat :
                /\ i = j /\ s = a.seq /\ q = x.seq /\ k = known.seq
                /\ past = Past(x) /\ o = x.offset /\ ko = known.offset
          BY <1>1, <5>1, ExportFields
        <5>3. s < q /\ past <= o /\ i = past + s - q + 1
          BY <5>1, <5>2
        <5>4. \/ past - (q - k) = ko
              \/ past - (q - k) = 0 /\ known.from < rewrites /\ o < ko
          BY <4>1, <5>2 DEF ReadsOn
        <5>5. past - (q - k) = ko => i = ko + 1 + s - k
          BY <5>3
        <5>6. past - (q - k) = 0 /\ o < ko => i < ko /\ i = 1 + s - k
          BY <5>3
        <5> QED BY <5>2, <5>4, <5>5, <5>6
      <4> QED BY <1>2, <1>3, <3>2, <3>4, <4>2 DEF FromKilled
    <3> QED BY <1>1, <1>9, <2>2, <3>3, <3>4, ExportFields DEF FromExport
  <2>3. FromKilled(p) \/ FromExport(p, x)
    BY <1>4, <1>11 DEF ArchiveInv, NotCounted, FromExport
  <2> QED BY <2>1, <2>2, <2>3
<1>12. NotCounted'
  BY <1>2, <1>3, <1>11 DEF NotCounted
<1> QED BY <1>4, <1>6, <1>8, <1>10, <1>12 DEF ArchiveInv

\* What appending a line does: the row at hand is in a record of its own under
\* the next number, or spoiled and in no record.
LEMMA LineAppended ==
  ASSUME ArchiveInv, NEW e \in Exporter, AppendLine(e),
         NEW x \in Export, x = export[e]
  PROVE  \E row \in Row, y \in Export :
           /\ Len(x.lines) > 0 /\ row = x.lines[1]
           /\ y.at = "append" /\ y.seq = x.seq + 1 /\ y.offset = x.offset
           /\ y.from = x.from /\ Len(y.lines) = Len(x.lines) - 1
           /\ \A i \in 1..Len(y.lines) : y.lines[i] = x.lines[i + 1]
           /\ x.at = "append" /\ export' = [export EXCEPT ![e] = y]
           /\ UNCHANGED <<native, rows, rewrites, known, lock, again, unseen>>
           /\ segments' \in [1..MaxSegments -> Seq(Line)]
           /\ Lines \subseteq Lines' /\ \A p \in Lines : At(p)' = At(p)
           /\ torn \subseteq torn' /\ torn' \subseteq Row
           /\ \/ Records' = Records /\ row \in torn'
              \/ \E new : /\ Records' = Records \cup {new}
                          /\ At(new)'.seq = x.seq /\ At(new)'.row = row
<1>1. /\ ArchiveTypes /\ segments \in [1..MaxSegments -> Seq(Line)]
      /\ torn \subseteq Row /\ x.segment \in 1..MaxSegments
  BY ExportFields DEF ArchiveInv, ArchiveTypes
<1>2. /\ x.at = "append" /\ x.lines # <<>>
      /\ segments' = [segments EXCEPT ![x.segment] =
                        Put(@, Whole(x.seq, Head(x.lines)))]
      /\ torn' = IF segments'[x.segment][Len(segments'[x.segment])]
                      = Whole(x.seq, Head(x.lines))
                 THEN torn ELSE torn \cup {Head(x.lines)}
      /\ export' = [export EXCEPT ![e] =
                      [x EXCEPT !.lines = Tail(@), !.seq = @ + 1]]
      /\ UNCHANGED <<native, rows, rewrites, known, lock, again, unseen>>
  BY DEF AppendLine, Exports
<1>3. /\ Head(x.lines) \in Row /\ Head(x.lines) = x.lines[1]
      /\ Tail(x.lines) \in Seq(Row) /\ Len(x.lines) > 0
      /\ Len(Tail(x.lines)) = Len(x.lines) - 1
      /\ \A i \in 1..Len(Tail(x.lines)) : Tail(x.lines)[i] = x.lines[i + 1]
  BY <1>2, ExportFields, HeadTailProperties, EmptySeq
<1> PICK row \in Row : row = Head(x.lines)
  BY <1>3
<1> PICK k \in 1..MaxSegments : k = x.segment
  BY <1>1
<1> PICK y : y = [x EXCEPT !.lines = Tail(@), !.seq = @ + 1]
  OBVIOUS
<1>4. /\ y \in Export /\ y.at = x.at /\ y.seq = x.seq + 1
      /\ y.offset = x.offset /\ y.from = x.from /\ y.lines = Tail(x.lines)
  <2>1. PICK rest \in Seq(Row), n \in Nat :
          rest = Tail(x.lines) /\ n = x.seq + 1
    <3>1. Tail(x.lines) \in Seq(Row) /\ x.seq \in Nat
      BY <1>3, ExportFields
    <3>2. x.seq + 1 \in Nat
      BY <3>1
    <3> QED BY <3>1, <3>2
  <2>2. y = [x EXCEPT !.lines = rest, !.seq = n]
    BY <2>1
  <2>3. /\ y \in Export /\ y.at = x.at /\ y.seq = n /\ y.lines = rest
        /\ y.offset = x.offset /\ y.from = x.from
    BY <2>2 DEF Export
  <2> QED BY <2>1, <2>3
<1> PICK whole \in Line : whole = Whole(x.seq, row)
  BY ExportFields DEF Whole, Line
<1>5. /\ whole.kind = "record" /\ whole.seq = x.seq /\ whole.row = row
  BY DEF Whole
<1>6. PICK line \in Line :
        /\ Put(segments[k], whole) = Append(segments[k], line)
        /\ line = whole \/ line.kind = "spoiled"
  <2>1. [whole EXCEPT !.kind = "spoiled", !.seq = 0] \in Line
        /\ [whole EXCEPT !.kind = "spoiled", !.seq = 0].kind = "spoiled"
    BY DEF Line
  <2> QED BY <2>1 DEF Put
<1>7. segments' = [segments EXCEPT ![k] = Append(@, line)]
  BY <1>1, <1>2, <1>6
<1>8. segments'[k][Len(segments'[k])] = line
  <2>1. segments'[k] = Append(segments[k], line) /\ segments[k] \in Seq(Line)
    BY <1>1, <1>7
  <2> QED BY <2>1, AppendProperties
<1>9. PICK new : /\ At(new)' = line /\ new \notin Lines
                 /\ Lines' = Lines \cup {new}
  BY <1>1, <1>7, LineAdded
<1>10. /\ segments' \in [1..MaxSegments -> Seq(Line)]
       /\ \A p \in Lines : At(p)' = At(p)
  BY <1>1, <1>7, LineAdded
<1>11. torn' = IF line = whole THEN torn ELSE torn \cup {row}
  BY <1>2, <1>8
<1>12. CASE line = whole
  <2>1. Records' = Records \cup {new}
    BY <1>5, <1>9, <1>10, <1>12 DEF Records
  <2>2. At(new)'.seq = x.seq /\ At(new)'.row = row
    BY <1>5, <1>9, <1>12
  <2> /\ y \in Export /\ row \in Row /\ torn \subseteq torn'
      /\ torn' \subseteq Row /\ Lines \subseteq Lines'
      /\ y.at = "append" /\ row = x.lines[1]
      /\ Len(y.lines) = Len(x.lines) - 1 /\ Len(x.lines) > 0
      /\ \A i \in 1..Len(y.lines) : y.lines[i] = x.lines[i + 1]
    BY <1>1, <1>2, <1>3, <1>4, <1>9, <1>11, <1>12
  <2> WITNESS row \in Row, y \in Export
  <2> QED BY <1>2, <1>4, <1>10, <2>1, <2>2
<1>13. CASE line.kind = "spoiled"
  <2>1. Records' = Records
    BY <1>9, <1>10, <1>13 DEF Records
  <2>2. row \in torn' /\ torn \subseteq torn' /\ torn' \subseteq Row
    BY <1>1, <1>5, <1>11, <1>13
  <2> /\ y \in Export /\ row \in Row /\ Lines \subseteq Lines'
      /\ y.at = "append" /\ row = x.lines[1]
      /\ Len(y.lines) = Len(x.lines) - 1 /\ Len(x.lines) > 0
      /\ \A i \in 1..Len(y.lines) : y.lines[i] = x.lines[i + 1]
    BY <1>2, <1>3, <1>4, <1>9
  <2> WITNESS row \in Row, y \in Export
  <2> QED BY <1>2, <1>4, <1>10, <2>1, <2>2
<1> QED BY <1>6, <1>12, <1>13

\* The numbers of an export x that goes on by one row, as y.
RowOn(x, y) ==
  /\ Past(x) \in Int /\ x.seq \in Nat /\ y.seq \in Nat
  /\ Past(y) = Past(x) + 1 /\ x.seq < y.seq /\ 1 \in 1..Len(x.lines)
  /\ Past(x) + 1 = Past(y) + x.seq - y.seq + 1
  /\ Past(x) + x.seq - x.seq + 1 = Past(x) + 1
  /\ \A m \in Nat : x.offset <= m => Past(x) + 1 \in 1..m
  /\ Len(y.lines) <= y.offset
  /\ \A s \in Nat :
       /\ s < x.seq => s < y.seq
       /\ s >= y.seq => s >= x.seq /\ s # x.seq
       /\ s <= x.seq => s <= y.seq
       /\ Past(x) + s - x.seq + 1 = Past(y) + s - y.seq + 1
       /\ Past(y) - (y.seq - s) = Past(x) - (x.seq - s)
  /\ \A i \in 1..Len(y.lines) :
       i + 1 \in 1..Len(x.lines) /\ Past(x) + (i + 1) = Past(y) + i
  /\ \A n \in 1..Past(y) : n = Past(x) + 1 \/ n \in 1..Past(x)

LEMMA OneRowOn ==
  ASSUME NEW x \in Export, NEW y \in Export, Len(x.lines) > 0,
         y.seq = x.seq + 1, y.offset = x.offset,
         Len(y.lines) = Len(x.lines) - 1, Len(x.lines) <= x.offset
  PROVE  RowOn(x, y)
<1>1. PICK past \in Int, seq \in Nat, len \in Nat, off \in Nat :
        /\ past = Past(x) /\ seq = x.seq /\ len = Len(x.lines)
        /\ off = x.offset
  BY ExportFields
<1>2. past = off - len
  BY <1>1 DEF Past
<1>3. len > 0 /\ len <= off
  BY <1>1
<1>4. y.seq = seq + 1 /\ y.offset = off /\ Len(y.lines) = len - 1
  BY <1>1
<1>5. Past(y) = past + 1
  <2>1. Past(y) = off - (len - 1)
    BY <1>4 DEF Past
  <2> QED BY <1>2, <2>1
<1>6. /\ seq < seq + 1 /\ 1 \in 1..len /\ len - 1 <= off
      /\ past + 1 = past + 1 + seq - (seq + 1) + 1
      /\ past + seq - seq + 1 = past + 1
      /\ \A m \in Nat : off <= m => past + 1 \in 1..m
  BY <1>2, <1>3
<1>7. ASSUME NEW s \in Nat
      PROVE  /\ s < x.seq => s < y.seq
             /\ s >= y.seq => s >= x.seq /\ s # x.seq
             /\ s <= x.seq => s <= y.seq
             /\ Past(x) + s - x.seq + 1 = Past(y) + s - y.seq + 1
             /\ Past(y) - (y.seq - s) = Past(x) - (x.seq - s)
  <2>1. /\ s < seq => s < seq + 1
        /\ s >= seq + 1 => s >= seq /\ s # seq
        /\ s <= seq => s <= seq + 1
        /\ past + s - seq + 1 = past + 1 + s - (seq + 1) + 1
        /\ past + 1 - (seq + 1 - s) = past - (seq - s)
    OBVIOUS
  <2>2. x.seq = seq /\ y.seq = seq + 1
    BY <1>1, <1>4
  <2>3. /\ s < x.seq => s < y.seq
        /\ s >= y.seq => s >= x.seq /\ s # x.seq
        /\ s <= x.seq => s <= y.seq
    BY <2>1, <2>2, Zenon
  <2>4. Past(x) = past /\ Past(y) = past + 1
    BY <1>1, <1>5
  <2>5. Past(x) + s - x.seq + 1 = Past(y) + s - y.seq + 1
    BY <2>1, <2>2, <2>4, Zenon
  <2>6. Past(y) - (y.seq - s) = Past(x) - (x.seq - s)
    <3>1. y.seq - s = seq + 1 - s /\ x.seq - s = seq - s
      BY <2>2
    <3>2. /\ Past(y) - (y.seq - s) = past + 1 - (seq + 1 - s)
          /\ Past(x) - (x.seq - s) = past - (seq - s)
      BY <2>4, <3>1
    <3> QED BY <2>1, <3>2
  <2> QED BY <2>3, <2>5, <2>6
<1>8. ASSUME NEW i \in 1..Len(y.lines)
      PROVE  i + 1 \in 1..Len(x.lines) /\ Past(x) + (i + 1) = Past(y) + i
  <2>1. i \in 1..(len - 1)
    BY <1>4
  <2>2. i + 1 \in 1..len /\ past + (i + 1) = past + 1 + i
    BY <2>1
  <2> QED BY <1>1, <1>5, <2>2
<1>9. ASSUME NEW n \in 1..Past(y) PROVE n = Past(x) + 1 \/ n \in 1..Past(x)
  <2>1. n \in 1..(past + 1)
    BY <1>5
  <2>2. n = past + 1 \/ n \in 1..past
    BY <2>1
  <2> QED BY <1>1, <2>2
<1>10. /\ Past(y) = Past(x) + 1 /\ x.seq < y.seq /\ 1 \in 1..Len(x.lines)
       /\ Past(x) + 1 = Past(y) + x.seq - y.seq + 1
       /\ Past(x) + x.seq - x.seq + 1 = Past(x) + 1
       /\ \A m \in Nat : x.offset <= m => Past(x) + 1 \in 1..m
       /\ Len(y.lines) <= y.offset
  BY <1>1, <1>4, <1>5, <1>6
<1>11. Past(x) \in Int /\ x.seq \in Nat /\ y.seq \in Nat
  BY ExportFields
<1> QED BY <1>7, <1>8, <1>9, <1>10, <1>11 DEF RowOn

LEMMA AppendHolds ==
  ASSUME ArchiveInv, NEW e \in Exporter, AppendLine(e) PROVE ArchiveInv'
<1>1. /\ ArchiveTypes /\ FromsPast /\ Len(native) <= rows
      /\ native \in Seq(Row) /\ Len(native) \in Nat /\ rewrites \in Nat
      /\ known.seq \in Nat
      /\ \A p \in Lines : At(p) \in Line
      /\ \A a \in again : a.seq \in Nat /\ a.from \in Nat
  BY Numbers DEF ArchiveInv, ArchiveTypes
<1> PICK x \in Export : x = export[e]
  BY <1>1, OneExport
<1>2. PICK row \in Row, y \in Export :
           /\ Len(x.lines) > 0 /\ row = x.lines[1]
           /\ y.at = "append" /\ y.seq = x.seq + 1 /\ y.offset = x.offset
           /\ y.from = x.from /\ Len(y.lines) = Len(x.lines) - 1
           /\ \A i \in 1..Len(y.lines) : y.lines[i] = x.lines[i + 1]
           /\ x.at = "append" /\ export' = [export EXCEPT ![e] = y]
           /\ UNCHANGED <<native, rows, rewrites, known, lock, again, unseen>>
           /\ segments' \in [1..MaxSegments -> Seq(Line)]
           /\ Lines \subseteq Lines' /\ \A p \in Lines : At(p)' = At(p)
           /\ torn \subseteq torn' /\ torn' \subseteq Row
           /\ \/ Records' = Records /\ row \in torn'
              \/ \E new : /\ Records' = Records \cup {new}
                          /\ At(new)'.seq = x.seq /\ At(new)'.row = row
  BY LineAppended
<1>3. /\ \A f \in Exporter \ {e} : export[f].at = "idle"
      /\ \A f \in Exporter \ {e} : export'[f] = export[f]
      /\ export' \in [Exporter -> Export] /\ export'[e] = y /\ lock = e
  BY <1>1, <1>2, OneExport DEF ArchiveTypes
<1>4. ArchiveTypes'
  <2>1. \A f \in Exporter : export'[f].at # "idle" => lock' = f
    BY <1>2, <1>3
  <2> QED BY <1>1, <1>2, <1>3, <2>1 DEF ArchiveTypes
<1>5. Onward
  BY <1>1, <1>2 DEF Onward
<1>6. /\ \A p \in Records : At(p)' = At(p) /\ p \in Lines
      /\ \A any : Kept(any) => Kept(any)'
  BY <1>5, KeptStays DEF Records
<1>7. ExportHolds(x)
  BY <1>2 DEF ArchiveInv
<1>8. RowOn(x, y)
  BY <1>2, <1>7, OneRowOn DEF ExportHolds
\* The record put last, if any, is the row at hand under the number x.seq.
<1>9. ASSUME NEW p \in Records'
      PROVE  p \in Records \/ (At(p)'.seq = x.seq /\ At(p)'.row = row)
  BY <1>2, <1>9
<1>10. x.from = rewrites => Past(x) + 1 \in 1..Len(native)
                            /\ row = native[Past(x) + 1]
  <2> SUFFICES ASSUME x.from = rewrites
               PROVE  Past(x) + 1 \in 1..Len(native)
                      /\ row = native[Past(x) + 1]
    OBVIOUS
  <2>1. /\ x.offset <= Len(native) /\ Len(x.lines) <= x.offset
        /\ \A i \in 1..Len(x.lines) : x.lines[i] = native[Past(x) + i]
    BY <1>7 DEF ExportHolds, InOrder
  <2>2. 1 \in 1..Len(x.lines) /\ Past(x) + 1 \in 1..Len(native)
    BY <1>1, <1>8, <2>1 DEF RowOn
  <2> QED BY <1>2, <2>1, <2>2
<1>11. ASSUME NEW p \in Records, At(p).seq = x.seq
       PROVE  \E a \in again :
                /\ a.seq = x.seq
                /\ \/ At(p).row = row \/ a.from < rewrites
                   \/ At(p).row \in unseen
  <2>1. Agreed(p, x)
    BY <1>7, <1>8, <1>11 DEF ExportHolds, Agrees, RowOn
  <2>2. PICK a \in again :
          /\ a.seq = At(p).seq
          /\ \/ Excused(a, At(p).row)
             \/ \E j \in 1..Len(native) :
                  At(p).row = native[j] /\ j = Past(x) + a.seq - x.seq + 1
    BY <2>1 DEF Agreed
  <2>3. CASE Excused(a, At(p).row)
    BY <1>11, <2>2, <2>3 DEF Excused
  <2>4. ASSUME NEW j \in 1..Len(native), At(p).row = native[j],
               j = Past(x) + a.seq - x.seq + 1
        PROVE  At(p).row = row \/ a.from < rewrites
    <3>1. j = Past(x) + 1
      <4>1. j = Past(x) + x.seq - x.seq + 1
        BY <1>11, <2>2, <2>4
      <4> QED BY <1>8, <4>1 DEF RowOn
    <3>2. a.from <= x.from /\ x.from <= rewrites /\ x.from \in Nat
      BY <1>7, ExportFields DEF ExportHolds
    <3>3. x.from # rewrites => a.from < rewrites
      BY <1>1, <3>2
    <3> QED BY <1>10, <2>4, <3>1, <3>3
  <2> QED BY <1>11, <2>2, <2>3, <2>4
<1>12. AppendedOnce'
  <2>1. ASSUME NEW p \in Records, At(p).seq = x.seq, NEW new,
               At(new)'.seq = x.seq, At(new)'.row = row
        PROVE  Excepted(p, new)' /\ Excepted(new, p)'
    BY <1>2, <1>6, <1>11, <2>1 DEF Excepted
  <2>2. ASSUME NEW p \in Records', NEW q \in Records', p # q,
               At(p)'.seq = At(q)'.seq
        PROVE  Excepted(p, q)'
    <3>1. CASE p \in Records /\ q \in Records
      BY <1>5, <2>2, <3>1, RecordsHold
    <3>2. CASE p \in Records /\ q \notin Records
      BY <1>6, <1>9, <2>1, <2>2, <3>2
    <3>3. CASE p \notin Records /\ q \in Records
      BY <1>6, <1>9, <2>1, <2>2, <3>3
    <3>4. p \in Records \/ q \in Records
      BY <1>2, <2>2
    <3> QED BY <3>1, <3>2, <3>3, <3>4
  <2> QED BY <2>2 DEF AppendedOnce, Excepted
<1>13. EveryRowKept' /\ known'.from <= rewrites'
  BY <1>2, <1>5, RecordsHold
<1>14. ASSUME NEW p \in Records', At(p)'.seq >= known.seq
       PROVE  FromKilled(p)' \/ FromExport(p, y)'
  <2>1. CASE p \in Records /\ FromKilled(p)
    BY <1>1, <1>2, <1>5, <2>1, ExceptionsStay
  <2>2. CASE p \in Records /\ FromExport(p, x)
    <3>1. At(p).seq \in Nat /\ At(p)' = At(p)
      BY <1>1, <1>6, <2>2 DEF Line
    <3>2. At(p).seq < y.seq
      BY <1>8, <2>2, <3>1 DEF FromExport, RowOn
    <3>3. Past(x) + At(p).seq - x.seq + 1 = Past(y) + At(p).seq - y.seq + 1
      BY <1>8, <3>1 DEF RowOn
    <3>4. Past(y)' = Past(y)
      BY DEF Past
    <3> QED BY <1>2, <2>2, <3>1, <3>2, <3>3, <3>4 DEF FromExport
  <2>3. CASE At(p)'.seq = x.seq /\ At(p)'.row = row
    <3>1. x.from < rewrites \/ x.from = rewrites
      BY <1>1, <1>7, ExportFields DEF ExportHolds
    <3>2. x.seq < y.seq /\ Past(x) + 1 = Past(y) + x.seq - y.seq + 1
      BY <1>8 DEF RowOn
    <3>3. Past(y)' = Past(y)
      BY DEF Past
    <3> QED BY <1>2, <1>10, <2>3, <3>1, <3>2, <3>3 DEF FromExport
  <2>4. p \in Records => FromKilled(p) \/ FromExport(p, x)
    BY <1>3, <1>6, <1>14 DEF ArchiveInv, NotCounted, FromExport
  <2> QED BY <1>9, <2>1, <2>2, <2>3, <2>4
<1>15. NotCounted'
  <2>1. \A p : FromExport(p, y)' => FromExport(p, export[e])'
    BY <1>3 DEF FromExport, Past
  <2> QED BY <1>2, <1>14, <2>1 DEF NotCounted
<1>16. InOrder(y)' \/ y.from # rewrites
  <2> SUFFICES ASSUME y.from = rewrites PROVE InOrder(y)'
    OBVIOUS
  <2>1. InOrder(x) /\ x.from = rewrites
    BY <1>2, <1>7 DEF ExportHolds
  <2>2. Kept(row)'
    BY <1>2, <1>9 DEF Kept
  <2>3. ASSUME NEW n \in 1..Past(y) PROVE Kept(native[n])'
    <3>1. CASE n = Past(x) + 1
      BY <1>2, <1>10, <2>1, <2>2, <3>1 DEF Kept
    <3>2. CASE n # Past(x) + 1
      <4>1. n \in 1..Past(x)
        BY <1>8, <2>3, <3>2 DEF RowOn
      <4>2. Kept(native[n])
        BY <2>1, <4>1 DEF InOrder
      <4>3. \E any : any = native[n] /\ Kept(any)'
        BY <1>6, <4>2
      <4> QED BY <1>2, <4>3 DEF Kept
    <3> QED BY <3>1, <3>2
  <2>4. ASSUME NEW i \in 1..Len(y.lines)
        PROVE  y.lines[i] = native[Past(y) + i]
    <3>1. i + 1 \in 1..Len(x.lines) /\ Past(x) + (i + 1) = Past(y) + i
      BY <1>8, <2>4 DEF RowOn
    <3> QED BY <1>2, <2>1, <3>1 DEF InOrder
  <2>5. ReadsOn(y)'
    <3>1. Past(y) - (y.seq - known.seq) = Past(x) - (x.seq - known.seq)
      BY <1>1, <1>8 DEF RowOn
    <3>2. ReadsOn(x)
      BY <2>1 DEF InOrder
    <3>3. \/ Past(y) - (y.seq - known.seq) = known.offset
          \/ /\ Past(y) - (y.seq - known.seq) = 0 /\ known.from < rewrites
             /\ y.offset < known.offset
      BY <1>2, <3>1, <3>2 DEF ReadsOn
    <3>4. Past(y)' = Past(y)
      BY DEF Past
    <3> QED BY <1>2, <3>3, <3>4 DEF ReadsOn
  <2> QED BY <1>2, <2>1, <2>3, <2>4, <2>5 DEF InOrder, Past
<1>17. Agrees(y)'
  <2>1. ASSUME NEW p \in Records', At(p)'.seq >= y.seq PROVE Agreed(p, y)'
    <3>1. p \in Records /\ At(p)' = At(p)
      BY <1>2, <1>6, <1>8, <1>9, <2>1 DEF RowOn
    <3>2. At(p).seq \in Nat /\ At(p).seq >= x.seq
      BY <1>1, <1>6, <1>8, <2>1, <3>1 DEF Line, RowOn
    <3>3. Agreed(p, x)
      BY <1>7, <3>1, <3>2 DEF ExportHolds, Agrees
    <3>4. \A a \in again :
            Past(x) + a.seq - x.seq + 1 = Past(y) + a.seq - y.seq + 1
      BY <1>1, <1>8 DEF RowOn
    <3>5. Past(y)' = Past(y)
      BY DEF Past
    <3> QED BY <1>2, <3>1, <3>3, <3>4, <3>5 DEF Agreed, Excused
  <2> QED BY <2>1 DEF Agrees
<1>18. ExportHolds(y)'
  <2>1. /\ y.from <= rewrites' /\ known'.seq <= y.seq
        /\ Len(y.lines) <= y.offset
        /\ \A a \in again' : a.from <= y.from
    <3>1. /\ x.from <= rewrites /\ known.seq <= x.seq
          /\ \A a \in again : a.from <= x.from
      BY <1>7 DEF ExportHolds
    <3> QED BY <1>1, <1>2, <1>8, <3>1 DEF RowOn
  <2> QED BY <1>2, <1>16, <1>17, <2>1 DEF ExportHolds
<1>19. ASSUME NEW f \in Exporter, export'[f].at # "idle"
       PROVE  ExportHolds(export[f])'
  <2>1. SameHand(y, export'[f])
    BY <1>3, <1>19 DEF SameHand
  <2> QED BY <1>18, <2>1, HandStays
<1>20. /\ FromsPast' /\ Len(native') <= rows'
       /\ (known'.from = rewrites' => known'.offset <= Len(native'))
  BY <1>1, <1>2 DEF FromsPast, ArchiveInv
<1> QED BY <1>4, <1>12, <1>13, <1>15, <1>19, <1>20 DEF ArchiveInv

LEMMA ArchiveStarts == ArchiveInit => ArchiveInv
<1> SUFFICES ASSUME ArchiveInit PROVE ArchiveInv
  OBVIOUS
<1>1. /\ native = <<>> /\ rows = 0 /\ rewrites = 0
      /\ segments = [k \in 1..MaxSegments |-> <<>>]
      /\ known = [offset |-> 0, seq |-> 0, segment |-> 1, from |-> 0]
      /\ lock = Nobody /\ export = [e \in Exporter |-> NoExport]
      /\ again = {} /\ torn = {} /\ unseen = {}
  BY DEF ArchiveInit
<1>2. MaxRows \in Nat /\ MaxRewrites \in Nat /\ MaxSegments \in Nat \ {0}
  BY ArchiveAssumption
<1>3. NoExport \in Export /\ NoExport.at = "idle"
  BY <1>2, EmptySeq DEF NoExport, Export
<1>4. ArchiveTypes
  <2>1. native \in Seq(Row) /\ segments \in [1..MaxSegments -> Seq(Line)]
    BY <1>1, EmptySeq
  <2>2. known \in Known
    BY <1>1, <1>2 DEF Known
  <2>3. export \in [Exporter -> Export]
        /\ \A e \in Exporter : export[e].at = "idle"
    BY <1>1, <1>3
  <2> QED BY <1>1, <1>2, <2>1, <2>2, <2>3 DEF ArchiveTypes
<1>5. Records = {}
  <2>1. \A k \in 1..MaxSegments : DOMAIN segments[k] = {}
    BY <1>1, EmptySeq, LenProperties
  <2>2. DOMAIN segments = 1..MaxSegments
    BY <1>1
  <2> QED BY <2>1, <2>2 DEF Records, Lines
<1>6. Len(native) = 0 /\ known.offset = 0 /\ known.from = 0
  BY <1>1, EmptySeq
<1>7. EveryRowKept /\ AppendedOnce /\ NotCounted /\ FromsPast
  BY <1>1, <1>5, <1>6 DEF EveryRowKept, AppendedOnce, NotCounted, FromsPast
<1> QED BY <1>1, <1>3, <1>4, <1>6, <1>7 DEF ArchiveInv

LEMMA ArchiveSteps == ArchiveInv /\ [ArchiveNext]_archiveVars => ArchiveInv'
<1> SUFFICES ASSUME ArchiveInv, [ArchiveNext]_archiveVars PROVE ArchiveInv'
  OBVIOUS
<1>1. CASE HarnessWrites
  BY <1>1, WritesHolds
<1>2. CASE HarnessRewrites
  BY <1>2, RewritesHolds
<1>3. ASSUME NEW e \in Exporter, ReadNative(e) PROVE ArchiveInv'
  BY <1>3, ReadHolds
<1>4. ASSUME NEW e \in Exporter, AppendLine(e) PROVE ArchiveInv'
  BY <1>4, AppendHolds
<1>5. ASSUME NEW e \in Exporter, NextSegment(e) PROVE ArchiveInv'
  BY <1>5, SegmentHolds
<1>6. ASSUME NEW e \in Exporter, SaveState(e) PROVE ArchiveInv'
  BY <1>6, SaveHolds
<1>7. ASSUME NEW e \in Exporter, Die(e) PROVE ArchiveInv'
  BY <1>7, DieHolds
<1>8. CASE UNCHANGED archiveVars
  <2>1. /\ UNCHANGED <<native, rows, rewrites, known, lock, export>>
        /\ UNCHANGED <<segments, again, torn, unseen>>
    BY <1>8 DEF archiveVars
  <2>2. /\ ArchiveTypes /\ rewrites \in Nat /\ Len(native) \in Nat
        /\ Len(native) <= rows
        /\ known.from = rewrites => known.offset <= Len(native)
    BY Numbers DEF ArchiveInv
  <2>3. ArchiveTypes'
    BY <2>1, <2>2 DEF ArchiveTypes
  <2>4. Onward /\ Records' = Records
    BY <2>1, <2>2, SameLines DEF Onward
  <2>5. \A e \in Exporter : SameHand(export[e], export'[e])
    BY <2>1 DEF SameHand
  <2> QED BY <2>1, <2>2, <2>3, <2>4, <2>5, QuietStep
<1> QED
  BY <1>1, <1>2, <1>3, <1>4, <1>5, <1>6, <1>7, <1>8 DEF ArchiveNext

\* The archive, its state file and its exports have their types, and an export
\* at work holds the lock.
THEOREM ArchiveTyped == ArchiveSpec => []ArchiveTypes
<1>1. ArchiveInv => ArchiveTypes
  BY DEF ArchiveInv
<1> QED BY <1>1, ArchiveStarts, ArchiveSteps, PTL DEF ArchiveSpec

\* For any number of exports, rows, rewrites and segments, and wherever exports
\* are killed: every row the state counts is in the archive and a number names
\* one record, with the exceptions EveryRowKept and AppendedOnce name.
THEOREM ArchiveIsKept == ArchiveSpec => []ArchiveKept
<1>1. ArchiveInv => ArchiveKept
  BY DEF ArchiveInv, ArchiveKept
<1> QED BY <1>1, ArchiveStarts, ArchiveSteps, PTL DEF ArchiveSpec
-----------------------------------------------------------------------------
(* Holds                                                                   *)

(* Proofs about Holds.  The invariant is by induction over the growth of the *)
(* log, not over the events of a given log: the replay of the log is one and *)
(* no other (OneReplay), so what an append makes of it is what its event     *)
(* makes of the hold, and that is what the events mean (Means).              *)

\* f is what the log `events` says of the hold h after each of its events.
After(f, h, events) ==
  f = [n \in 0..Len(events) |->
         IF n = 0 THEN Unknown
         ELSE IF events[n].id = h THEN Applied(f[n - 1], events[n])
         ELSE f[n - 1]]

\* The replay of the log is one and no other.
OneReplay(h, events) ==
  \E f : After(f, h, events) /\ \A g : After(g, h, events) => g = f

\* What one more event makes of a hold.
Next1(h, e, x) == IF e.id = h THEN Applied(x, e) ELSE x

LEMMA AfterPoints ==
  ASSUME NEW f, NEW h, NEW events, NEW N \in Nat, N = Len(events),
         After(f, h, events)
  PROVE  /\ f[0] = Unknown
         /\ \A n \in 1..N : f[n] = Next1(h, events[n], f[n - 1])
         /\ f = [n \in 0..N |-> f[n]]
<1>1. f = [n \in 0..N |->
             IF n = 0 THEN Unknown ELSE Next1(h, events[n], f[n - 1])]
  BY DEF After, Next1
<1> HIDE DEF Next1
<1>2. 0 \in 0..N /\ \A n \in 1..N : n \in 0..N /\ n # 0
  OBVIOUS
<1>3. f[0] = Unknown
  BY <1>1, <1>2
<1>4. ASSUME NEW n \in 1..N PROVE f[n] = Next1(h, events[n], f[n - 1])
  BY <1>1, <1>2
<1>5. f = [n \in 0..N |-> f[n]]
  BY <1>1
<1> QED BY <1>3, <1>4, <1>5

LEMMA DerivedIs ==
  ASSUME NEW h, NEW events, NEW f, After(f, h, events), OneReplay(h, events)
  PROVE  Derived(h, events) = f[Len(events)]
<1>1. Derived(h, events) = (CHOOSE g : After(g, h, events))[Len(events)]
  BY DEF Derived, After
<1>2. After(CHOOSE g : After(g, h, events), h, events)
  <2> HIDE DEF After
  <2> QED OBVIOUS
<1>3. (CHOOSE g : After(g, h, events)) = f
  BY <1>2 DEF OneReplay
<1> QED BY <1>1, <1>3

LEMMA ReplayBegins ==
  ASSUME NEW h, NEW events, Len(events) = 0
  PROVE  OneReplay(h, events) /\ Derived(h, events) = Unknown
<1> DEFINE f == [n \in 0..0 |-> Unknown]
<1>1. After(f, h, events)
  BY DEF After
<1>2. ASSUME NEW g, After(g, h, events) PROVE g = f
  BY <1>2 DEF After
<1>3. OneReplay(h, events)
  BY <1>1, <1>2 DEF OneReplay
<1> QED BY <1>1, <1>3, DerivedIs

LEMMA ReplayGoesOn ==
  ASSUME NEW S, NEW events \in Seq(S), NEW e \in S, NEW h, OneReplay(h, events)
  PROVE  /\ OneReplay(h, Append(events, e))
         /\ Derived(h, Append(events, e)) = Next1(h, e, Derived(h, events))
<1> PICK more : more = Append(events, e)
  OBVIOUS
<1> PICK N \in Nat : N = Len(events)
  BY LenProperties
<1>1. /\ Len(more) = N + 1 /\ more[N + 1] = e
      /\ \A n \in 1..N : more[n] = events[n]
  BY AppendProperties
<1>2. PICK f : After(f, h, events) /\ \A g : After(g, h, events) => g = f
  BY DEF OneReplay
<1>3. /\ f[0] = Unknown
      /\ \A n \in 1..N : f[n] = Next1(h, events[n], f[n - 1])
  BY <1>2, AfterPoints
<1>4. Derived(h, events) = f[N]
  BY <1>2, DerivedIs
<1> PICK last : last = Next1(h, e, f[N])
  OBVIOUS
<1> PICK g : g = [n \in 0..(N + 1) |-> IF n = N + 1 THEN last ELSE f[n]]
  OBVIOUS
<1>5. /\ g[0] = Unknown /\ g[N + 1] = last
      /\ \A n \in 0..N : g[n] = f[n]
  BY <1>3
<1>6. ASSUME NEW n \in 0..(N + 1)
      PROVE  g[n] = IF n = 0 THEN Unknown ELSE Next1(h, more[n], g[n - 1])
  <2>1. CASE n = 0
    BY <1>5, <2>1
  <2>2. CASE n \in 1..N
    <3>1. n - 1 \in 0..N /\ n \in 0..N /\ n # 0
      BY <2>2
    <3> QED BY <1>1, <1>3, <1>5, <2>2, <3>1
  <2>3. CASE n = N + 1
    <3>1. n # 0 /\ n - 1 = N /\ N \in 0..N
      BY <2>3
    <3> QED BY <1>1, <1>5, <2>3, <3>1
  <2>4. n = 0 \/ n \in 1..N \/ n = N + 1
    OBVIOUS
  <2> QED BY <2>1, <2>2, <2>3, <2>4
<1>7. After(g, h, more)
  <2>1. g = [n \in 0..(N + 1) |->
               IF n = 0 THEN Unknown ELSE Next1(h, more[n], g[n - 1])]
    BY <1>6
  <2> QED BY <1>1, <2>1 DEF After, Next1
<1>8. ASSUME NEW k, After(k, h, more) PROVE k = g
  <2>1. /\ k[0] = Unknown
        /\ \A n \in 1..(N + 1) : k[n] = Next1(h, more[n], k[n - 1])
        /\ k = [n \in 0..(N + 1) |-> k[n]]
    <3>1. N + 1 \in Nat
      OBVIOUS
    <3> QED BY <1>1, <1>8, <3>1, AfterPoints
  <2> PICK r : r = [n \in 0..N |-> k[n]]
    OBVIOUS
  <2>2. ASSUME NEW n \in 0..N
        PROVE  r[n] = IF n = 0 THEN Unknown ELSE Next1(h, events[n], r[n - 1])
    <3>1. CASE n = 0
      BY <2>1, <3>1
    <3>2. CASE n # 0
      <4>1. n \in 1..N /\ n \in 1..(N + 1) /\ n - 1 \in 0..N
        BY <3>2
      <4> QED BY <1>1, <2>1, <3>2, <4>1
    <3> QED BY <3>1, <3>2
  <2>3. After(r, h, events)
    <3>1. r = [n \in 0..N |->
                 IF n = 0 THEN Unknown ELSE Next1(h, events[n], r[n - 1])]
      BY <2>2
    <3> QED BY <3>1 DEF After, Next1
  <2>4. \A n \in 0..N : k[n] = f[n]
    BY <1>2, <2>3
  <2>5. k[N + 1] = last
    <3>1. N + 1 \in 1..(N + 1) /\ N + 1 - 1 = N /\ N \in 0..N
      OBVIOUS
    <3>2. k[N + 1] = Next1(h, more[N + 1], k[N])
      <4>1. PICK m \in 1..(N + 1) : m = N + 1
        BY <3>1
      <4>2. k[m] = Next1(h, more[m], k[m - 1])
        BY <2>1
      <4>3. m - 1 = N
        BY <4>1
      <4> QED BY <4>1, <4>2, <4>3
    <3>3. k[N] = f[N]
      BY <2>4, <3>1
    <3> QED BY <1>1, <3>1, <3>2, <3>3
  <2>6. \A n \in 0..(N + 1) : k[n] = g[n]
    BY <1>5, <2>4, <2>5
  <2> QED BY <2>1, <2>6
<1>9. OneReplay(h, more)
  BY <1>7, <1>8 DEF OneReplay
<1>10. Derived(h, more) = last
  <2>1. Derived(h, more) = g[Len(more)]
    BY <1>7, <1>9, DerivedIs
  <2> QED BY <1>1, <1>5, <2>1
<1> QED BY <1>4, <1>9, <1>10

-----------------------------------------------------------------------------
HoldStates == {"unknown", "held", "released", "orphan", "unreadable"}
HoldState ==
  [state : HoldStates, flag : BOOLEAN, kind : BOOLEAN, days : SUBSET Date]

Placed(h) == \E n \in DOMAIN log : Says(n, h, "place")
Freed(h) == \E n \in DOMAIN log : Says(n, h, "release")
\* A day was released of what had been released before and never placed.
Stuck(h) ==
  \E m \in DOMAIN log :
    /\ Says(m, h, "release") /\ log[m].date # NoDate
    /\ \E n \in 1..(m - 1) : Says(n, h, "release")
    /\ \A n \in 1..(m - 1) : ~Says(n, h, "place")
Held(h) ==
  \E n \in DOMAIN log :
    Lasts(n, h) /\ \A m \in n..Len(log) : ~Frees(m, h, NoDate)
DayFreed(n, h, date) == \E m \in n..Len(log) : Frees(m, h, date)

\* What the replay makes of the log says what its events mean.
Means(h) ==
  /\ Now[h] \in HoldState
  /\ Now[h].state = "unreadable" <=> Stuck(h)
  /\ Now[h].state = "unknown" <=> ~Placed(h) /\ ~Freed(h)
  /\ Now[h].state = "orphan" => ~Placed(h) /\ Freed(h)
  /\ Now[h].state \in {"held", "released"} => Placed(h)
  /\ ~Stuck(h) =>
       /\ Now[h].state = "held" <=> Held(h)
       /\ \A n \in DOMAIN log, date \in Date : Lasts(n, h) =>
            (date \in Now[h].days <=> DayFreed(n, h, date))

\* The log is extended by the event e.
Adds(e) == e \in Event /\ log' = Append(log, e)

LEMMA EventFields ==
  ASSUME NEW e \in Event
  PROVE  /\ e.event \in {"place", "amend", "release"} /\ e.id \in Hold
         /\ e.event = "place" => e.flag \in BOOLEAN /\ e.kind \in BOOLEAN
         /\ e.event = "amend" => e.kind \in BOOLEAN
         /\ e.event = "release" =>
              /\ e.date \in Date \cup {NoDate} /\ e.series \in BOOLEAN
              /\ e.seen \in 0..MaxEvents
BY DEF Event, Releases

LEMMA LogGrows ==
  ASSUME log \in Seq(Event), NEW e, Adds(e), NEW N \in Nat, N = Len(log)
  PROVE  /\ DOMAIN log = 1..N /\ DOMAIN log' = 1..(N + 1)
         /\ Len(log') = N + 1 /\ log' \in Seq(Event)
         /\ \A n \in 1..N : log'[n] = log[n]
         /\ log'[N + 1] = e
         /\ \A n \in 1..N : \A h, v : Says(n, h, v)' <=> Says(n, h, v)
         /\ \A n \in 1..N : \A h, d : Frees(n, h, d)' <=> Frees(n, h, d)
         /\ \A h, v : Says(N + 1, h, v)' <=> e.event = v /\ e.id = h
         /\ \A h, d : Frees(N + 1, h, d)'
                        <=> e.event = "release" /\ e.id = h /\ e.date = d
<1>1. /\ DOMAIN log = 1..N /\ DOMAIN log' = 1..(N + 1)
      /\ Len(log') = N + 1 /\ log' \in Seq(Event)
      /\ \A n \in 1..N : log'[n] = log[n]
      /\ log'[N + 1] = e
  BY AppendProperties, LenProperties DEF Adds
<1> QED BY <1>1 DEF Says, Frees

LEMMA PlacedGrows ==
  ASSUME log \in Seq(Event), NEW e, Adds(e), NEW h
  PROVE  /\ Placed(h)' <=> Placed(h) \/ (e.event = "place" /\ e.id = h)
         /\ Freed(h)' <=> Freed(h) \/ (e.event = "release" /\ e.id = h)
<1> PICK N \in Nat : N = Len(log)
  BY LenProperties
<1>1. /\ DOMAIN log = 1..N /\ DOMAIN log' = 1..(N + 1)
      /\ \A n \in 1..N : \A i, v : Says(n, i, v)' <=> Says(n, i, v)
      /\ \A i, v : Says(N + 1, i, v)' <=> e.event = v /\ e.id = i
  BY SMTT(30), LogGrows
<1>2. N + 1 \in 1..(N + 1) /\ \A n \in 1..(N + 1) : n \in 1..N \/ n = N + 1
  OBVIOUS
<1>3. \A n \in 1..N : n \in 1..(N + 1)
  OBVIOUS
<1>4. \A v : (\E n \in DOMAIN log' : Says(n, h, v)')
              <=> (\E n \in DOMAIN log : Says(n, h, v))
                    \/ (e.event = v /\ e.id = h)
  BY <1>1, <1>2, <1>3
<1> QED BY <1>4 DEF Placed, Freed

LEMMA StuckGrows ==
  ASSUME log \in Seq(Event), NEW e, Adds(e), NEW h
  PROVE  Stuck(h)' <=>
           \/ Stuck(h)
           \/ /\ e.event = "release" /\ e.id = h /\ e.date # NoDate
              /\ Freed(h) /\ ~Placed(h)
<1> PICK N \in Nat : N = Len(log)
  BY LenProperties
<1>1. /\ DOMAIN log = 1..N /\ DOMAIN log' = 1..(N + 1)
      /\ \A n \in 1..N : log'[n] = log[n]
      /\ log'[N + 1] = e
      /\ \A n \in 1..N : \A i, v : Says(n, i, v)' <=> Says(n, i, v)
      /\ \A i, v : Says(N + 1, i, v)' <=> e.event = v /\ e.id = i
  BY LogGrows
<1> DEFINE StuckAt(m) ==
      /\ Says(m, h, "release") /\ log[m].date # NoDate
      /\ \E n \in 1..(m - 1) : Says(n, h, "release")
      /\ \A n \in 1..(m - 1) : ~Says(n, h, "place")
<1>2. ASSUME NEW m \in 1..N PROVE StuckAt(m)' <=> StuckAt(m)
  <2>1. \A n \in 1..(m - 1) : n \in 1..N
    OBVIOUS
  <2> QED BY <1>1, <2>1
<1>3. StuckAt(N + 1)' <=>
        /\ e.event = "release" /\ e.id = h /\ e.date # NoDate
        /\ Freed(h) /\ ~Placed(h)
  <2>1. N + 1 - 1 = N
    OBVIOUS
  <2> QED BY <1>1, <2>1 DEF Freed, Placed
<1>4. N + 1 \in 1..(N + 1) /\ \A n \in 1..(N + 1) : n \in 1..N \/ n = N + 1
  OBVIOUS
<1>5. \A n \in 1..N : n \in 1..(N + 1)
  OBVIOUS
<1>6. (Stuck(h) <=> \E m \in 1..N : StuckAt(m))
      /\ (Stuck(h)' <=> \E m \in 1..(N + 1) : StuckAt(m)')
  BY <1>1 DEF Stuck
<1> HIDE DEF StuckAt
<1> QED BY <1>2, <1>3, <1>4, <1>5, <1>6

\* A place begins the hold anew; no other event changes which place is last.
LEMMA LastsGrows ==
  ASSUME log \in Seq(Event), NEW e, Adds(e), NEW h,
         NEW N \in Nat, N = Len(log)
  PROVE  /\ e.event = "place" /\ e.id = h =>
              \A n \in 1..(N + 1) : Lasts(n, h)' <=> n = N + 1
         /\ ~(e.event = "place" /\ e.id = h) =>
              \A n \in 1..(N + 1) :
                Lasts(n, h)' <=> n \in 1..N /\ Lasts(n, h)
<1>1. /\ Len(log') = N + 1
      /\ \A n \in 1..N : \A i, v : Says(n, i, v)' <=> Says(n, i, v)
      /\ \A i, v : Says(N + 1, i, v)' <=> e.event = v /\ e.id = i
  BY LogGrows
<1>2. ASSUME NEW n \in 1..N
      PROVE  Lasts(n, h)' <=> /\ Lasts(n, h)
                              /\ ~(e.event = "place" /\ e.id = h)
  <2>1. N + 1 \in (n + 1)..(N + 1)
        /\ \A m \in (n + 1)..(N + 1) : m = N + 1 \/ m \in (n + 1)..N
    OBVIOUS
  <2>2. \A m \in (n + 1)..N : m \in 1..N /\ m \in (n + 1)..(N + 1)
    OBVIOUS
  <2> QED BY <1>1, <2>1, <2>2 DEF Lasts
<1>3. Lasts(N + 1, h)' <=> e.event = "place" /\ e.id = h
  <2>1. \A m \in (N + 1 + 1)..(N + 1) : FALSE
    OBVIOUS
  <2> QED BY <1>1, <2>1 DEF Lasts
<1>4. \A n \in 1..(N + 1) : n \in 1..N \/ n = N + 1
  OBVIOUS
<1>5. N + 1 \notin 1..N
  OBVIOUS
<1> QED BY <1>2, <1>3, <1>4, <1>5

LEMMA DayFreedGrows ==
  ASSUME log \in Seq(Event), NEW e, Adds(e), NEW h, NEW date,
         NEW N \in Nat, N = Len(log)
  PROVE  /\ \A n \in 1..N : DayFreed(n, h, date)' <=>
              \/ DayFreed(n, h, date)
              \/ e.event = "release" /\ e.id = h /\ e.date = date
         /\ DayFreed(N + 1, h, date)' <=>
              e.event = "release" /\ e.id = h /\ e.date = date
<1>1. /\ Len(log') = N + 1
      /\ \A n \in 1..N : Frees(n, h, date)' <=> Frees(n, h, date)
      /\ Frees(N + 1, h, date)'
           <=> e.event = "release" /\ e.id = h /\ e.date = date
  <2>1. Len(log') = N + 1
    BY LogGrows
  <2>2. \A n \in 1..N : \A i, d : Frees(n, i, d)' <=> Frees(n, i, d)
    BY LogGrows
  <2>3. \A i, d : Frees(N + 1, i, d)'
                    <=> e.event = "release" /\ e.id = i /\ e.date = d
    BY LogGrows
  <2> QED BY <2>1, <2>2, <2>3
<1>2. ASSUME NEW n \in 1..N
      PROVE  DayFreed(n, h, date)' <=>
               \/ DayFreed(n, h, date)
               \/ e.event = "release" /\ e.id = h /\ e.date = date
  <2>1. N + 1 \in n..(N + 1)
        /\ \A m \in n..(N + 1) : m = N + 1 \/ m \in n..N
    OBVIOUS
  <2>2. \A m \in n..N : m \in 1..N /\ m \in n..(N + 1)
    OBVIOUS
  <2> QED BY <1>1, <2>1, <2>2 DEF DayFreed
<1>3. DayFreed(N + 1, h, date)' <=>
        e.event = "release" /\ e.id = h /\ e.date = date
  <2>1. N + 1 \in (N + 1)..(N + 1) /\ \A m \in (N + 1)..(N + 1) : m = N + 1
    OBVIOUS
  <2> QED BY <1>1, <2>1 DEF DayFreed
<1> QED BY <1>2, <1>3

LEMMA HeldGrows ==
  ASSUME log \in Seq(Event), NEW e, Adds(e), NEW h
  PROVE  /\ e.event = "place" /\ e.id = h => Held(h)'
         /\ e.event = "release" /\ e.id = h /\ e.date = NoDate => ~Held(h)'
         /\ e.id # h \/ e.event = "amend"
              \/ (e.event = "release" /\ e.date # NoDate) =>
              (Held(h)' <=> Held(h))
<1> PICK N \in Nat : N = Len(log)
  BY LenProperties
<1>1. DOMAIN log = 1..N /\ DOMAIN log' = 1..(N + 1)
  BY LogGrows
<1>2. /\ Held(h) <=>
           \E n \in 1..N : Lasts(n, h) /\ ~DayFreed(n, h, NoDate)
      /\ Held(h)' <=> \E n \in 1..(N + 1) :
           Lasts(n, h)' /\ ~DayFreed(n, h, NoDate)'
  BY <1>1 DEF Held, DayFreed
<1>3. N + 1 \in 1..(N + 1) /\ \A n \in 1..(N + 1) : n \in 1..N \/ n = N + 1
  OBVIOUS
<1>4. \A n \in 1..N : n \in 1..(N + 1)
  OBVIOUS
<1>5. /\ \A n \in 1..N : DayFreed(n, h, NoDate)' <=>
           \/ DayFreed(n, h, NoDate)
           \/ e.event = "release" /\ e.id = h /\ e.date = NoDate
      /\ DayFreed(N + 1, h, NoDate)' <=>
           e.event = "release" /\ e.id = h /\ e.date = NoDate
  BY DayFreedGrows
<1>6. CASE e.event = "place" /\ e.id = h
  <2>1. Lasts(N + 1, h)'
    BY <1>3, <1>6, LastsGrows
  <2> QED BY <1>2, <1>3, <1>5, <1>6, <2>1
<1>7. CASE ~(e.event = "place" /\ e.id = h)
  <2>1. \A n \in 1..(N + 1) : Lasts(n, h)' <=> n \in 1..N /\ Lasts(n, h)
    BY <1>7, LastsGrows
  <2> QED BY <1>2, <1>3, <1>4, <1>5, <1>7, <2>1
<1> QED BY <1>6, <1>7

LEMMA NowGrows ==
  ASSUME log \in Seq(Event), NEW e, Adds(e), NEW h \in Hold,
         OneReplay(h, log)
  PROVE  OneReplay(h, log)' /\ Now[h]' = Next1(h, e, Now[h])
<1>1. e \in Event /\ log' = Append(log, e)
  BY DEF Adds
<1>2. OneReplay(h, Append(log, e))
      /\ Derived(h, Append(log, e)) = Next1(h, e, Derived(h, log))
  BY <1>1, ReplayGoesOn
<1>3. OneReplay(h, log') /\ Derived(h, log') = Next1(h, e, Derived(h, log))
  BY <1>1, <1>2
<1>4. Now[h]' = Derived(h, log') /\ Now[h] = Derived(h, log)
  BY DEF Now
<1> QED BY <1>3, <1>4

LEMMA AppliedFields ==
  ASSUME NEW x \in HoldState, NEW e \in Event, NEW y, y = Applied(x, e)
  PROVE  /\ y \in HoldState
         /\ x.state = "unreadable" => y = x
         /\ x.state # "unreadable" =>
              /\ e.event = "place" => y.state = "held" /\ y.days = {}
              /\ e.event = "amend" => y.state = x.state /\ y.days = x.days
              /\ e.event = "release" /\ e.date = NoDate =>
                   /\ y.days = x.days
                   /\ y.state = IF x.state \in {"unknown", "orphan"}
                                THEN "orphan" ELSE "released"
              /\ e.event = "release" /\ e.date # NoDate =>
                   /\ y.state = IF x.state = "unknown" THEN "orphan"
                                ELSE IF x.state = "orphan" THEN "unreadable"
                                ELSE x.state
                   /\ x.state \in {"held", "released"} =>
                        y.days = x.days \cup {e.date}
<1>0. /\ x.state \in HoldStates /\ x.flag \in BOOLEAN /\ x.kind \in BOOLEAN
      /\ x.days \in SUBSET Date
  BY DEF HoldState
<1>1. CASE x.state = "unreadable"
  BY <1>1 DEF Applied
<1>2. CASE x.state # "unreadable" /\ e.event = "place"
  <2>1. y = [state |-> "held", flag |-> e.flag, kind |-> e.kind, days |-> {}]
    BY <1>2 DEF Applied
  <2>2. e.flag \in BOOLEAN /\ e.kind \in BOOLEAN
    BY <1>2, EventFields
  <2> QED BY <1>2, <2>1, <2>2 DEF HoldState, HoldStates
<1>3. CASE x.state # "unreadable" /\ e.event = "amend"
  <2>1. y = IF x.state = "unknown" THEN x ELSE [x EXCEPT !.kind = e.kind]
    BY <1>3 DEF Applied
  <2>2. e.kind \in BOOLEAN
    BY <1>3, EventFields
  <2> QED BY <1>3, <2>1, <2>2 DEF HoldState
<1>4. CASE x.state # "unreadable" /\ e.event = "release"
  <2>1. y = IF x.state = "unknown" THEN [x EXCEPT !.state = "orphan"]
            ELSE IF e.date = NoDate THEN FreeAll(x) ELSE FreeDay(x, e.date)
    BY <1>4 DEF Applied
  <2>2. e.date \in Date \cup {NoDate}
    BY <1>4, EventFields
  <2>3. CASE x.state = "unknown"
    <3>1. y = [x EXCEPT !.state = "orphan"]
      BY <2>1, <2>3
    <3>2. y \in HoldState /\ y.state = "orphan" /\ y.days = x.days
      BY <3>1 DEF HoldState, HoldStates
    <3> QED BY <1>4, <2>3, <3>2
  <2>4. CASE x.state # "unknown" /\ e.date = NoDate
    <3>1. y = IF x.state = "orphan" THEN x ELSE [x EXCEPT !.state = "released"]
      BY <2>1, <2>4 DEF FreeAll
    <3>2. /\ y \in HoldState /\ y.days = x.days
          /\ y.state = IF x.state = "orphan" THEN "orphan" ELSE "released"
      BY <3>1 DEF HoldState, HoldStates
    <3> QED BY <1>4, <2>4, <3>2
  <2>5. CASE x.state # "unknown" /\ e.date # NoDate
    <3>1. y = IF x.state = "orphan" THEN [x EXCEPT !.state = "unreadable"]
              ELSE [x EXCEPT !.days = x.days \cup {e.date}]
      BY <2>1, <2>5 DEF FreeDay
    <3>2. e.date \in Date
      BY <2>2, <2>5
    <3>3. /\ y \in HoldState
          /\ y.state = IF x.state = "orphan" THEN "unreadable" ELSE x.state
          /\ x.state # "orphan" => y.days = x.days \cup {e.date}
      BY <3>1, <3>2 DEF HoldState, HoldStates
    <3> QED BY <1>4, <2>5, <3>3
  <2> QED BY <2>3, <2>4, <2>5
<1>5. e.event \in {"place", "amend", "release"}
  BY EventFields
<1> QED BY <1>1, <1>2, <1>3, <1>4, <1>5

\* A first release leaves no day of what was not placed.
LEMMA LastsPlaced ==
  ASSUME log \in Seq(Event), NEW h, NEW n \in DOMAIN log, Lasts(n, h)
  PROVE  Placed(h)
BY DEF Lasts, Placed

LEMMA MeansGrows ==
  ASSUME log \in Seq(Event), NEW e, Adds(e), NEW h \in Hold,
         OneReplay(h, log), Means(h)
  PROVE  Means(h)'
<1> PICK N \in Nat : N = Len(log)
  BY LenProperties
<1> PICK x \in HoldState : x = Now[h]
  BY DEF Means
<1> PICK y : y = Now[h]'
  OBVIOUS
<1>0. e \in Event
  BY DEF Adds
<1>1. DOMAIN log = 1..N /\ DOMAIN log' = 1..(N + 1)
  BY LogGrows
<1>2. y = Next1(h, e, x)
  BY NowGrows
<1>3. /\ x.state = "unreadable" <=> Stuck(h)
      /\ x.state = "unknown" <=> ~Placed(h) /\ ~Freed(h)
      /\ x.state = "orphan" => ~Placed(h) /\ Freed(h)
      /\ x.state \in {"held", "released"} => Placed(h)
      /\ x.state \in HoldStates
  BY DEF Means, HoldState
<1>4. /\ Placed(h)' <=> Placed(h) \/ (e.event = "place" /\ e.id = h)
      /\ Freed(h)' <=> Freed(h) \/ (e.event = "release" /\ e.id = h)
  BY PlacedGrows
<1>5. Stuck(h)' <=>
        \/ Stuck(h)
        \/ /\ e.event = "release" /\ e.id = h /\ e.date # NoDate
           /\ Freed(h) /\ ~Placed(h)
  BY StuckGrows
<1>6. /\ e.event = "place" /\ e.id = h => Held(h)'
      /\ e.event = "release" /\ e.id = h /\ e.date = NoDate => ~Held(h)'
      /\ e.id # h \/ e.event = "amend"
           \/ (e.event = "release" /\ e.date # NoDate) =>
           (Held(h)' <=> Held(h))
  BY HeldGrows
<1>7. ~Stuck(h) =>
        /\ x.state = "held" <=> Held(h)
        /\ \A n \in 1..N, date \in Date : Lasts(n, h) =>
             (date \in x.days <=> DayFreed(n, h, date))
  BY <1>1 DEF Means
<1>8. e.event \in {"place", "amend", "release"}
      /\ (e.event = "release" => e.date \in Date \cup {NoDate})
  BY <1>0, EventFields
<1>9. NoDate \notin Date
  BY HoldsAssumption
<1>10. e.id = h => y = Applied(x, e)
  BY <1>2 DEF Next1
<1>11. e.id # h => y = x
  BY <1>2 DEF Next1
<1>12. \A n \in 1..N : Lasts(n, h) => Placed(h)
  BY <1>1, LastsPlaced
<1>13. y \in HoldState
  BY <1>0, <1>10, <1>11, AppliedFields
<1>14. /\ y.state = "unreadable" <=> Stuck(h)'
       /\ y.state = "unknown" <=> ~Placed(h)' /\ ~Freed(h)'
       /\ y.state = "orphan" => ~Placed(h)' /\ Freed(h)'
       /\ y.state \in {"held", "released"} => Placed(h)'
       /\ ~Stuck(h)' => (y.state = "held" <=> Held(h)')
  <2>1. CASE e.id # h
    BY <1>3, <1>4, <1>5, <1>6, <1>7, <1>11, <2>1
  <2>2. CASE e.id = h /\ x.state = "unreadable"
    <3>1. y = x
      BY <1>0, <1>10, <2>2, AppliedFields
    <3> QED BY <1>3, <1>4, <1>5, <2>2, <3>1
  <2>3. CASE e.id = h /\ x.state # "unreadable" /\ e.event = "place"
    <3>1. y.state = "held"
      BY <1>0, <1>10, <2>3, AppliedFields
    <3> QED BY <1>3, <1>4, <1>5, <1>6, <2>3, <3>1
  <2>4. CASE e.id = h /\ x.state # "unreadable" /\ e.event = "amend"
    <3>1. y.state = x.state
      BY <1>0, <1>10, <2>4, AppliedFields
    <3> QED BY <1>3, <1>4, <1>5, <1>6, <1>7, <2>4, <3>1
  <2>5. CASE /\ e.id = h /\ x.state # "unreadable"
             /\ e.event = "release" /\ e.date = NoDate
    <3>1. y.state = IF x.state \in {"unknown", "orphan"}
                    THEN "orphan" ELSE "released"
      BY <1>0, <1>10, <2>5, AppliedFields
    <3> QED BY <1>3, <1>4, <1>5, <1>6, <2>5, <3>1 DEF HoldStates
  <2>6. CASE /\ e.id = h /\ x.state # "unreadable"
             /\ e.event = "release" /\ e.date # NoDate
    <3>1. y.state = IF x.state = "unknown" THEN "orphan"
                    ELSE IF x.state = "orphan" THEN "unreadable" ELSE x.state
      BY <1>0, <1>10, <2>6, AppliedFields
    <3> QED BY <1>3, <1>4, <1>5, <1>6, <1>7, <2>6, <3>1 DEF HoldStates
  <2> QED BY <1>8, <2>1, <2>2, <2>3, <2>4, <2>5, <2>6
<1>15. ASSUME ~Stuck(h)', NEW n \in 1..(N + 1), NEW date \in Date,
              Lasts(n, h)'
       PROVE  date \in y.days <=> DayFreed(n, h, date)'
  <2>0. ~Stuck(h) /\ x.state # "unreadable"
    BY <1>3, <1>5, <1>15
  <2>1. CASE e.event = "place" /\ e.id = h
    <3>1. n = N + 1
      BY <1>15, <2>1, LastsGrows
    <3>2. ~DayFreed(n, h, date)'
      BY <2>1, <3>1, DayFreedGrows
    <3>3. y.days = {}
      BY <1>0, <1>10, <2>0, <2>1, AppliedFields
    <3> QED BY <3>2, <3>3
  <2>2. CASE ~(e.event = "place" /\ e.id = h)
    <3>1. n \in 1..N /\ Lasts(n, h)
      <4>1. \A m \in 1..(N + 1) : Lasts(m, h)' <=> m \in 1..N /\ Lasts(m, h)
        BY <2>2, LastsGrows
      <4> QED BY <1>15, <4>1
    <3>2. DayFreed(n, h, date)' <=>
            \/ DayFreed(n, h, date)
            \/ e.event = "release" /\ e.id = h /\ e.date = date
      BY <3>1, DayFreedGrows
    <3>3. date \in x.days <=> DayFreed(n, h, date)
      BY <1>7, <2>0, <3>1
    <3>4. Placed(h)
      BY <1>12, <3>1
    <3>5. x.state \in {"held", "released"}
      BY <1>3, <2>0, <3>4 DEF HoldStates
    <3>6. CASE e.id # h
      BY <1>11, <3>2, <3>3, <3>6
    <3>7. CASE e.id = h /\ e.event = "amend"
      <4>1. y.days = x.days
        BY <1>0, <1>10, <2>0, <3>7, AppliedFields
      <4> QED BY <3>2, <3>3, <3>7, <4>1
    <3>8. CASE e.id = h /\ e.event = "release" /\ e.date = NoDate
      <4>1. y.days = x.days
        BY <1>0, <1>10, <2>0, <3>8, AppliedFields
      <4> QED BY <1>9, <3>2, <3>3, <3>8, <4>1
    <3>9. CASE e.id = h /\ e.event = "release" /\ e.date # NoDate
      <4>1. y.days = x.days \cup {e.date}
        BY <1>0, <1>10, <2>0, <3>5, <3>9, AppliedFields
      <4> QED BY <3>2, <3>3, <3>9, <4>1
    <3> QED BY <1>8, <2>2, <3>6, <3>7, <3>8, <3>9
  <2> QED BY <2>1, <2>2
<1> QED BY <1>1, <1>13, <1>14, <1>15 DEF Means

-----------------------------------------------------------------------------
\* The release e was checked against a log that has only grown since, and if it
\* is of a whole recurring hold that the log had as live, its seat said so.
OnPurpose(e) ==
  /\ e.seen <= Len(log)
  /\ LET found == HoldIn(e.seen)[e.id]
     IN e.date = NoDate /\ Live(found) /\ Recurring(found) => e.series

LogInv ==
  /\ log \in Seq(Event) /\ Len(log) <= MaxEvents
  /\ \A h \in Hold : OneReplay(h, log) /\ Means(h)
  /\ \A n \in DOMAIN log : log[n].event = "release" => OnPurpose(log[n])
CheckInv ==
  /\ checked \in [Seat -> SUBSET Releases]
  /\ \A s \in Seat : checked[s] = {} \/ \E e \in Releases : checked[s] = {e}
  /\ \A s \in Seat : \A e \in checked[s] : OnPurpose(e)
HoldsInv == LogInv /\ CheckInv

\* What the log said up to a line it keeps saying.
LEMMA HoldInStays ==
  ASSUME log \in Seq(Event), NEW e, Adds(e), NEW k \in Nat, k <= Len(log)
  PROVE  HoldIn(k)' = HoldIn(k)
<1> PICK N \in Nat : N = Len(log)
  BY LenProperties
<1>1. /\ log' \in Seq(Event) /\ Len(log') = N + 1
      /\ \A n \in 1..N : log'[n] = log[n]
  BY LogGrows
<1>2. k <= N /\ k <= N + 1
  OBVIOUS
<1>3. SubSeq(log', 1, k) = SubSeq(log, 1, k)
  <2> PICK a : a = SubSeq(log, 1, k)
    OBVIOUS
  <2> PICK b : b = SubSeq(log', 1, k)
    OBVIOUS
  <2>1. /\ a \in Seq(Event) /\ Len(a) = k
        /\ \A i \in 1..k : a[i] = log[i]
    BY <1>2
  <2>2. /\ b \in Seq(Event) /\ Len(b) = k
        /\ \A i \in 1..k : b[i] = log'[i]
    BY <1>1, <1>2
  <2>3. \A i \in 1..k : i \in 1..N
    BY <1>2
  <2> QED BY <1>1, <2>1, <2>2, <2>3, SeqEqual
<1> QED BY <1>3 DEF HoldIn

LEMMA WholeLog ==
  ASSUME log \in Seq(Event), NEW h \in Hold
  PROVE  HoldIn(Len(log))[h] = Now[h]
<1>1. SubSeq(log, 1, Len(log)) = log
  OBVIOUS
<1> QED BY <1>1 DEF HoldIn, Now

LEMMA PurposeStays ==
  ASSUME log \in Seq(Event), NEW e, Adds(e), NEW x, x.seen \in Nat,
         OnPurpose(x)
  PROVE  OnPurpose(x)'
<1> PICK N \in Nat : N = Len(log)
  BY LenProperties
<1> PICK k \in Nat : k = x.seen
  OBVIOUS
<1>1. k <= N /\ Len(log') = N + 1
  BY LogGrows DEF OnPurpose
<1>2. HoldIn(k)' = HoldIn(k)
  BY <1>1, HoldInStays
<1>3. x.seen <= Len(log')
  BY <1>1
<1>4. HoldIn(x.seen)'[x.id] = HoldIn(x.seen)[x.id]
  BY <1>2
<1> QED BY <1>3, <1>4 DEF OnPurpose

LEMMA LogStep ==
  ASSUME LogInv, NEW e, Adds(e), Len(log) < MaxEvents,
         e.event = "release" => OnPurpose(e)
  PROVE  LogInv'
<1> PICK N \in Nat : N = Len(log)
  BY LenProperties DEF LogInv
<1>1. /\ log \in Seq(Event)
      /\ \A h \in Hold : OneReplay(h, log) /\ Means(h)
      /\ \A n \in DOMAIN log : log[n].event = "release" => OnPurpose(log[n])
  BY DEF LogInv
<1>2. /\ DOMAIN log = 1..N /\ DOMAIN log' = 1..(N + 1)
      /\ Len(log') = N + 1 /\ log' \in Seq(Event)
      /\ \A n \in 1..N : log'[n] = log[n]
      /\ log'[N + 1] = e
  BY <1>1, LogGrows
<1>3. Len(log') <= MaxEvents
  BY <1>2, HoldsAssumption
<1>4. ASSUME NEW h \in Hold PROVE (OneReplay(h, log) /\ Means(h))'
  BY <1>1, NowGrows, MeansGrows
<1>5. ASSUME NEW x \in Event, x.event = "release", OnPurpose(x)
      PROVE  OnPurpose(x)'
  <2>1. x.seen \in 0..MaxEvents
    BY <1>5, EventFields
  <2>2. x.seen \in Nat
    BY <2>1, HoldsAssumption
  <2> QED BY <1>1, <1>5, <2>2, PurposeStays
<1>6. ASSUME NEW n \in 1..(N + 1), log'[n].event = "release"
      PROVE  OnPurpose(log[n])'
  <2> PICK x : x = log'[n]
    OBVIOUS
  <2>1. x \in Event
    BY <1>2
  <2>2. OnPurpose(x)
    <3>1. CASE n \in 1..N
      BY <1>1, <1>2, <1>6, <3>1
    <3>2. CASE n = N + 1
      BY <1>2, <1>6, <3>2
    <3> QED BY <3>1, <3>2
  <2>3. OnPurpose(x)'
    BY <1>5, <1>6, <2>1, <2>2
  <2> QED BY <2>3
<1> QED BY <1>2, <1>3, <1>4, <1>6 DEF LogInv

LEMMA LogStays ==
  ASSUME LogInv, UNCHANGED log
  PROVE  LogInv'
<1>1. log' = log
  OBVIOUS
<1>2. \A h \in Hold : OneReplay(h, log)' <=> OneReplay(h, log)
  BY <1>1
<1>3. \A h \in Hold : Means(h)' <=> Means(h)
  BY <1>1 DEF Means, Now, Stuck, Placed, Freed, Held, DayFreed, Lasts, Frees,
     Says
<1>4. \A n \in DOMAIN log : OnPurpose(log[n])' <=> OnPurpose(log[n])
  BY <1>1 DEF OnPurpose, HoldIn
<1> QED BY <1>1, <1>2, <1>3, <1>4 DEF LogInv

LEMMA CheckStays ==
  ASSUME LogInv, CheckInv, NEW e, Adds(e),
         NEW x \in Releases, OnPurpose(x)
  PROVE  OnPurpose(x)'
<1>1. x \in Event /\ x.event = "release"
  BY DEF Event, Releases
<1>2. x.seen \in 0..MaxEvents
  BY <1>1, EventFields
<1>3. x.seen \in Nat
  BY <1>2, HoldsAssumption
<1> QED BY <1>3, PurposeStays DEF LogInv

THEOREM HoldsInvHolds == HoldsSpec => []HoldsInv
<1>1. HoldsInit => HoldsInv
  <2> SUFFICES ASSUME HoldsInit PROVE HoldsInv
    OBVIOUS
  <2>1. log = <<>> /\ Len(log) = 0 /\ DOMAIN log = {}
    BY EmptySeq DEF HoldsInit
  <2>2. log \in Seq(Event) /\ Len(log) <= MaxEvents
    BY <2>1, HoldsAssumption
  <2>3. ASSUME NEW h \in Hold PROVE OneReplay(h, log) /\ Means(h)
    <3>1. OneReplay(h, log) /\ Now[h] = Unknown
      BY <2>1, ReplayBegins DEF Now
    <3>2. ~Placed(h) /\ ~Freed(h) /\ ~Stuck(h) /\ ~Held(h)
      BY <2>1 DEF Placed, Freed, Stuck, Held
    <3>3. Unknown \in HoldState /\ Unknown.state = "unknown"
      BY DEF Unknown, HoldState, HoldStates
    <3> QED BY <2>1, <3>1, <3>2, <3>3 DEF Means
  <2>4. LogInv
    BY <2>1, <2>2, <2>3 DEF LogInv
  <2>5. CheckInv
    BY DEF CheckInv, HoldsInit
  <2> QED BY <2>4, <2>5 DEF HoldsInv
<1>2. HoldsInv /\ [HoldsNext]_holdsVars => HoldsInv'
  <2> SUFFICES ASSUME HoldsInv, [HoldsNext]_holdsVars PROVE HoldsInv'
    OBVIOUS
  <2>0. LogInv /\ CheckInv
    BY DEF HoldsInv
  <2>1. ASSUME NEW e \in Event, e.event # "release", Append1(e),
               UNCHANGED checked
        PROVE  HoldsInv'
    <3>1. Adds(e) /\ Len(log) < MaxEvents
      BY <2>1 DEF Adds, Append1
    <3>2. LogInv'
      BY <2>0, <2>1, <3>1, LogStep
    <3>3. ASSUME NEW s \in Seat, NEW x \in checked[s] PROVE OnPurpose(x)'
      <4>1. x \in Releases /\ OnPurpose(x)
        BY <2>0 DEF CheckInv
      <4> QED BY <2>0, <3>1, <4>1, CheckStays
    <3>4. CheckInv'
      BY <2>0, <2>1, <3>3 DEF CheckInv
    <3> QED BY <3>2, <3>4 DEF HoldsInv
  <2>2. ASSUME NEW s \in Seat, RecordRelease(s)
        PROVE  HoldsInv'
    <3>1. PICK e \in checked[s] : Append1(e)
      BY <2>2 DEF RecordRelease
    <3>2. e \in Releases /\ OnPurpose(e) /\ e \in Event
      BY <2>0 DEF CheckInv, Event
    <3>3. Adds(e) /\ Len(log) < MaxEvents
      BY <3>1, <3>2 DEF Adds, Append1
    <3>4. LogInv'
      BY <2>0, <3>2, <3>3, LogStep
    <3>5. checked' = [checked EXCEPT ![s] = {}]
      BY <2>2 DEF RecordRelease
    <3>6. /\ checked' \in [Seat -> SUBSET Releases]
          /\ checked'[s] = {}
          /\ \A t \in Seat \ {s} : checked'[t] = checked[t]
      BY <2>0, <3>5 DEF CheckInv
    <3>7. ASSUME NEW t \in Seat, NEW x \in checked'[t] PROVE OnPurpose(x)'
      <4>1. t # s /\ x \in checked[t]
        BY <3>6, <3>7
      <4>2. x \in Releases /\ OnPurpose(x)
        BY <2>0, <4>1 DEF CheckInv
      <4> QED BY <2>0, <3>3, <4>2, CheckStays
    <3>8. \A t \in Seat :
            checked'[t] = {} \/ \E x \in Releases : checked'[t] = {x}
      BY <2>0, <3>6 DEF CheckInv
    <3> QED BY <3>4, <3>6, <3>7, <3>8 DEF HoldsInv, CheckInv
  <2>3. ASSUME NEW s \in Seat, NEW h \in Hold, NEW date \in Date \cup {NoDate},
               NEW series \in BOOLEAN, CheckRelease(s, h, date, series)
        PROVE  HoldsInv'
    <3> PICK N \in Nat : N = Len(log)
      BY <2>0, LenProperties DEF LogInv
    <3> PICK e : e = ReleaseEvent(h, date, series)
      OBVIOUS
    <3>1. /\ checked' = [checked EXCEPT ![s] = {e}] /\ log' = log
          /\ MayRelease(h, date, series)
      BY <2>3 DEF CheckRelease
    <3>2. /\ e \in Releases
          /\ e.seen = N /\ e.id = h /\ e.date = date /\ e.series = series
      <4>1. N \in 0..MaxEvents
        BY <2>0, HoldsAssumption DEF LogInv
      <4> QED BY <4>1 DEF ReleaseEvent, Releases
    <3>3. OnPurpose(e)
      <4>1. HoldIn(N)[h] = Now[h]
        BY <2>0, WholeLog DEF LogInv
      <4>2. N <= Len(log)
        OBVIOUS
      <4>3. date = NoDate /\ Live(Now[h]) /\ Recurring(Now[h]) => series
        BY <3>1 DEF MayRelease
      <4> QED BY <3>2, <4>1, <4>2, <4>3 DEF OnPurpose
    <3>4. LogInv'
      BY <2>0, <3>1, LogStays
    <3>5. /\ checked' \in [Seat -> SUBSET Releases]
          /\ checked'[s] = {e}
          /\ \A t \in Seat \ {s} : checked'[t] = checked[t]
      BY <2>0, <3>1, <3>2 DEF CheckInv
    <3>6. ASSUME NEW t \in Seat, NEW x \in checked'[t] PROVE OnPurpose(x)'
      <4>1. OnPurpose(x)
        BY <2>0, <3>3, <3>5, <3>6 DEF CheckInv
      <4> QED BY <3>1, <4>1 DEF OnPurpose, HoldIn
    <3>7. \A t \in Seat :
            checked'[t] = {} \/ \E x \in Releases : checked'[t] = {x}
      BY <2>0, <3>2, <3>5 DEF CheckInv
    <3> QED BY <3>4, <3>5, <3>6, <3>7 DEF HoldsInv, CheckInv
  <2>4. CASE UNCHANGED holdsVars
    <3>1. log' = log /\ checked' = checked
      BY <2>4 DEF holdsVars
    <3>2. LogInv'
      BY <2>0, <3>1, LogStays
    <3>3. CheckInv'
      BY <2>0, <3>1 DEF CheckInv, OnPurpose, HoldIn
    <3> QED BY <3>2, <3>3 DEF HoldsInv
  <2>5. ASSUME NEW h \in Hold, NEW flag \in BOOLEAN, NEW kind \in BOOLEAN
        PROVE  /\ RecordPlace(h, flag, kind) => HoldsInv'
               /\ RecordAmend(h, kind) => HoldsInv'
    <3>1. /\ PlaceEvent(h, flag, kind) \in Event
          /\ PlaceEvent(h, flag, kind).event # "release"
          /\ AmendEvent(h, kind) \in Event
          /\ AmendEvent(h, kind).event # "release"
      BY DEF PlaceEvent, AmendEvent, Event
    <3> QED BY <2>1, <3>1 DEF RecordPlace, RecordAmend
  <2> QED BY <2>2, <2>3, <2>4, <2>5 DEF HoldsNext
<1> QED BY <1>1, <1>2, PTL DEF HoldsSpec

\* The types of the holds ledger hold.
THEOREM HoldsTyped == HoldsSpec => []HoldsTypes
<1>1. HoldsInv => HoldsTypes
  BY DEF HoldsInv, LogInv, CheckInv, HoldsTypes
<1> QED BY <1>1, HoldsInvHolds, PTL

\* What the ledger says of every hold is what the events of its log mean, a
\* recurring hold is released in whole on purpose, and only a second release
\* of what was never placed makes the log unreadable.
THEOREM HoldsAreKept == HoldsSpec => []HoldsKept
<1>1. HoldsInv => HoldsKept
  <2> SUFFICES ASSUME HoldsInv PROVE HoldsKept
    OBVIOUS
  <2>1. /\ log \in Seq(Event)
        /\ \A h \in Hold : Means(h)
        /\ \A n \in DOMAIN log : log[n].event = "release" => OnPurpose(log[n])
    BY DEF HoldsInv, LogInv
  <2>2. \A h \in Hold : Now[h].state = "unreadable" <=> Stuck(h)
    BY <2>1 DEF Means
  <2>3. ReadableLog
    BY <2>2 DEF ReadableLog, Readable, Stuck
  <2>4. ASSUME Readable, NEW h \in Hold
        PROVE  /\ Live(Now[h]) <=>
                    \E n \in DOMAIN log :
                      Lasts(n, h) /\ \A m \in n..Len(log) : ~Frees(m, h, NoDate)
               /\ \A n \in DOMAIN log, date \in Date : Lasts(n, h) =>
                    (date \in Now[h].days
                       <=> \E m \in n..Len(log) : Frees(m, h, date))
    <3>1. ~Stuck(h)
      BY <2>2, <2>4 DEF Readable
    <3>2. /\ Now[h].state = "held" <=> Held(h)
          /\ \A n \in DOMAIN log, date \in Date : Lasts(n, h) =>
               (date \in Now[h].days <=> DayFreed(n, h, date))
      BY <2>1, <3>1 DEF Means
    <3> QED BY <3>2 DEF Live, Held, DayFreed
  <2>5. ReplayIsTrue
    BY <2>4 DEF ReplayIsTrue
  <2>6. SeriesOnPurpose
    BY <2>1 DEF OnPurpose, SeriesOnPurpose
  <2> QED BY <2>3, <2>5, <2>6 DEF HoldsKept
<1> QED BY <1>1, HoldsInvHolds, PTL
=============================================================================
