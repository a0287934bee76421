------------------------------ MODULE Install ------------------------------
(***************************************************************************)
(* The runtime at one stable path (install.py, install): at each session   *)
(* start the hook installs the plugin its harness loaded, if that is a     *)
(* newer release than the one the symlink `current` names; an explicit     *)
(* install takes whatever it is given.  Nothing is locked: a process reads *)
(* the version, later the hash, builds a release beside the others under a *)
(* name of its own, moves it into place and then switches the symlink.     *)
(* Plugins of one release number are one here.                             *)
(***************************************************************************)
EXTENDS Naturals

CONSTANTS
  Process,   \* installs, each of one plugin
  Release,   \* release numbers; 0 is none
  MaxStarts  \* bound on the installs begun

ASSUME InstallAssumption == Release \subseteq Nat \ {0} /\ MaxStarts \in Nat

VARIABLES
  current,   \* the release that `current` names
  built,     \* the releases that have a folder
  install,   \* install[p]: the install p: its step, its plugin, who began it
  starts     \* how many were begun

installVars == <<current, built, install, starts>>

NoInstall ==
  [at |-> "idle", plugin |-> 0, forward |-> FALSE, overtaken |-> FALSE]

InstallInit ==
  /\ current = 0 /\ built = {}
  /\ install = [p \in Process |-> NoInstall]
  /\ starts = 0

Goes(p, step, r) == install[p].at = step /\ install' = [install EXCEPT ![p] = r]
AtStep(p, step) == [install[p] EXCEPT !.at = step]
Same == UNCHANGED <<current, built, starts>>

BeginInstall(p) ==
  /\ starts < MaxStarts /\ starts' = starts + 1
  /\ \E v \in Release, hook \in BOOLEAN :
       Goes(p, "idle", [at |-> "version", plugin |-> v, forward |-> hook,
                        overtaken |-> FALSE])
  /\ UNCHANGED <<current, built>>

\* Mutant: a hook installs what differs, not what is newer.
DiffersIsNewer(p) == install[p].forward => install[p].plugin # current

\* A session-start hook leaves everything alone unless its plugin is newer.
Newer(p) == install[p].forward => current < install[p].plugin

VersionNewer(p) == Newer(p) /\ Goes(p, "version", AtStep(p, "hash")) /\ Same
Kept(p) == ~Newer(p) /\ Goes(p, "version", NoInstall) /\ Same

Wanted(p) ==
  install[p].plugin # current /\ Goes(p, "hash", AtStep(p, "build")) /\ Same
Installed(p) ==
  install[p].plugin = current /\ Goes(p, "hash", NoInstall) /\ Same

HasRelease(p) ==
  install[p].plugin \in built /\ Goes(p, "build", AtStep(p, "switch")) /\ Same
Stage(p) ==
  install[p].plugin \notin built /\ Goes(p, "build", AtStep(p, "place")) /\ Same

\* The staged folder takes its name; if another install was first, the rename
\* onto a folder that is not empty fails, and with it this install.
Place(p) ==
  /\ IF install[p].plugin \in built THEN Goes(p, "place", NoInstall)
     ELSE Goes(p, "place", AtStep(p, "switch"))
  /\ built' = built \cup {install[p].plugin}
  /\ UNCHANGED <<current, starts>>

\* The symlink is replaced: installs that have compared versions are overtaken.
Switch(p) ==
  /\ install[p].at = "switch"
  /\ current' = install[p].plugin
  /\ install' = [q \in Process |->
       IF q = p THEN NoInstall
       ELSE IF install[q].at \in {"idle", "version"} THEN install[q]
       ELSE [install[q] EXCEPT !.overtaken = TRUE]]
  /\ UNCHANGED <<built, starts>>

InstallDies(p) ==
  install[p].at # "idle" /\ Goes(p, install[p].at, NoInstall) /\ Same

InstallNext ==
  \E p \in Process :
    \/ BeginInstall(p) \/ VersionNewer(p) \/ Kept(p) \/ Wanted(p)
    \/ Installed(p) \/ HasRelease(p) \/ Stage(p) \/ Place(p) \/ Switch(p)
    \/ InstallDies(p)

InstallSpec == InstallInit /\ [][InstallNext]_installVars
-----------------------------------------------------------------------------
InstallTypes ==
  /\ current \in Release \cup {0} /\ built \subseteq Release
  /\ install \in [Process ->
       [at : {"idle", "version", "hash", "build", "place", "switch"},
        plugin : Release \cup {0}, forward : BOOLEAN, overtaken : BOOLEAN]]
  /\ starts \in 0..MaxStarts

\* Hooks always find a whole release behind `current`, whatever installs run,
\* fail or are killed (install.py:136, "a running hook sees old or new, never
\* neither").
CurrentIsBuilt == current \in built \cup {0}

\* A hook switches to an older release only if another install switched after
\* the hook had compared the versions.
BackOnlyWhenOvertaken ==
  \A p \in Process :
    Switch(p) /\ install[p].forward /\ install[p].plugin < current =>
      install[p].overtaken

\* Both, of every step: hooks find a whole release, and the one they should.
InstallKept == [][CurrentIsBuilt' /\ BackOnlyWhenOvertaken]_installVars
=============================================================================
