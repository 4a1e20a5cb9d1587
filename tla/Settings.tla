------------------------------- MODULE Settings -------------------------------
(***************************************************************************)
(* The settings file, the Preferences object and dialog, the MIB modules   *)
(* tab (MibModule) and the part of the start that depends on them: which   *)
(* transports get a socket (the constructor of Agent), and what happens    *)
(* when none does (Snmpb::BindToGUI).                                      *)
(*                                                                         *)
(* The same data lives in several places: the file, the members of         *)
(* Preferences, the dialog's path list, libsmi's search path and the lists *)
(* of MibModule.  Preferences::Save copies one way, MibModule::Refresh the *)
(* other, and both are called from slots of the dialog, from the modules   *)
(* tab and, in the middle of a walk, from MibModule::LoadBestModule.       *)
(*                                                                         *)
(* Lists of directories and of modules are sets: no two files hold the     *)
(* same module, so the order of the search path does not show.             *)
(***************************************************************************)
EXTENDS Integers, FiniteSets

CONSTANTS
  Dir,            \* directories that may be in the search path
  File,           \* MIB files
  Alias,          \* other names of files: "IF-MIB" for IF-MIB.txt
  Finds,          \* the file libsmi finds for a name
  Holds,          \* the files in each directory
  Imports,        \* the files whose modules a file imports
  DefaultPaths,   \* DEFAULT_SMIPATH
  DefaultWanted   \* default_mib_config

Wantable == File \cup Alias

ASSUME FilesAssumption ==
  /\ IsFiniteSet(Dir)
  /\ Finds \in [Wantable -> File] /\ \A f \in File : Finds[f] = f
  /\ Holds \in [Dir -> SUBSET File]
  /\ Imports \in [File -> SUBSET File]
  /\ DefaultPaths \in (SUBSET Dir) \ {{}}
  /\ DefaultWanted \in (SUBSET Wantable) \ {{}}

VARIABLES
  file,      \* the settings file; a missing key reads as in NoFile
  running,   \* the program is up and its windows are shown
  mem,       \* Preferences' enableipv4, enableipv6 and automaticloading
  pathList,  \* the ModulePaths widget
  page,      \* the page the Preferences dialog shows
  dialog,    \* Preferences::Execute is in exec()
  smipath,   \* libsmi's search path
  Total, Wanted, Loaded, Unloaded,   \* MibModule's lists
  Policy,    \* MibModule::Policy
  unticked   \* history: the transports the user has switched off herself

mib == <<smipath, Total, Wanted, Loaded, Unloaded>>
ui == <<mem, pathList, page, dialog>>
vars == <<file, running, ui, mib, Policy, unticked>>
-----------------------------------------------------------------------------
Pages == {"transport", "mibtree", "modules", "traps"}
Transport == {4, 6}
Both == [t \in Transport |-> TRUE]
AutoMode == {"enable", "prompt", "disable"}

\* What QSettings returns when nothing was ever saved.
NoFile == [on |-> Both, auto |-> "prompt", paths |-> {}, wanted |-> {}]

\* RebuildTotalList: every MIB file of a search path.
Scan(paths) == UNION {Holds[d] : d \in paths}

\* Loading a set of files also loads what these import, where it is found.
Closure(files, all) ==
  {f \in all : \A S \in SUBSET all :
     files \cap all \subseteq S /\ (\A g \in S : Imports[g] \cap all \subseteq S) => f \in S}

\* MibViewLoader::Load: a name that is not found is logged and left out.
LoadAll(wanted, paths) == Closure({Finds[n] : n \in wanted}, Scan(paths))

\* Mutant of Refresh: the scan of the old path is kept.
RefreshNoScan ==
  /\ smipath' = file'.paths
  /\ Total' = Total
  /\ Wanted' = file'.wanted
  /\ Loaded' = LoadAll(Wanted', smipath')
  /\ Unloaded' = Total' \ Loaded'

\* Refresh: ReadMibPaths, a rescan when the path changed, ReadMibPreloads,
\* InitLib and Load, then the two lists of the tab.
Refresh ==
  /\ smipath' = file'.paths
  /\ Total' = IF smipath' # smipath THEN Scan(smipath') ELSE Total
  /\ Wanted' = file'.wanted
  /\ Loaded' = LoadAll(Wanted', smipath')
  /\ Unloaded' = Total' \ Loaded'

\* RescanPath: the same, with the rescan done in any case.
RescanPath ==
  /\ smipath' = file'.paths
  /\ Total' = Scan(smipath')
  /\ Wanted' = file'.wanted
  /\ Loaded' = LoadAll(Wanted', smipath')
  /\ Unloaded' = Total' \ Loaded'

\* Save, for the wanted list the caller has just made.
Save(wanted) ==
  /\ file' = [on |-> mem.on, auto |-> mem.auto, paths |-> pathList, wanted |-> wanted]
  /\ Refresh
-----------------------------------------------------------------------------
\* The constructor of Agent: the sockets it can open, of the transports that
\* are enabled.  With both enabled and one failing it goes on with the other
\* and switches the failing one off in Preferences.
Sockets(can) == {t \in Transport : file.on[t] /\ t \in can}

\* The start succeeds: the Preferences constructor, Agent, MibModule, then
\* Preferences::Init, which fills in the paths and modules that are missing.
Start(can) ==
  /\ ~running /\ Sockets(can) # {}
  /\ running' = TRUE
  /\ mem' = [on |-> [t \in Transport |-> t \in Sockets(can)], auto |-> file.auto]
  /\ file' = [file EXCEPT !.paths = IF @ = {} THEN DefaultPaths ELSE @,
                          !.wanted = IF @ = {} THEN DefaultWanted ELSE @]
  /\ RescanPath
  /\ pathList' = file'.paths
  /\ page' = "transport" /\ Policy' = "default"
  /\ UNCHANGED <<dialog, unticked>>

\* No socket at all: BindToGUI removes the settings file and exits.
StartFails(can) ==
  /\ ~running /\ Sockets(can) = {}
  /\ file' = NoFile /\ unticked' = {}
  /\ UNCHANGED <<running, ui, mib, Policy>>

\* The program ends or is killed: only the file remains.
Stop ==
  /\ running /\ running' = FALSE
  /\ dialog' = FALSE
  /\ UNCHANGED <<file, mem, pathList, page, mib, Policy, unticked>>
-----------------------------------------------------------------------------
\* Snmpb::ManagePreferences, Preferences::Execute up to exec().
OpenDialog ==
  /\ running /\ ~dialog /\ dialog' = TRUE
  /\ UNCHANGED <<file, running, mem, pathList, page, mib, Policy, unticked>>

\* SelectedPreferences: the boxes of the page are set from the members; on
\* the modules page MibPathRefresh discards what was edited.
SelectedPreferences(p) ==
  /\ dialog /\ p # page /\ page' = p
  /\ pathList' = IF p = "modules" THEN file.paths ELSE pathList
  /\ UNCHANGED <<file, running, mem, dialog, mib, Policy, unticked>>

\* Mutant of SetEnable: without the guard.
SetEnableAny(t, checked) ==
  /\ dialog /\ page = "transport" /\ mem.on[t] # checked
  /\ mem' = [mem EXCEPT !.on[t] = checked]
  /\ unticked' = IF checked THEN unticked \ {t} ELSE unticked \cup {t}
  /\ UNCHANGED <<file, running, pathList, page, dialog, mib, Policy>>

\* SetEnableIPv4 and SetEnableIPv6, called by a click: the last transport
\* stays on.
SetEnable(t, checked) ==
  /\ dialog /\ page = "transport" /\ mem.on[t] # checked
  /\ checked \/ \E u \in Transport \ {t} : mem.on[u]
  /\ mem' = [mem EXCEPT !.on[t] = checked]
  /\ unticked' = IF checked THEN unticked \ {t} ELSE unticked \cup {t}
  /\ UNCHANGED <<file, running, pathList, page, dialog, mib, Policy>>

SelectAutomaticLoading(mode) ==
  /\ dialog /\ page = "mibtree" /\ mode # mem.auto
  /\ mem' = [mem EXCEPT !.auto = mode]
  /\ UNCHANGED <<file, running, pathList, page, dialog, mib, Policy, unticked>>

\* MibPathAdd and the user's text for the new item, or for an existing one.
EditPath(old, new) ==
  /\ dialog /\ page = "modules" /\ old \subseteq pathList /\ Cardinality(old) <= 1
  /\ pathList' = (pathList \ old) \cup {new}
  /\ UNCHANGED <<file, running, mem, page, dialog, mib, Policy, unticked>>

\* Mutant of MibPathDelete: > for >= in the protection.
MibPathDeleteAll(del) ==
  /\ dialog /\ page = "modules" /\ del \subseteq pathList
  /\ pathList' = pathList \ del
  /\ UNCHANGED <<file, running, mem, page, dialog, mib, Policy, unticked>>

\* MibPathDelete: never all of them.
MibPathDelete(del) ==
  /\ dialog /\ page = "modules"
  /\ del \subseteq pathList /\ Cardinality(del) < Cardinality(pathList)
  /\ pathList' = pathList \ del
  /\ UNCHANGED <<file, running, mem, page, dialog, mib, Policy, unticked>>

\* MibPathReset: writes the defaults at once, and leaves the widget alone.
MibPathReset ==
  /\ dialog /\ page = "modules"
  /\ file' = [file EXCEPT !.paths = DefaultPaths]
  /\ RescanPath
  /\ UNCHANGED <<running, ui, Policy, unticked>>

\* Mutant of Cancel: without MibPathRefresh.
CancelKeeps ==
  /\ dialog /\ dialog' = FALSE
  /\ UNCHANGED <<file, running, mem, pathList, page, mib, Policy, unticked>>

\* Execute after exec(): Cancel brings the path list back, and nothing else.
Cancel ==
  /\ dialog /\ dialog' = FALSE
  /\ pathList' = file.paths
  /\ UNCHANGED <<file, running, mem, page, mib, Policy, unticked>>

\* OK saves.  The message box in front of Save changes nothing.
Accept ==
  /\ dialog /\ dialog' = FALSE
  /\ Save(Wanted)
  /\ UNCHANGED <<running, mem, pathList, page, Policy, unticked>>
-----------------------------------------------------------------------------
\* The modules tab, which the modal dialog keeps from the user.
AddModule(sel) ==
  /\ running /\ ~dialog /\ sel # {} /\ sel \subseteq Unloaded
  /\ Save(Wanted \cup sel)
  /\ UNCHANGED <<running, ui, Policy, unticked>>

\* RemoveModule removes the FILE names of the selected modules.
RemoveModule(sel) ==
  /\ running /\ ~dialog /\ sel # {} /\ sel \subseteq Loaded
  /\ Save(Wanted \ sel)
  /\ UNCHANGED <<running, ui, Policy, unticked>>

\* What LoadBestModule's question leaves in Policy, and whether it goes on.
Asks == mem.auto = "prompt" /\ Policy # "all"
Answers == IF Asks
             THEN {[load |-> TRUE, policy |-> Policy], [load |-> FALSE, policy |-> Policy],
                   [load |-> TRUE, policy |-> "all"], [load |-> FALSE, policy |-> "none"]}
             ELSE {[load |-> TRUE, policy |-> Policy]}

\* Mutant of LoadBestModule: Refresh without Save in front of it.
LoadBestModuleUnsaved(f, answer) ==
  /\ running /\ mem.auto # "disable" /\ Policy # "none" /\ f \in Unloaded
  /\ answer \in Answers
  /\ Policy' = answer.policy
  /\ IF answer.load THEN file' = file /\ Refresh ELSE UNCHANGED <<file, mib>>
  /\ UNCHANGED <<running, ui, unticked>>

\* LoadBestModule: an answer holds an OID that a module in f defines.  It is
\* called for the answers of a walk, with the Preferences dialog up or not.
LoadBestModule(f, answer) ==
  /\ running /\ mem.auto # "disable" /\ Policy # "none" /\ f \in Unloaded
  /\ answer \in Answers
  /\ Policy' = answer.policy
  /\ IF answer.load THEN Save(Wanted \cup {f}) ELSE UNCHANGED <<file, mib>>
  /\ UNCHANGED <<running, ui, unticked>>

\* The end of a walk (Agent::AsyncCallback, the label cleanup).
SetLoadingPolicy ==
  /\ running /\ Policy # "default" /\ Policy' = "default"
  /\ UNCHANGED <<file, running, ui, mib, unticked>>
-----------------------------------------------------------------------------
Init ==
  /\ file = NoFile /\ running = FALSE
  /\ mem = [on |-> Both, auto |-> "prompt"]
  /\ pathList = {} /\ page = "transport" /\ dialog = FALSE
  /\ smipath = {} /\ Total = {} /\ Wanted = {} /\ Loaded = {} /\ Unloaded = {}
  /\ Policy = "default" /\ unticked = {}

Next ==
  \/ \E can \in SUBSET Transport : Start(can) \/ StartFails(can)
  \/ Stop
  \/ OpenDialog \/ Cancel \/ Accept \/ MibPathReset
  \/ \E p \in Pages : SelectedPreferences(p)
  \/ \E t \in Transport, checked \in BOOLEAN : SetEnable(t, checked)
  \/ \E mode \in AutoMode : SelectAutomaticLoading(mode)
  \/ \E old \in SUBSET Dir, new \in Dir : EditPath(old, new)
  \/ \E del \in (SUBSET Dir) \ {{}} : MibPathDelete(del)
  \/ \E sel \in SUBSET File : AddModule(sel) \/ RemoveModule(sel)
  \/ \E f \in File : \E answer \in Answers : LoadBestModule(f, answer)
  \/ SetLoadingPolicy

Spec == Init /\ [][Next]_vars
-----------------------------------------------------------------------------
\* The types, with what holds of the search path whatever its contents: it
\* is never empty in a running program.
TypeOK ==
  /\ file \in [on : [Transport -> BOOLEAN], auto : AutoMode,
               paths : SUBSET Dir, wanted : SUBSET Wantable]
  /\ running \in BOOLEAN /\ dialog \in BOOLEAN /\ page \in Pages
  /\ mem \in [on : [Transport -> BOOLEAN], auto : AutoMode]
  /\ pathList \subseteq Dir /\ smipath \subseteq Dir
  /\ Total \subseteq File /\ Loaded \subseteq File /\ Unloaded \subseteq File
  /\ Wanted \subseteq Wantable
  /\ Policy \in {"all", "default", "none"}
  /\ unticked \subseteq Transport
  /\ dialog => running
  /\ running => file.paths # {} /\ pathList # {}

\* Some transport is on, in the program and in the file, whatever mixture of
\* failed sockets, clicks, cancelled dialogs and saves led here: the guard of
\* the two slots sees what the fallback of the start left behind.
AnyOn == (\E t \in Transport : mem.on[t]) /\ (\E t \in Transport : file.on[t])

\* The lists of the tab are those of the stored settings, after every way
\* there is to change these: Total is a scan of the stored path, Wanted the
\* stored list, Loaded what it loads, Unloaded the rest.
ListsAgree ==
  running =>
    /\ smipath = file.paths /\ Total = Scan(file.paths)
    /\ Wanted = file.wanted /\ Loaded = LoadAll(file.wanted, file.paths)
    /\ Unloaded = Total \ Loaded

\* While no dialog is up the path list shows the stored path: adding or
\* removing a module, which saves the list, never moves the search path.
PathsSettled == running /\ ~dialog => pathList = file.paths

\* A module that LoadBestModule says it has loaded is loaded, so the next
\* answer with the same OID does not ask for it again.  While the dialog is up
\* with an edited path list, Save stores the edited list first, and the module
\* may no longer be found: that case is left out, and listed as a hazard.
LoadTakes ==
  [][pathList = file.paths =>
       \A f \in File : (\E a \in Answers : a.load /\ LoadBestModule(f, a)) =>
         f \in Loaded' \ Unloaded']_vars

\* "Disable IPv6, for the current run only": a transport that is off in the
\* file was switched off by the user.
RunOnly == \A t \in Transport : file.on[t] \/ t \in unticked
=============================================================================
