---------------------------- MODULE SettingsProofs ----------------------------
(***************************************************************************)
(* Theorems about Settings, for any directories, files, names and defaults *)
(* that satisfy FilesAssumption.                                           *)
(***************************************************************************)
EXTENDS Settings, FiniteSetTheorems, TLAPS

\* The invariants of the runs, which are inductive together: LoadTakes and
\* ListsAgree need the lists of the state before, AnyOn what Save copies.
IInv == TypeOK /\ AnyOn /\ ListsAgree /\ PathsSettled

\* What is loaded is found in the search path, and holds what is wanted.
LEMMA LoadAllFacts ==
  ASSUME NEW wanted \in SUBSET Wantable, NEW paths \in SUBSET Dir
  PROVE  /\ Scan(paths) \subseteq File
         /\ LoadAll(wanted, paths) \subseteq Scan(paths)
         /\ \A n \in wanted : Finds[n] \in Scan(paths) => Finds[n] \in LoadAll(wanted, paths)
BY FilesAssumption DEF Scan, LoadAll, Closure

LEMMA InitInv == ASSUME Init PROVE IInv
BY DEF Init, IInv, TypeOK, AnyOn, ListsAgree, PathsSettled, NoFile, Both, Pages, Transport,
       AutoMode

\* A refresh from a file that differs only in what was saved brings the lists
\* in line with it, whether or not the path moved.
LEMMA RefreshAgrees ==
  ASSUME IInv, running, Refresh, file'.paths \in SUBSET Dir, file'.wanted \in SUBSET Wantable
  PROVE  /\ smipath' = file'.paths /\ Total' = Scan(file'.paths)
         /\ Wanted' = file'.wanted /\ Loaded' = LoadAll(file'.wanted, file'.paths)
         /\ Unloaded' = Total' \ Loaded'
         /\ smipath' \subseteq Dir /\ Total' \subseteq File /\ Loaded' \subseteq File
         /\ Unloaded' \subseteq File /\ Wanted' \subseteq Wantable
<1>1. Total' = Scan(smipath')
  BY DEF Refresh, IInv, ListsAgree
<1>2. /\ smipath' = file'.paths /\ Wanted' = file'.wanted
      /\ Loaded' = LoadAll(Wanted', smipath') /\ Unloaded' = Total' \ Loaded'
  BY DEF Refresh
<1>3. Scan(smipath') \subseteq File /\ LoadAll(Wanted', smipath') \subseteq Scan(smipath')
  BY <1>2, LoadAllFacts
<1> QED
  BY <1>1, <1>2, <1>3

\* The same after RescanPath, from any state.
LEMMA RescanAgrees ==
  ASSUME RescanPath, file'.paths \in SUBSET Dir, file'.wanted \in SUBSET Wantable
  PROVE  /\ smipath' = file'.paths /\ Total' = Scan(file'.paths)
         /\ Wanted' = file'.wanted /\ Loaded' = LoadAll(file'.wanted, file'.paths)
         /\ Unloaded' = Total' \ Loaded'
         /\ smipath' \subseteq Dir /\ Total' \subseteq File /\ Loaded' \subseteq File
         /\ Unloaded' \subseteq File /\ Wanted' \subseteq Wantable
<1>2. /\ smipath' = file'.paths /\ Total' = Scan(smipath') /\ Wanted' = file'.wanted
      /\ Loaded' = LoadAll(Wanted', smipath') /\ Unloaded' = Total' \ Loaded'
  BY DEF RescanPath
<1>3. Scan(smipath') \subseteq File /\ LoadAll(Wanted', smipath') \subseteq Scan(smipath')
  BY <1>2, LoadAllFacts
<1> QED
  BY <1>2, <1>3

\* Saving, whatever the wanted list, keeps the invariant.  It is the whole of
\* AddModule, RemoveModule, LoadBestModule and Accept but for the guards.
LEMMA SaveKeeps ==
  ASSUME IInv, running, NEW wanted \in SUBSET Wantable, Save(wanted),
         running' = running, mem' = mem, pathList' = pathList, page' = page,
         dialog' \in BOOLEAN, Policy' \in {"all", "default", "none"}, unticked' = unticked
  PROVE  IInv'
<1>1. file' = [on |-> mem.on, auto |-> mem.auto, paths |-> pathList, wanted |-> wanted]
  BY DEF Save
<1>2. /\ file'.paths = pathList /\ file'.wanted = wanted /\ file'.on = mem.on
      /\ file' \in [on : [Transport -> BOOLEAN], auto : AutoMode,
                    paths : SUBSET Dir, wanted : SUBSET Wantable]
  BY <1>1 DEF IInv, TypeOK
<1>3. Refresh /\ file'.paths \in SUBSET Dir /\ file'.wanted \in SUBSET Wantable
  BY <1>2 DEF IInv, TypeOK, Save
<1> DEFINE Agree == /\ smipath' = file'.paths /\ Total' = Scan(file'.paths)
                    /\ Wanted' = file'.wanted /\ Loaded' = LoadAll(file'.wanted, file'.paths)
                    /\ Unloaded' = Total' \ Loaded'
<1>4. Agree /\ smipath' \subseteq Dir /\ Total' \subseteq File /\ Loaded' \subseteq File
      /\ Unloaded' \subseteq File /\ Wanted' \subseteq Wantable
  BY <1>3, RefreshAgrees
<1> HIDE DEF Agree
<1>5. TypeOK'
  BY <1>2, <1>4 DEF IInv, TypeOK
<1>6. AnyOn'
  BY <1>2 DEF IInv, AnyOn
<1>7. ListsAgree'
  BY <1>4 DEF ListsAgree, Agree
<1>8. PathsSettled'
  BY <1>2 DEF PathsSettled
<1> QED
  BY <1>5, <1>6, <1>7, <1>8 DEF IInv

\* A step that leaves the file and MibModule alone.
LEMMA QuietKeeps ==
  ASSUME IInv, TypeOK', AnyOn', PathsSettled',
         file' = file, running' \in {running, FALSE}, UNCHANGED mib
  PROVE  IInv'
<1>1. ListsAgree'
  BY DEF IInv, ListsAgree, mib
<1> QED
  BY <1>1 DEF IInv

LEMMA NextInv == ASSUME IInv, [Next]_vars PROVE IInv'
<1>1. ASSUME NEW can \in SUBSET Transport, Start(can) PROVE IInv'
  <2>1. file' = [file EXCEPT !.paths = IF @ = {} THEN DefaultPaths ELSE @,
                             !.wanted = IF @ = {} THEN DefaultWanted ELSE @]
    BY <1>1 DEF Start
  <2>2. /\ file' \in [on : [Transport -> BOOLEAN], auto : AutoMode,
                      paths : SUBSET Dir, wanted : SUBSET Wantable]
        /\ file'.paths # {} /\ file'.on = file.on
    BY <2>1, FilesAssumption DEF IInv, TypeOK
  <2>3. file'.paths \in SUBSET Dir /\ file'.wanted \in SUBSET Wantable
    BY <2>2
  <2> DEFINE Agree == /\ smipath' = file'.paths /\ Total' = Scan(file'.paths)
                      /\ Wanted' = file'.wanted /\ Loaded' = LoadAll(file'.wanted, file'.paths)
                      /\ Unloaded' = Total' \ Loaded'
  <2>4. Agree /\ smipath' \subseteq Dir /\ Total' \subseteq File /\ Loaded' \subseteq File
        /\ Unloaded' \subseteq File /\ Wanted' \subseteq Wantable
    BY <1>1, <2>3, RescanAgrees DEF Start
  <2> HIDE DEF Agree
  <2>5. /\ mem' \in [on : [Transport -> BOOLEAN], auto : AutoMode]
        /\ \E t \in Transport : mem'.on[t]
    <3>1. /\ mem' = [on |-> [t \in Transport |-> t \in Sockets(can)], auto |-> file.auto]
          /\ Sockets(can) # {}
      BY <1>1 DEF Start
    <3>2. PICK t \in Transport : t \in Sockets(can)
      BY <3>1 DEF Sockets
    <3>3. mem'.on = [u \in Transport |-> u \in Sockets(can)] /\ mem'.auto = file.auto
      BY <3>1
    <3>4. mem'.on[t]
      BY <3>2, <3>3
    <3>5. mem' \in [on : [Transport -> BOOLEAN], auto : AutoMode]
      BY <3>1 DEF IInv, TypeOK
    <3> QED
      BY <3>2, <3>4, <3>5
  <2>6. /\ running' = TRUE /\ dialog' = dialog /\ unticked' = unticked
        /\ pathList' = file'.paths /\ page' \in Pages /\ Policy' = "default"
    BY <1>1 DEF Start, Pages
  <2>7. TypeOK'
    BY <2>2, <2>3, <2>4, <2>5, <2>6 DEF IInv, TypeOK
  <2>8. AnyOn'
    BY <2>2, <2>5 DEF IInv, AnyOn
  <2>9. ListsAgree' /\ PathsSettled'
    BY <2>4, <2>6 DEF ListsAgree, PathsSettled, Agree
  <2> QED
    BY <2>7, <2>8, <2>9 DEF IInv
<1>2. ASSUME NEW can \in SUBSET Transport, StartFails(can) PROVE IInv'
  BY <1>2 DEF StartFails, IInv, TypeOK, AnyOn, ListsAgree, PathsSettled, NoFile, Both, Transport,
              AutoMode, ui, mib
<1>3. CASE Stop
  BY <1>3 DEF Stop, IInv, TypeOK, AnyOn, ListsAgree, PathsSettled, mib
<1>4. CASE OpenDialog
  <2>1. TypeOK' /\ AnyOn' /\ PathsSettled'
    BY <1>4 DEF OpenDialog, IInv, TypeOK, AnyOn, PathsSettled, mib
  <2> QED
    BY <1>4, <2>1, QuietKeeps DEF OpenDialog
<1>5. CASE Cancel
  <2>1. TypeOK' /\ AnyOn' /\ PathsSettled'
    BY <1>5 DEF Cancel, IInv, TypeOK, AnyOn, PathsSettled, mib
  <2> QED
    BY <1>5, <2>1, QuietKeeps DEF Cancel
<1>6. CASE Accept
  BY <1>6, SaveKeeps DEF Accept, IInv, TypeOK
<1>7. CASE MibPathReset
  <2>1. file' = [file EXCEPT !.paths = DefaultPaths] /\ RescanPath
    BY <1>7 DEF MibPathReset
  <2>2. /\ file' \in [on : [Transport -> BOOLEAN], auto : AutoMode,
                      paths : SUBSET Dir, wanted : SUBSET Wantable]
        /\ file'.paths # {} /\ file'.on = file.on
    BY <2>1, FilesAssumption DEF IInv, TypeOK
  <2>3. file'.paths \in SUBSET Dir /\ file'.wanted \in SUBSET Wantable
    BY <2>2
  <2> DEFINE Agree == /\ smipath' = file'.paths /\ Total' = Scan(file'.paths)
                      /\ Wanted' = file'.wanted /\ Loaded' = LoadAll(file'.wanted, file'.paths)
                      /\ Unloaded' = Total' \ Loaded'
  <2>4. Agree /\ smipath' \subseteq Dir /\ Total' \subseteq File /\ Loaded' \subseteq File
        /\ Unloaded' \subseteq File /\ Wanted' \subseteq Wantable
    BY <2>1, <2>3, RescanAgrees
  <2> HIDE DEF Agree
  <2>5. /\ dialog /\ UNCHANGED <<running, mem, pathList, page, dialog, Policy, unticked>>
    BY <1>7 DEF MibPathReset, ui
  <2>6. TypeOK' /\ AnyOn'
    BY <2>2, <2>4, <2>5 DEF IInv, TypeOK, AnyOn
  <2>7. ListsAgree' /\ PathsSettled'
    BY <2>4, <2>5 DEF ListsAgree, PathsSettled, Agree
  <2> QED
    BY <2>6, <2>7 DEF IInv
<1>8. ASSUME NEW p \in Pages, SelectedPreferences(p) PROVE IInv'
  <2>1. TypeOK' /\ AnyOn' /\ PathsSettled'
    BY <1>8 DEF SelectedPreferences, IInv, TypeOK, AnyOn, PathsSettled, mib
  <2> QED
    BY <1>8, <2>1, QuietKeeps DEF SelectedPreferences
<1>9. ASSUME NEW t \in Transport, NEW checked \in BOOLEAN, SetEnable(t, checked) PROVE IInv'
  <2>1. /\ mem' = [mem EXCEPT !.on[t] = checked] /\ unticked' \subseteq Transport
        /\ UNCHANGED <<file, running, pathList, page, dialog, mib, Policy>>
    BY <1>9 DEF SetEnable, IInv, TypeOK
  <2>2. /\ mem'.on = [mem.on EXCEPT ![t] = checked] /\ mem'.auto = mem.auto
        /\ mem' \in [on : [Transport -> BOOLEAN], auto : AutoMode]
    BY <2>1 DEF IInv, TypeOK
  <2>3. \E u \in Transport : mem'.on[u]
    BY <1>9, <2>2 DEF SetEnable, IInv, TypeOK
  <2>4. TypeOK' /\ AnyOn' /\ PathsSettled'
    BY <2>1, <2>2, <2>3 DEF IInv, TypeOK, AnyOn, PathsSettled, mib
  <2> QED
    BY <2>1, <2>4, QuietKeeps
<1>10. ASSUME NEW mode \in AutoMode, SelectAutomaticLoading(mode) PROVE IInv'
  <2>1. TypeOK' /\ AnyOn' /\ PathsSettled'
    BY <1>10 DEF SelectAutomaticLoading, IInv, TypeOK, AnyOn, PathsSettled, mib
  <2> QED
    BY <1>10, <2>1, QuietKeeps DEF SelectAutomaticLoading
<1>11. ASSUME NEW old \in SUBSET Dir, NEW new \in Dir, EditPath(old, new) PROVE IInv'
  <2>1. TypeOK' /\ AnyOn' /\ PathsSettled'
    BY <1>11 DEF EditPath, IInv, TypeOK, AnyOn, PathsSettled, mib
  <2> QED
    BY <1>11, <2>1, QuietKeeps DEF EditPath
<1>12. ASSUME NEW del \in SUBSET Dir, MibPathDelete(del) PROVE IInv'
  <2>1. del # pathList
    <3>1. IsFiniteSet(pathList)
      BY FilesAssumption, FS_Subset DEF IInv, TypeOK
    <3>2. Cardinality(pathList) \in Nat /\ Cardinality(del) < Cardinality(pathList)
      BY <1>12, <3>1, FS_CardinalityType DEF MibPathDelete
    <3> QED
      BY <3>2
  <2>2. pathList' # {} /\ pathList' \subseteq Dir
    BY <1>12, <2>1 DEF MibPathDelete, IInv, TypeOK
  <2>3. TypeOK' /\ AnyOn' /\ PathsSettled'
    BY <1>12, <2>2 DEF MibPathDelete, IInv, TypeOK, AnyOn, PathsSettled, mib
  <2> QED
    BY <1>12, <2>3, QuietKeeps DEF MibPathDelete
<1>13. ASSUME NEW sel \in SUBSET File, AddModule(sel) PROVE IInv'
  <2>1. Wanted \cup sel \in SUBSET Wantable
    BY DEF IInv, TypeOK, Wantable
  <2> QED
    BY <1>13, <2>1, SaveKeeps DEF AddModule, ui, IInv, TypeOK
<1>14. ASSUME NEW sel \in SUBSET File, RemoveModule(sel) PROVE IInv'
  <2>1. Wanted \ sel \in SUBSET Wantable
    BY DEF IInv, TypeOK
  <2> QED
    BY <1>14, <2>1, SaveKeeps DEF RemoveModule, ui, IInv, TypeOK
<1>15. ASSUME NEW f \in File, NEW answer \in Answers, LoadBestModule(f, answer) PROVE IInv'
  <2>1. /\ running /\ Policy' = answer.policy
        /\ UNCHANGED <<running, mem, pathList, page, dialog, unticked>>
    BY <1>15 DEF LoadBestModule, ui
  <2>2. Policy' \in {"all", "default", "none"}
    BY <2>1 DEF Answers, IInv, TypeOK
  <2>3. CASE answer.load
    <3>1. Save(Wanted \cup {f}) /\ Wanted \cup {f} \in SUBSET Wantable
      BY <1>15, <2>3 DEF LoadBestModule, IInv, TypeOK, Wantable
    <3> QED
      BY <2>1, <2>2, <3>1, SaveKeeps DEF IInv, TypeOK
  <2>4. CASE ~answer.load
    <3>1. UNCHANGED <<file, mib>>
      BY <1>15, <2>4 DEF LoadBestModule
    <3>2. TypeOK' /\ AnyOn' /\ PathsSettled'
      BY <2>1, <2>2, <3>1 DEF IInv, TypeOK, AnyOn, PathsSettled, mib
    <3> QED
      BY <2>1, <3>1, <3>2, QuietKeeps
  <2> QED
    BY <2>3, <2>4
<1>16. CASE SetLoadingPolicy
  <2>1. TypeOK' /\ AnyOn' /\ PathsSettled'
    BY <1>16 DEF SetLoadingPolicy, IInv, TypeOK, AnyOn, PathsSettled, mib, ui
  <2> QED
    BY <1>16, <2>1, QuietKeeps DEF SetLoadingPolicy
<1>17. CASE UNCHANGED vars
  BY <1>17 DEF vars, ui, mib, IInv, TypeOK, AnyOn, ListsAgree, PathsSettled
<1> QED
  BY <1>1, <1>2, <1>3, <1>4, <1>5, <1>6, <1>7, <1>8, <1>9, <1>10, <1>11, <1>12, <1>13, <1>14,
     <1>15, <1>16, <1>17 DEF Next

LEMMA Invariance == Spec => []IInv
<1>1. Init => IInv
  BY InitInv
<1>2. IInv /\ [Next]_vars => IInv'
  BY NextInv
<1> QED
  BY <1>1, <1>2, PTL DEF Spec

\* The types; in a running program neither the stored search path nor the
\* dialog's is ever empty.
THEOREM TypeCorrect == Spec => []TypeOK
<1>1. IInv => TypeOK
  BY DEF IInv
<1> QED
  BY <1>1, Invariance, PTL

\* Some transport is always on, in the program and in the settings file.
THEOREM TransportLeft == Spec => []AnyOn
<1>1. IInv => AnyOn
  BY DEF IInv
<1> QED
  BY <1>1, Invariance, PTL

\* The lists of the modules tab are those of the stored settings.
THEOREM ListsFollowFile == Spec => []ListsAgree
<1>1. IInv => ListsAgree
  BY DEF IInv
<1> QED
  BY <1>1, Invariance, PTL

\* Without a dialog the path list shows the stored search path.
THEOREM PathsKept == Spec => []PathsSettled
<1>1. IInv => PathsSettled
  BY DEF IInv
<1> QED
  BY <1>1, Invariance, PTL

\* A module that LoadBestModule loads is loaded and off the unloaded list,
\* however many directories and imports there are.
THEOREM LoadedOnce == Spec => LoadTakes
<1>1. ASSUME IInv, pathList = file.paths, NEW f \in File, NEW a \in Answers, a.load,
             LoadBestModule(f, a)
      PROVE  f \in Loaded' \ Unloaded'
  <2>1. /\ running /\ f \in Unloaded /\ Save(Wanted \cup {f})
    BY <1>1 DEF LoadBestModule
  <2>2. /\ file'.paths = pathList /\ file'.wanted = Wanted \cup {f} /\ Refresh
    BY <2>1 DEF Save
  <2>3. Wanted \cup {f} \in SUBSET Wantable /\ pathList \in SUBSET Dir
    BY <1>1 DEF IInv, TypeOK, Wantable
  <2>4. /\ Loaded' = LoadAll(Wanted \cup {f}, pathList) /\ Unloaded' = Total' \ Loaded'
    BY <1>1, <2>1, <2>2, <2>3, RefreshAgrees
  <2>5. f \in Scan(pathList)
    BY <1>1, <2>1 DEF IInv, ListsAgree
  <2>6. Finds[f] = f
    BY FilesAssumption
  <2> QED
    BY <2>3, <2>4, <2>5, <2>6, LoadAllFacts
<1>2. IInv /\ [Next]_vars =>
        [pathList = file.paths =>
           \A f \in File : (\E a \in Answers : a.load /\ LoadBestModule(f, a)) =>
             f \in Loaded' \ Unloaded']_vars
  BY <1>1
<1> QED
  BY <1>2, Invariance, PTL DEF Spec, LoadTakes
=============================================================================
