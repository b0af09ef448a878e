---------------------- MODULE SettingsTransactionProofs ----------------------
(***************************************************************************)
(* Proofs about SettingsTransaction, for any set of phones and any number  *)
(* of operations and faults: what the file, the memory, the controls and   *)
(* the menu owe each other at rest, and what a crash can lose.             *)
(*                                                                         *)
(* At rest says nothing in the middle of a commit or a toggle, so the      *)
(* invariant says what each step of them may rely on: which configuration  *)
(* a rollback goes back to, and that every key of the file belongs to a    *)
(* configuration that is in play.                                          *)
(***************************************************************************)
EXTENDS SettingsTransaction, TLAPS

-----------------------------------------------------------------------------
(* The settings and the file.                                              *)

\* What each key may hold.
LEMMA ValueSets ==
  /\ Values("serial") = {"", "noAdb"} \cup Phones
  /\ Values("androidSocket") = {"audiosource", "voxmicsource"}
  /\ Values("androidAppPreset") = {0, 1}
  /\ Values("denoiseBackend") = {"rnnoise", "dpdfnet"}
  /\ Values("eqEnabled") = BOOLEAN /\ Values("debugConsole") = BOOLEAN
  /\ Values("demandMode") = BOOLEAN /\ Values("alwaysHot") = BOOLEAN
BY DEF Values

\* The kinds of keys: the page, the sound and the menu.
LEMMA KeyKinds ==
  /\ UiKeys \subseteq Keys /\ DspKeys \subseteq UiKeys /\ Toggles \subseteq Keys
  /\ UiKeys \cap Toggles = {}
  /\ \A k \in Keys : k \in UiKeys \/ k \in Toggles \/ k = "androidSocket"
  /\ "androidSocket" \notin UiKeys /\ "serial" \in UiKeys /\ "androidAppPreset" \in UiKeys
  /\ \A t \in Toggles : Values(t) = BOOLEAN
BY ValueSets DEF Keys, UiKeys, DspKeys, Toggles

FileOK(f) == DOMAIN f = Keys /\ \A k \in Keys : f[k] \in Values(k) \/ f[k] = Missing

\* The built-in settings are settings.
LEMMA DefaultsTyped == IsSettings(Defaults)
<1>1. /\ Defaults["serial"] = "" /\ Defaults["androidSocket"] = "audiosource"
      /\ Defaults["androidAppPreset"] = 1 /\ Defaults["denoiseBackend"] = "dpdfnet"
      /\ Defaults["demandMode"] = TRUE /\ Defaults["eqEnabled"] = FALSE
      /\ Defaults["debugConsole"] = FALSE /\ Defaults["alwaysHot"] = FALSE
  BY DEF Defaults, Keys
<1>2. DOMAIN Defaults = Keys
  BY DEF Defaults
<1>3. \A k \in Keys : Defaults[k] \in Values(k)
  BY <1>1, ValueSets DEF Keys
<1>. QED
  BY <1>2, <1>3 DEF IsSettings

\* load() always makes settings, and takes every key the file has from the file.
LEMMA LoadTyped ==
  ASSUME NEW f, FileOK(f)
  PROVE  /\ IsSettings(Load(f))
         /\ \A k \in Keys : f[k] # Missing => Load(f)[k] = f[k]
<1>1. \A k \in Keys : Fallback(f, k) \in Values(k)
  <2>1. \A k \in Keys : Defaults[k] \in Values(k)
    BY DefaultsTyped DEF IsSettings
  <2>2. ASSUME NEW k \in {"eqEnabled", "debugConsole"} PROVE Fallback(f, k) \in Values(k)
    <3>1. Fallback(f, k) = Defaults[k] \/ Fallback(f, k) = TRUE
      BY DEF Fallback
    <3>2. k \in Keys /\ TRUE \in Values(k)
      BY ValueSets DEF Keys
    <3>. QED
      BY <2>1, <3>1, <3>2
  <2>3. Fallback(f, "denoiseBackend") \in Values("denoiseBackend")
    <3>1. \/ Fallback(f, "denoiseBackend") = Defaults["denoiseBackend"]
          \/ Fallback(f, "denoiseBackend") = "rnnoise"
      BY DEF Fallback
    <3>. QED
      BY <2>1, <3>1, ValueSets DEF Keys
  <2>4. ASSUME NEW k \in Keys \ {"eqEnabled", "debugConsole", "denoiseBackend"}
        PROVE  Fallback(f, k) \in Values(k)
    BY <2>1, <2>4 DEF Fallback
  <2>. QED
    BY <2>2, <2>3, <2>4
<1>. QED
  BY <1>1, MissingAssumption DEF MissingAssumption, FileOK, Load, IsSettings

\* save() leaves each key as it was or as it should be; without a failure, as it should be.
LEMMA SavedTyped ==
  ASSUME NEW f, FileOK(f), NEW c, IsSettings(c), NEW failed
  PROVE  /\ FileOK(Saved(f, c, failed))
         /\ \A k \in Keys : Saved(f, c, failed)[k] = f[k] \/ Saved(f, c, failed)[k] = c[k]
         /\ failed = {} => \A k \in Keys : Saved(f, c, failed)[k] = c[k]
BY DEF FileOK, IsSettings, Saved

\* A configuration that has all been written is the one load() makes.
LEMMA WrittenLoads ==
  ASSUME NEW f, FileOK(f), NEW k \in Keys, NEW v \in Values(k), f[k] = v
  PROVE  Load(f)[k] = v
BY LoadTyped, MissingAssumption DEF MissingAssumption

\* The controls filled from settings hold settings.
LEMMA UiTyped ==
  ASSUME NEW c, IsSettings(c), NEW list
  PROVE  /\ DOMAIN UiOf(c, list) = UiKeys
         /\ \A k \in UiKeys : UiOf(c, list)[k] \in Values(k)
         /\ \A k \in UiKeys : \/ UiOf(c, list)[k] = c[k]
                              \/ k = "serial" /\ c[k] \notin list /\ UiOf(c, list)[k] = ""
<1>1. \A k \in UiKeys : c[k] \in Values(k) /\ "" \in Values("serial")
  BY KeyKinds, ValueSets DEF IsSettings
<1>. QED
  BY <1>1 DEF UiOf

\* What a commit takes from the window is settings, with the menu's left as they were.
LEMMA FromUiTyped ==
  ASSUME TypeOK
  PROVE  /\ IsSettings(FromUi(config))
         /\ \A k \in UiKeys : FromUi(config)[k] = ui[k]
         /\ \A t \in Toggles : FromUi(config)[t] = config[t]
<1>1. \A k \in UiKeys : FromUi(config)[k] = ui[k]
  BY KeyKinds DEF FromUi
<1>2. \A t \in Toggles : FromUi(config)[t] = config[t]
  BY KeyKinds DEF FromUi, Keys, Toggles, UiKeys
<1>3. FromUi(config)["androidSocket"] \in Values("androidSocket")
  <2>1. FromUi(config)["androidSocket"] = IF ui["androidAppPreset"] = 1 THEN "voxmicsource"
                                                                        ELSE "audiosource"
    BY DEF FromUi, Keys, UiKeys
  <2>2. \/ FromUi(config)["androidSocket"] = "voxmicsource"
        \/ FromUi(config)["androidSocket"] = "audiosource"
    BY <2>1
  <2>. QED
    BY <2>2, ValueSets
<1>4. DOMAIN FromUi(config) = Keys
  BY DEF FromUi
<1>. QED
  BY <1>1, <1>2, <1>3, <1>4, KeyKinds DEF TypeOK, IsSettings

\* A preview changes what is heard, never what the menu has set.
LEMMA SyncDspKeys ==
  ASSUME NEW c
  PROVE  /\ DOMAIN SyncDsp(c) = DspKeys \cup Toggles
         /\ \A k \in DspKeys : SyncDsp(c)[k] = c[k]
         /\ \A t \in Toggles : SyncDsp(c)[t] = atoms[t]
BY KeyKinds DEF SyncDsp

-----------------------------------------------------------------------------
(* Types, in the groups the actions change.                                *)

MemoryTypes ==
  /\ IsSettings(config)
  /\ DOMAIN atoms = DspKeys \cup Toggles /\ \A t \in Toggles : atoms[t] \in BOOLEAN
  /\ DOMAIN tray = {"added", "onTime", "checks"} /\ DOMAIN tray.checks = Toggles

WindowTypes ==
  /\ IsSettings(editBase)
  /\ DOMAIN ui = UiKeys /\ \A k \in UiKeys : ui[k] \in Values(k)
  /\ DOMAIN startup = {"checked", "readable"}
  /\ startup.checked \in BOOLEAN /\ startup.readable \in BOOLEAN
  /\ shown \in BOOLEAN /\ dirty \in BOOLEAN

CallTypes ==
  /\ DOMAIN commit = {"at", "hide", "previous", "committed"}
  /\ commit.at \in {"none", "save", "registry", "box", "rollback"}
  /\ IsSettings(commit.previous) /\ IsSettings(commit.committed)
  /\ DOMAIN toggle = {"at", "previous"} /\ toggle.at \in {"none", "save", "rollback"}
  /\ IsSettings(toggle.previous)
  /\ partial \in BOOLEAN /\ overtaken \subseteq Toggles

\* The groups make up the type invariant.
LEMMA TypeParts == TypeOK <=> FileOK(file) /\ MemoryTypes /\ WindowTypes /\ CallTypes
BY DEF TypeOK, FileOK, MemoryTypes, WindowTypes, CallTypes

\* The box of the registry's state.
LEMMA StartupTyped ==
  ASSUME NEW readable \in BOOLEAN
  PROVE  /\ DOMAIN StartupBox(readable) = {"checked", "readable"}
         /\ StartupBox(readable).checked \in BOOLEAN
         /\ StartupBox(readable).readable \in BOOLEAN
         /\ StartupBox(readable).readable =>
              StartupBox(readable).checked = (registry # "none")
BY DEF StartupBox

\* No call is in progress.
LEMMA RestTyped ==
  /\ NoCommit.at = "none" /\ DOMAIN NoCommit = {"at", "hide", "previous", "committed"}
  /\ IsSettings(NoCommit.previous) /\ IsSettings(NoCommit.committed)
  /\ NoToggle.at = "none" /\ DOMAIN NoToggle = {"at", "previous"}
  /\ IsSettings(NoToggle.previous)
BY DefaultsTyped DEF NoCommit, NoToggle

\* The steps of the window keep the types.
LEMMA WindowTyped == TypeOK /\ WindowSteps => TypeOK'
<1>. SUFFICES ASSUME FileOK(file), MemoryTypes, WindowTypes, CallTypes, WindowSteps, TypeOK
              PROVE  FileOK(file)' /\ MemoryTypes' /\ WindowTypes' /\ CallTypes'
  BY TypeParts DEF TypeOK, FileOK, MemoryTypes, WindowTypes, CallTypes
<1>. USE DEF stored, running, window, calls, history
<1>1. ASSUME NEW ok \in BOOLEAN, Show(ok)
      PROVE  FileOK(file)' /\ MemoryTypes' /\ WindowTypes' /\ CallTypes'
  <2>1. WindowTypes'
    <3>1. shown' \in BOOLEAN /\ dirty' \in BOOLEAN
      BY <1>1 DEF Show, BeginEdit
    <3>2. /\ DOMAIN startup' = {"checked", "readable"}
          /\ startup'.checked \in BOOLEAN /\ startup'.readable \in BOOLEAN
      BY <1>1, StartupTyped DEF Show
    <3>3. DOMAIN ui' = UiKeys /\ \A k \in UiKeys : ui'[k] \in Values(k)
      BY <1>1, UiTyped DEF Show, BeginEdit, MemoryTypes
    <3>4. IsSettings(editBase)'
      BY <1>1 DEF Show, BeginEdit, MemoryTypes, IsSettings
    <3>. QED
      BY <3>1, <3>2, <3>3, <3>4 DEF WindowTypes
  <2>. QED
    BY <1>1, <2>1 DEF Show, FileOK, MemoryTypes, CallTypes
<1>2. ASSUME NEW ok \in BOOLEAN, Refresh(ok)
      PROVE  FileOK(file)' /\ MemoryTypes' /\ WindowTypes' /\ CallTypes'
  <2>1. DOMAIN ui' = UiKeys /\ \A k \in UiKeys \ {"serial"} : ui'[k] = ui[k]
    BY <1>2 DEF Refresh, WindowTypes
  <2>2. ui'["serial"] \in Values("serial")
    BY <1>2, KeyKinds, ValueSets DEF Refresh, WindowTypes, MemoryTypes, IsSettings
  <2>3. WindowTypes'
    BY <1>2, <2>1, <2>2 DEF Refresh, WindowTypes, IsSettings
  <2>. QED
    BY <1>2, <2>3 DEF Refresh, FileOK, MemoryTypes, CallTypes
<1>3. ASSUME NEW ok \in BOOLEAN, Cancel(ok)
      PROVE  FileOK(file)' /\ MemoryTypes' /\ WindowTypes' /\ CallTypes'
  <2>1. WindowTypes'
    <3>1. shown' \in BOOLEAN /\ dirty' \in BOOLEAN
      BY <1>3 DEF Cancel
    <3>. QED
      BY <1>3, <3>1, UiTyped, StartupTyped DEF Cancel, WindowTypes, IsSettings
  <2>2. MemoryTypes'
    BY <1>3, SyncDspKeys DEF Cancel, EndPreview, MemoryTypes
  <2>. QED
    BY <1>3, <2>1, <2>2 DEF Cancel, FileOK, CallTypes
<1>4. ASSUME NEW hide \in BOOLEAN, Commit(hide)
      PROVE  FileOK(file)' /\ MemoryTypes' /\ WindowTypes' /\ CallTypes'
  <2>1. CallTypes'
    BY <1>4, FromUiTyped DEF Commit, CallTypes, MemoryTypes
  <2>. QED
    BY <1>4, <2>1 DEF Commit, FileOK, MemoryTypes, WindowTypes
<1>5. ASSUME NEW k \in UiKeys, NEW v \in Values(k), Edit(k, v)
      PROVE  FileOK(file)' /\ MemoryTypes' /\ WindowTypes' /\ CallTypes'
  <2>1. WindowTypes'
    <3>1. dirty' \in BOOLEAN
      BY <1>5 DEF Edit
    <3>. QED
      BY <1>5, <3>1 DEF Edit, WindowTypes
  <2>2. MemoryTypes'
    BY <1>5, SyncDspKeys DEF Edit, MemoryTypes
  <2>. QED
    BY <1>5, <2>1, <2>2 DEF Edit, FileOK, CallTypes
<1>6. CASE EditStartup
  <2>1. WindowTypes'
    <3>1. dirty' \in BOOLEAN
      BY <1>6 DEF EditStartup
    <3>2. startup'.checked \in BOOLEAN /\ startup'.readable \in BOOLEAN
      BY <1>6 DEF EditStartup, WindowTypes
    <3>. QED
      BY <1>6, <3>1, <3>2 DEF EditStartup, WindowTypes
  <2>. QED
    BY <1>6, <2>1 DEF EditStartup, FileOK, MemoryTypes, CallTypes
<1>7. CASE ResetToDefaults
  <2>1. WindowTypes'
    <3>1. dirty' \in BOOLEAN
      BY <1>7 DEF ResetToDefaults
    <3>2. /\ DOMAIN startup' = {"checked", "readable"}
          /\ startup'.checked \in BOOLEAN /\ startup'.readable \in BOOLEAN
      BY <1>7 DEF ResetToDefaults, DefaultBox
    <3>. QED
      BY <1>7, <3>1, <3>2, UiTyped, DefaultsTyped DEF ResetToDefaults, WindowTypes
  <2>2. MemoryTypes'
    BY <1>7, SyncDspKeys DEF ResetToDefaults, MemoryTypes
  <2>. QED
    BY <1>7, <2>1, <2>2 DEF ResetToDefaults, FileOK, CallTypes
<1>. QED
  BY <1>1, <1>2, <1>3, <1>4, <1>5, <1>6, <1>7 DEF WindowSteps

\* The steps of a commit keep the types.
LEMMA CommitTyped == TypeOK /\ CommitSteps => TypeOK'
<1>. SUFFICES ASSUME FileOK(file), MemoryTypes, WindowTypes, CallTypes, CommitSteps, TypeOK
              PROVE  FileOK(file)' /\ MemoryTypes' /\ WindowTypes' /\ CallTypes'
  BY TypeParts DEF TypeOK, FileOK, MemoryTypes, WindowTypes, CallTypes
<1>. USE DEF stored, running, window, calls, history
<1>1. ASSUME NEW failed \in Failures, CommitSaves(failed)
      PROVE  FileOK(file)' /\ MemoryTypes' /\ WindowTypes' /\ CallTypes'
  <2>1. FileOK(file)'
    BY <1>1, SavedTyped DEF CommitSaves, CallTypes, FileOK
  <2>2. CallTypes'
    BY <1>1 DEF CommitSaves, CallTypes, IsSettings
  <2>. QED
    BY <1>1, <2>1, <2>2 DEF CommitSaves, MemoryTypes, WindowTypes
<1>2. ASSUME NEW failed \in Failures, RollBack(failed)
      PROVE  FileOK(file)' /\ MemoryTypes' /\ WindowTypes' /\ CallTypes'
  <2>1. FileOK(file)'
    BY <1>2, SavedTyped DEF RollBack, CallTypes, FileOK
  <2>2. CallTypes'
    <3>1. partial' \in BOOLEAN
      BY <1>2 DEF RollBack
    <3>. QED
      BY <1>2, <3>1, RestTyped DEF RollBack, CallTypes, IsSettings
  <2>3. MemoryTypes'
    BY <1>2, SyncDspKeys DEF RollBack, EndPreview, MemoryTypes
  <2>. QED
    BY <1>2, <2>1, <2>2, <2>3 DEF RollBack, WindowTypes
<1>3. CASE CommitSucceeds
  <2>1. MemoryTypes'
    <3>1. IsSettings(config)'
      BY <1>3 DEF CommitSucceeds, CallTypes, IsSettings
    <3>2. DOMAIN atoms' = DspKeys \cup Toggles /\ \A t \in Toggles : atoms'[t] \in BOOLEAN
      BY <1>3, SyncDspKeys DEF CommitSucceeds, MemoryTypes
    <3>. QED
      BY <1>3, <3>1, <3>2 DEF CommitSucceeds, MemoryTypes
  <2>2. WindowTypes'
    <3>1. dirty' \in BOOLEAN /\ shown' \in BOOLEAN
      BY <1>3 DEF CommitSucceeds
    <3>2. IsSettings(editBase)'
      BY <1>3 DEF CommitSucceeds, CallTypes, IsSettings
    <3>. QED
      BY <1>3, <3>1, <3>2 DEF CommitSucceeds, WindowTypes
  <2>3. CallTypes'
    BY <1>3, RestTyped DEF CommitSucceeds, CallTypes, IsSettings
  <2>. QED
    BY <1>3, <2>1, <2>2, <2>3 DEF CommitSucceeds, FileOK
<1>4. CASE RegistryFails
  BY <1>4 DEF RegistryFails, FileOK, MemoryTypes, WindowTypes, CallTypes, IsSettings
<1>5. ASSUME NEW readable \in BOOLEAN, BoxCloses(readable)
      PROVE  FileOK(file)' /\ MemoryTypes' /\ WindowTypes' /\ CallTypes'
  <2>1. WindowTypes'
    BY <1>5, StartupTyped DEF BoxCloses, WindowTypes, IsSettings
  <2>2. CallTypes'
    BY <1>5 DEF BoxCloses, CallTypes, IsSettings
  <2>. QED
    BY <1>5, <2>1, <2>2 DEF BoxCloses, FileOK, MemoryTypes
<1>. QED
  BY <1>1, <1>2, <1>3, <1>4, <1>5 DEF CommitSteps

\* The steps of the tray menu keep the types.
LEMMA TrayTyped == TypeOK /\ TraySteps => TypeOK'
<1>. SUFFICES ASSUME FileOK(file), MemoryTypes, WindowTypes, CallTypes, TraySteps, TypeOK
              PROVE  FileOK(file)' /\ MemoryTypes' /\ WindowTypes' /\ CallTypes'
  BY TypeParts DEF TypeOK, FileOK, MemoryTypes, WindowTypes, CallTypes
<1>. USE DEF stored, running, window, calls, history
<1>1. ASSUME NEW t \in Toggles, Toggle(t)
      PROVE  FileOK(file)' /\ MemoryTypes' /\ WindowTypes' /\ CallTypes'
  <2>1. MemoryTypes'
    <3>1. IsSettings(config)'
      <4>1. PICK set \in BOOLEAN : config' = [config EXCEPT ![t] = set]
        BY <1>1 DEF Toggle
      <4>2. Values(t) = BOOLEAN
        BY KeyKinds
      <4>. QED
        BY <4>1, <4>2 DEF MemoryTypes, IsSettings
    <3>2. DOMAIN atoms' = DspKeys \cup Toggles /\ \A u \in Toggles : atoms'[u] \in BOOLEAN
      BY <1>1 DEF Toggle, MemoryTypes
    <3>3. DOMAIN tray' = {"added", "onTime", "checks"} /\ DOMAIN tray'.checks = Toggles
      BY <1>1 DEF Toggle, MemoryTypes
    <3>. QED
      BY <3>1, <3>2, <3>3 DEF MemoryTypes
  <2>2. CallTypes'
    BY <1>1 DEF Toggle, CallTypes, MemoryTypes, IsSettings
  <2>. QED
    BY <1>1, <2>1, <2>2 DEF Toggle, FileOK, WindowTypes
<1>2. ASSUME NEW failed \in Failures, ToggleSaves(failed)
      PROVE  FileOK(file)' /\ MemoryTypes' /\ WindowTypes' /\ CallTypes'
  <2>1. FileOK(file)'
    BY <1>2, SavedTyped DEF ToggleSaves, MemoryTypes, FileOK
  <2>2. CallTypes'
    BY <1>2, RestTyped DEF ToggleSaves, CallTypes, IsSettings
  <2>. QED
    BY <1>2, <2>1, <2>2 DEF ToggleSaves, MemoryTypes, WindowTypes
<1>3. ASSUME NEW failed \in Failures, ToggleRollsBack(failed)
      PROVE  FileOK(file)' /\ MemoryTypes' /\ WindowTypes' /\ CallTypes'
  <2>1. FileOK(file)'
    BY <1>3, SavedTyped DEF ToggleRollsBack, CallTypes, FileOK
  <2>2. MemoryTypes'
    <3>1. IsSettings(config)'
      BY <1>3 DEF ToggleRollsBack, CallTypes, IsSettings
    <3>2. DOMAIN atoms' = DspKeys \cup Toggles /\ \A u \in Toggles : atoms'[u] \in BOOLEAN
      BY <1>3, KeyKinds DEF ToggleRollsBack, MemoryTypes, CallTypes, IsSettings
    <3>3. DOMAIN tray' = {"added", "onTime", "checks"} /\ DOMAIN tray'.checks = Toggles
      BY <1>3 DEF ToggleRollsBack, MemoryTypes
    <3>. QED
      BY <3>1, <3>2, <3>3 DEF MemoryTypes
  <2>3. CallTypes'
    <3>1. partial' \in BOOLEAN
      BY <1>3 DEF ToggleRollsBack
    <3>. QED
      BY <1>3, <3>1, RestTyped DEF ToggleRollsBack, CallTypes, IsSettings
  <2>. QED
    BY <1>3, <2>1, <2>2, <2>3 DEF ToggleRollsBack, WindowTypes
<1>4. ASSUME NEW added \in BOOLEAN, TaskbarCreated(added)
      PROVE  FileOK(file)' /\ MemoryTypes' /\ WindowTypes' /\ CallTypes'
  <2>1. MemoryTypes'
    BY <1>4 DEF TaskbarCreated, MemoryTypes, IsSettings
  <2>. QED
    BY <1>4, <2>1 DEF TaskbarCreated, FileOK, WindowTypes, CallTypes
<1>. QED
  BY <1>1, <1>2, <1>3, <1>4 DEF TraySteps

\* A save() that ends early leaves each key as it was or as it should be.
LEMMA CutTyped ==
  ASSUME NEW f, FileOK(f), NEW c, IsSettings(c), NEW n
  PROVE  /\ FileOK(Cut(f, c, n))
         /\ \A k \in Keys : Cut(f, c, n)[k] = f[k] \/ Cut(f, c, n)[k] = c[k]
BY SavedTyped DEF Cut

\* What is being written is settings.
LEMMA WritingTyped ==
  ASSUME TypeOK, Writing # <<>>
  PROVE  IsSettings(Writing[1])
<1>1. \/ Writing = <<config>> \/ Writing = <<toggle.previous>>
      \/ Writing = <<commit.committed>> \/ Writing = <<commit.previous>>
  BY DEF Writing
<1>. QED
  BY <1>1 DEF TypeOK

\* A start leaves settings in memory and on the page.
LEMMA StartedTyped ==
  ASSUME NEW f, FileOK(f), NEW added \in BOOLEAN, NEW answered, NEW readable \in BOOLEAN,
         Started(f, added, answered, readable)
  PROVE  MemoryTypes' /\ WindowTypes' /\ CallTypes'
<1>1. IsSettings(Load(f))
  BY LoadTyped
<1>2. config' = Load(f) /\ editBase' = Load(f)
  BY DEF Started
<1>3. MemoryTypes'
  <2>1. /\ DOMAIN atoms' = DspKeys \cup Toggles
        /\ \A t \in Toggles : atoms'[t] = Load(f)[t]
    BY DEF Started
  <2>2. DOMAIN tray' = {"added", "onTime", "checks"} /\ DOMAIN tray'.checks = Toggles
    BY DEF Started
  <2>. QED
    BY <1>1, <1>2, <2>1, <2>2, KeyKinds DEF MemoryTypes, IsSettings
<1>4. WindowTypes'
  <2>1. DOMAIN ui' = UiKeys /\ \A k \in UiKeys : ui'[k] \in Values(k)
    BY <1>1, UiTyped DEF Started
  <2>2. /\ DOMAIN startup' = {"checked", "readable"}
        /\ startup'.checked \in BOOLEAN /\ startup'.readable \in BOOLEAN
    BY StartupTyped DEF Started
  <2>3. shown' \in BOOLEAN /\ dirty' \in BOOLEAN
    BY DEF Started
  <2>. QED
    BY <1>1, <1>2, <2>1, <2>2, <2>3 DEF WindowTypes, IsSettings
<1>5. CallTypes'
  <2>1. commit' = NoCommit /\ toggle' = NoToggle /\ partial' = FALSE /\ overtaken' = {}
    BY DEF Started
  <2>2. partial' \in BOOLEAN
    BY <2>1
  <2>. QED
    BY <2>1, <2>2, RestTyped DEF CallTypes, IsSettings
<1>. QED
  BY <1>3, <1>4, <1>5

\* What a restart leaves of the file: each key is from the file or from what was written.
LEMMA RestartFile ==
  ASSUME TypeOK, NEW added \in BOOLEAN, NEW answered \in BOOLEAN, NEW readable \in BOOLEAN,
         Restart(added, answered, readable)
  PROVE  /\ FileOK(file')
         /\ Writing = <<>> => file' = file
         /\ Writing # <<>> =>
              \A k \in Keys : file'[k] = file[k] \/ file'[k] = Writing[1][k]
<1>1. CASE Writing = <<>>
  BY <1>1 DEF Restart, TypeOK, FileOK
<1>2. CASE Writing # <<>>
  <2>1. PICK n \in 0..Len(SaveOrder) : file' = Cut(file, Writing[1], n)
    BY <1>2 DEF Restart
  <2>. QED
    BY <1>2, <2>1, WritingTyped, CutTyped, TypeParts
<1>. QED
  BY <1>1, <1>2

\* Every step keeps the types.
LEMMA StepTyped == TypeOK /\ [Next]_vars => TypeOK'
<1>. SUFFICES ASSUME TypeOK, [Next]_vars PROVE TypeOK'
  OBVIOUS
<1>1. CASE Restarts
  <2>1. PICK added \in BOOLEAN, answered \in BOOLEAN, readable \in BOOLEAN :
          Restart(added, answered, readable)
    BY <1>1 DEF Restarts
  <2>2. FileOK(file')
    BY <2>1, RestartFile
  <2>3. Started(file', added, answered, readable)
    BY <2>1 DEF Restart
  <2>4. MemoryTypes' /\ WindowTypes' /\ CallTypes'
    BY <2>2, <2>3, StartedTyped
  <2>. QED
    BY <2>2, <2>4 DEF TypeOK, FileOK, MemoryTypes, WindowTypes, CallTypes
<1>2. ASSUME NEW devices \in SUBSET Phones, DevicesChange(devices) PROVE TypeOK'
  BY <1>2 DEF DevicesChange, TypeOK, IsSettings, stored, running, window, calls, history
<1>3. CASE UNCHANGED vars
  BY <1>3 DEF vars, TypeOK, IsSettings, stored, running, window, calls, history
<1>. QED
  BY <1>1, <1>2, <1>3, WindowTyped, CommitTyped, TrayTyped DEF Next

-----------------------------------------------------------------------------
(* The invariant.                                                          *)

\* Where a key of the file may come from.
FromPlay(k) ==
  \/ file[k] = config[k]
  \/ commit.at # "none" /\ (file[k] = commit.previous[k] \/ file[k] = commit.committed[k])
  \/ toggle.at # "none" /\ file[k] = toggle.previous[k]

\* A toggle runs alone or in the box of a commit; what they go back to differs
\* from the configuration at most in what has been toggled since.
CallsInv ==
  /\ toggle.at # "none" =>
       /\ commit.at \in {"none", "box"}
       /\ \A k \in Keys \ Toggles : toggle.previous[k] = config[k]
       /\ commit.at = "box" => \A k \in Keys \ overtaken : toggle.previous[k] = config[k]
  /\ commit.at # "none" => \A k \in Keys \ overtaken : commit.previous[k] = config[k]
  /\ commit.at \in {"save", "registry"} =>
       /\ \A t \in Toggles : commit.committed[t] = config[t]
       /\ \A k \in UiKeys : commit.committed[k] = ui[k]

\* A file that no save has left half written holds what is in play.
FileInv ==
  /\ SavedIsConfig
  /\ commit.at = "registry" => \A k \in Keys : file[k] = commit.committed[k]
  /\ commit.at = "box" => \A k \in Keys : file[k] # Missing
  /\ ~partial => \A k \in Keys \ overtaken : file[k] # Missing => FromPlay(k)

\* The snapshot of the edit is good enough to end a preview with.
HeardInv ==
  /\ \A k \in DspKeys : editBase[k] = config[k]
  /\ ~shown \/ ~dirty => \A k \in DspKeys : atoms[k] = config[k]

MenuInv ==
  /\ \A t \in Toggles : atoms[t] = config[t]
  /\ tray.onTime => \A t \in Toggles : tray.checks[t] = config[t]

PageInv ==
  shown /\ ~dirty =>
    /\ \A k \in UiKeys \ {"serial"} : ui[k] = config[k]
    /\ ui["serial"] = config["serial"] \/ (Unlisted /\ ui["serial"] = "")
    /\ startup.readable => startup.checked = (registry # "none")

Inv == TypeOK /\ CallsInv /\ FileInv /\ HeardInv /\ MenuInv /\ PageInv

\* A step of the window leaves the file, the memory of the program and the menu alone,
\* and at most begins a commit.
LEMMA WindowFrame ==
  ASSUME TypeOK, WindowSteps
  PROVE  /\ AtRest
         /\ UNCHANGED <<file, registry, config, tray, toggle, partial, overtaken>>
         /\ \/ commit' = commit
            \/ /\ commit'.at = "save" /\ commit'.previous = config /\ ui' = ui
               /\ commit'.committed = FromUi(config)
         /\ \A t \in Toggles : atoms'[t] = atoms[t]
<1>. USE DEF stored, running, window, calls, history
<1>1. ASSUME NEW ok \in BOOLEAN, Show(ok) \/ Refresh(ok)
      PROVE  AtRest /\ UNCHANGED <<stored, running, calls, history>>
  BY <1>1 DEF Show, Refresh
<1>2. ASSUME NEW ok \in BOOLEAN, Cancel(ok)
      PROVE  AtRest /\ UNCHANGED <<stored, config, tray, calls, history>> /\ EndPreview
  BY <1>2 DEF Cancel
<1>3. ASSUME NEW hide \in BOOLEAN, Commit(hide)
      PROVE  /\ AtRest /\ UNCHANGED <<stored, running, toggle, history, ui>>
             /\ commit'.at = "save" /\ commit'.previous = config
             /\ commit'.committed = FromUi(config)
  BY <1>3 DEF Commit
<1>4. ASSUME NEW k \in UiKeys, NEW v \in Values(k), Edit(k, v)
      PROVE  /\ AtRest /\ UNCHANGED <<stored, config, tray, calls, history>>
             /\ atoms' = SyncDsp(ui') \/ atoms' = atoms
  BY <1>4 DEF Edit
<1>5. CASE EditStartup
  BY <1>5 DEF EditStartup
<1>6. ASSUME ResetToDefaults
      PROVE  /\ AtRest /\ UNCHANGED <<stored, config, tray, calls, history>>
             /\ atoms' = SyncDsp(ui')
  BY <1>6 DEF ResetToDefaults
<1>. QED
  BY <1>1, <1>2, <1>3, <1>4, <1>5, <1>6, SyncDspKeys DEF WindowSteps, EndPreview

\* A toggle sets one flag, to the same in the configuration, the atomics and the menu.
LEMMA ToggleSets ==
  ASSUME TypeOK, NEW t \in Toggles, Toggle(t)
  PROVE  \E set \in BOOLEAN :
           /\ \A k \in Keys : config'[k] = IF k = t THEN set ELSE config[k]
           /\ \A k \in DspKeys \cup Toggles : atoms'[k] = IF k = t THEN set ELSE atoms[k]
           /\ \A u \in Toggles : tray'.checks[u] = IF u = t THEN set ELSE tray.checks[u]
           /\ tray'.onTime = tray.onTime
<1>1. PICK set \in BOOLEAN :
        /\ config' = [config EXCEPT ![t] = set] /\ atoms' = [atoms EXCEPT ![t] = set]
        /\ tray' = [tray EXCEPT !.checks = [@ EXCEPT ![t] = set]]
  BY DEF Toggle
<1>2. \A k \in Keys : config'[k] = IF k = t THEN set ELSE config[k]
  BY <1>1 DEF TypeOK, IsSettings
<1>3. \A k \in DspKeys \cup Toggles : atoms'[k] = IF k = t THEN set ELSE atoms[k]
  BY <1>1 DEF TypeOK
<1>4. /\ \A u \in Toggles : tray'.checks[u] = IF u = t THEN set ELSE tray.checks[u]
      /\ tray'.onTime = tray.onTime
  BY <1>1 DEF TypeOK
<1>. QED
  BY <1>2, <1>3, <1>4

\* The steps in progress stay in step with each other.
LEMMA CallsKept == Inv /\ [Next]_vars => CallsInv'
<1>. SUFFICES ASSUME Inv, TypeOK, CallsInv, [Next]_vars PROVE CallsInv'
  BY DEF Inv
<1>. USE DEF stored, running, window, calls, history
<1>1. CASE WindowSteps
  <2>1. CASE commit' = commit
    BY <1>1, <2>1, WindowFrame DEF CallsInv, AtRest
  <2>2. CASE /\ commit'.at = "save" /\ commit'.previous = config /\ ui' = ui
             /\ commit'.committed = FromUi(config)
    BY <1>1, <2>2, WindowFrame, FromUiTyped DEF CallsInv, AtRest
  <2>. QED
    BY <1>1, <2>1, <2>2, WindowFrame
<1>2. ASSUME NEW failed \in Failures, CommitSaves(failed) PROVE CallsInv'
  <2>1. /\ toggle.at = "none" /\ commit'.previous = commit.previous
        /\ commit'.committed = commit.committed
    BY <1>2 DEF CommitSaves, TypeOK, CallsInv
  <2>. QED
    BY <1>2, <2>1 DEF CommitSaves, CallsInv
<1>3. ASSUME NEW failed \in Failures, RollBack(failed) PROVE CallsInv'
  <2>1. toggle.at = "none" /\ commit'.at = "none"
    BY <1>3, RestTyped DEF RollBack, CallsInv
  <2>. QED
    BY <1>3, <2>1 DEF RollBack, CallsInv
<1>4. CASE CommitSucceeds
  <2>1. toggle.at = "none" /\ commit'.at = "none"
    BY <1>4, RestTyped DEF CommitSucceeds, CallsInv
  <2>. QED
    BY <1>4, <2>1 DEF CommitSucceeds, CallsInv
<1>5. CASE RegistryFails
  <2>1. /\ toggle.at = "none" /\ commit'.at = "box" /\ commit'.previous = commit.previous
    BY <1>5 DEF RegistryFails, TypeOK, CallsInv
  <2>. QED
    BY <1>5, <2>1 DEF RegistryFails, CallsInv
<1>6. ASSUME NEW readable \in BOOLEAN, BoxCloses(readable) PROVE CallsInv'
  <2>1. /\ toggle.at = "none" /\ commit'.at = "rollback"
        /\ commit'.previous = commit.previous
    BY <1>6 DEF BoxCloses, TypeOK, CallsInv
  <2>. QED
    BY <1>6, <2>1 DEF BoxCloses, CallsInv
<1>7. ASSUME NEW t \in Toggles, Toggle(t) PROVE CallsInv'
  <2>1. /\ toggle.at = "none" /\ commit.at \in {"none", "box"} /\ commit' = commit
        /\ toggle'.previous = config /\ ui' = ui
        /\ commit.at = "box" => overtaken' = overtaken \cup {t}
    BY <1>7 DEF Toggle
  <2>2. \A k \in Keys \ {t} : config'[k] = config[k]
    BY <1>7, ToggleSets
  <2>. QED
    BY <2>1, <2>2 DEF CallsInv
<1>8. ASSUME NEW failed \in Failures, ToggleSaves(failed) PROVE CallsInv'
  <2>1. CASE toggle' = NoToggle
    <3>1. toggle'.at = "none"
      BY <2>1, RestTyped
    <3>2. commit.at \in {"none", "box"} /\ commit' = commit /\ config' = config
      BY <1>8 DEF ToggleSaves, CallsInv
    <3>3. commit.at = "box" => overtaken' = overtaken
      BY <1>8 DEF ToggleSaves
    <3>. QED
      BY <3>1, <3>2, <3>3 DEF CallsInv
  <2>2. CASE toggle' = [toggle EXCEPT !.at = "rollback"] /\ UNCHANGED history
    <3>1. toggle'.previous = toggle.previous
      BY <2>2 DEF TypeOK
    <3>. QED
      BY <1>8, <2>2, <3>1 DEF ToggleSaves, CallsInv
  <2>. QED
    BY <1>8, <2>1, <2>2 DEF ToggleSaves
<1>9. ASSUME NEW failed \in Failures, ToggleRollsBack(failed) PROVE CallsInv'
  <2>1. /\ toggle'.at = "none" /\ commit.at \in {"none", "box"} /\ commit' = commit
        /\ config' = toggle.previous /\ overtaken' = overtaken
    BY <1>9, RestTyped DEF ToggleRollsBack, CallsInv
  <2>2. toggle.at # "none"
    BY <1>9 DEF ToggleRollsBack
  <2>. QED
    BY <2>1, <2>2 DEF CallsInv
<1>10. ASSUME NEW added \in BOOLEAN, TaskbarCreated(added) PROVE CallsInv'
  BY <1>10 DEF TaskbarCreated, CallsInv
<1>11. CASE Restarts
  <2>1. commit'.at = "none" /\ toggle'.at = "none"
    BY <1>11, RestTyped DEF Restarts, Restart, Started
  <2>. QED
    BY <2>1 DEF CallsInv
<1>12. ASSUME NEW devices \in SUBSET Phones, DevicesChange(devices) PROVE CallsInv'
  BY <1>12 DEF DevicesChange, CallsInv
<1>13. CASE UNCHANGED vars
  BY <1>13 DEF vars, CallsInv
<1>. QED
  BY <1>1, <1>2, <1>3, <1>4, <1>5, <1>6, <1>7, <1>8, <1>9, <1>10, <1>11, <1>12, <1>13
  DEF Next, CommitSteps, TraySteps

\* Whatever ends an edit ends the preview.
LEMMA HeardKept == Inv /\ [Next]_vars => HeardInv'
<1>. SUFFICES ASSUME Inv, TypeOK, CallsInv, HeardInv, [Next]_vars PROVE HeardInv'
  BY DEF Inv
<1>. USE DEF stored, running, window, calls, history
<1>1. ASSUME NEW ok \in BOOLEAN, Show(ok) PROVE HeardInv'
  BY <1>1 DEF Show, BeginEdit, HeardInv
<1>2. ASSUME NEW ok \in BOOLEAN, Refresh(ok) \/ Commit(ok) PROVE HeardInv'
  BY <1>2 DEF Refresh, Commit, HeardInv
<1>3. ASSUME NEW ok \in BOOLEAN, Cancel(ok) PROVE HeardInv'
  BY <1>3, SyncDspKeys DEF Cancel, EndPreview, HeardInv
<1>4. ASSUME NEW k \in UiKeys, NEW v \in Values(k), Edit(k, v) PROVE HeardInv'
  BY <1>4 DEF Edit, HeardInv
<1>5. CASE EditStartup \/ ResetToDefaults
  BY <1>5 DEF EditStartup, ResetToDefaults, HeardInv
<1>6. ASSUME NEW failed \in Failures, CommitSaves(failed) PROVE HeardInv'
  BY <1>6 DEF CommitSaves, HeardInv
<1>7. ASSUME NEW failed \in Failures, RollBack(failed) PROVE HeardInv'
  BY <1>7, SyncDspKeys DEF RollBack, EndPreview, HeardInv
<1>8. CASE CommitSucceeds
  BY <1>8, SyncDspKeys DEF CommitSucceeds, HeardInv
<1>9. ASSUME NEW readable \in BOOLEAN, RegistryFails \/ BoxCloses(readable) PROVE HeardInv'
  BY <1>9 DEF RegistryFails, BoxCloses, HeardInv
<1>10. ASSUME NEW t \in Toggles, Toggle(t) PROVE HeardInv'
  <2>1. \A k \in DspKeys : config'[k] = config[k] /\ atoms'[k] = atoms[k]
    BY <1>10, ToggleSets, KeyKinds
  <2>. QED
    BY <1>10, <2>1 DEF Toggle, HeardInv
<1>11. ASSUME NEW failed \in Failures, ToggleSaves(failed) PROVE HeardInv'
  BY <1>11 DEF ToggleSaves, HeardInv
<1>12. ASSUME NEW failed \in Failures, ToggleRollsBack(failed) PROVE HeardInv'
  <2>1. toggle.at # "none" /\ DspKeys \subseteq Keys \ Toggles
    BY <1>12, KeyKinds DEF ToggleRollsBack
  <2>2. \A k \in DspKeys : config'[k] = config[k]
    BY <1>12, <2>1 DEF ToggleRollsBack, CallsInv
  <2>3. \A k \in DspKeys : atoms'[k] = atoms[k]
    BY <1>12, <2>1 DEF ToggleRollsBack
  <2>. QED
    BY <1>12, <2>2, <2>3 DEF ToggleRollsBack, HeardInv
<1>13. ASSUME NEW added \in BOOLEAN, TaskbarCreated(added) PROVE HeardInv'
  BY <1>13 DEF TaskbarCreated, HeardInv
<1>14. CASE Restarts
  <2>1. /\ editBase' = config'
        /\ atoms' = [k \in DspKeys \cup Toggles |-> config'[k]]
    BY <1>14 DEF Restarts, Restart, Started
  <2>. QED
    BY <2>1 DEF HeardInv
<1>15. ASSUME NEW devices \in SUBSET Phones, DevicesChange(devices) PROVE HeardInv'
  BY <1>15 DEF DevicesChange, HeardInv
<1>16. CASE UNCHANGED vars
  BY <1>16 DEF vars, HeardInv
<1>. QED
  BY <1>1, <1>2, <1>3, <1>4, <1>5, <1>6, <1>7, <1>8, <1>9, <1>10, <1>11, <1>12, <1>13,
     <1>14, <1>15, <1>16
  DEF Next, WindowSteps, CommitSteps, TraySteps

\* The menu, the atomics and the configuration change together.
LEMMA MenuKept == Inv /\ [Next]_vars => MenuInv'
<1>. SUFFICES ASSUME Inv, TypeOK, CallsInv, MenuInv, [Next]_vars PROVE MenuInv'
  BY DEF Inv
<1>. USE DEF stored, running, window, calls, history
<1>1. CASE WindowSteps
  BY <1>1, WindowFrame DEF MenuInv
<1>2. ASSUME NEW failed \in Failures, CommitSaves(failed) PROVE MenuInv'
  BY <1>2 DEF CommitSaves, MenuInv
<1>3. ASSUME NEW failed \in Failures, RollBack(failed) PROVE MenuInv'
  BY <1>3, SyncDspKeys DEF RollBack, EndPreview, MenuInv
<1>4. CASE CommitSucceeds
  <2>1. \A t \in Toggles : config'[t] = config[t]
    BY <1>4 DEF CommitSucceeds, CallsInv
  <2>2. \A t \in Toggles : atoms'[t] = atoms[t]
    BY <1>4, SyncDspKeys DEF CommitSucceeds
  <2>. QED
    BY <1>4, <2>1, <2>2 DEF CommitSucceeds, MenuInv
<1>5. ASSUME NEW readable \in BOOLEAN, RegistryFails \/ BoxCloses(readable) PROVE MenuInv'
  BY <1>5 DEF RegistryFails, BoxCloses, MenuInv
<1>6. ASSUME NEW t \in Toggles, Toggle(t) PROVE MenuInv'
  BY <1>6, ToggleSets, KeyKinds DEF MenuInv
<1>7. ASSUME NEW failed \in Failures, ToggleSaves(failed) PROVE MenuInv'
  BY <1>7 DEF ToggleSaves, MenuInv
<1>8. ASSUME NEW failed \in Failures, ToggleRollsBack(failed) PROVE MenuInv'
  <2>1. \A t \in Toggles : tray'.checks[t] = config'[t]
    BY <1>8 DEF ToggleRollsBack, TypeOK
  <2>2. \A t \in Toggles : atoms'[t] = config'[t]
    BY <1>8 DEF ToggleRollsBack
  <2>. QED
    BY <2>1, <2>2 DEF MenuInv
<1>9. ASSUME NEW added \in BOOLEAN, TaskbarCreated(added) PROVE MenuInv'
  <2>1. tray'.checks = tray.checks /\ tray'.onTime = tray.onTime
    BY <1>9 DEF TaskbarCreated, TypeOK
  <2>. QED
    BY <1>9, <2>1 DEF TaskbarCreated, MenuInv
<1>10. CASE Restarts
  <2>1. PICK added \in BOOLEAN, answered \in BOOLEAN, readable \in BOOLEAN :
          Started(file', added, answered, readable)
    BY <1>10 DEF Restarts, Restart
  <2>2. \A t \in Toggles : atoms'[t] = config'[t]
    BY <2>1 DEF Started
  <2>3. tray'.onTime = added
    BY <2>1 DEF Started
  <2>4. added = TRUE => \A t \in Toggles : tray'.checks[t] = config'[t]
    BY <2>1 DEF Started
  <2>. QED
    BY <2>2, <2>3, <2>4 DEF MenuInv
<1>11. ASSUME NEW devices \in SUBSET Phones, DevicesChange(devices) PROVE MenuInv'
  BY <1>11 DEF DevicesChange, MenuInv
<1>12. CASE UNCHANGED vars
  BY <1>12 DEF vars, MenuInv
<1>. QED
  BY <1>1, <1>2, <1>3, <1>4, <1>5, <1>6, <1>7, <1>8, <1>9, <1>10, <1>11, <1>12
  DEF Next, CommitSteps, TraySteps

\* Without the star the page shows what is in use.
LEMMA PageKept == Inv /\ [Next]_vars => PageInv'
<1>. SUFFICES ASSUME Inv, TypeOK, CallsInv, PageInv, [Next]_vars PROVE PageInv'
  BY DEF Inv
<1>. USE DEF stored, running, window, calls, history, Unlisted
<1>1. ASSUME NEW ok \in BOOLEAN, Show(ok) PROVE PageInv'
  <2>1. ui' = UiOf(config, listed) /\ startup' = StartupBox(ok)
    BY <1>1 DEF Show, BeginEdit
  <2>2. startup'.readable => startup'.checked = (registry # "none")
    BY <2>1, StartupTyped
  <2>3. ASSUME NEW k \in UiKeys
        PROVE  \/ ui'[k] = config[k]
               \/ k = "serial" /\ Unlisted /\ ui'[k] = ""
    <3>1. IsSettings(config)
      BY DEF TypeOK
    <3>2. \A n \in UiKeys : \/ UiOf(config, listed)[n] = config[n]
                            \/ /\ n = "serial" /\ config[n] \notin listed
                               /\ UiOf(config, listed)[n] = ""
      BY <3>1, UiTyped
    <3>. QED
      BY <2>1, <3>2
  <2>4. Unlisted' = Unlisted
    BY <1>1 DEF Show, BeginEdit
  <2>. QED
    BY <1>1, <2>2, <2>3, <2>4, KeyKinds DEF Show, PageInv
<1>2. ASSUME NEW ok \in BOOLEAN, Refresh(ok) PROVE PageInv'
  <2>1. \A k \in UiKeys \ {"serial"} : ui'[k] = ui[k]
    BY <1>2, KeyKinds DEF Refresh, TypeOK
  <2>2. ui'["serial"] = IF ok /\ config["serial"] \in listed' THEN config["serial"] ELSE ""
    BY <1>2, KeyKinds DEF Refresh, TypeOK
  <2>3. /\ UNCHANGED <<config, registry, startup, dirty, shown>>
        /\ ~ok => listed' = {"noAdb"}
    BY <1>2 DEF Refresh, DeviceList
  <2>4. ui'["serial"] = config'["serial"] \/ (Unlisted' /\ ui'["serial"] = "")
    BY <2>2, <2>3, PhoneAssumption DEF PhoneAssumption
  <2>. QED
    BY <2>1, <2>3, <2>4 DEF PageInv
<1>3. ASSUME NEW ok \in BOOLEAN, Commit(ok) PROVE PageInv'
  BY <1>3 DEF Commit, PageInv
<1>4. ASSUME NEW ok \in BOOLEAN, Cancel(ok) PROVE PageInv'
  BY <1>4 DEF Cancel, PageInv
<1>5. ASSUME NEW k \in UiKeys, NEW v \in Values(k), Edit(k, v) PROVE PageInv'
  BY <1>5 DEF Edit, PageInv
<1>6. CASE EditStartup \/ ResetToDefaults
  BY <1>6 DEF EditStartup, ResetToDefaults, PageInv
<1>7. ASSUME NEW failed \in Failures, CommitSaves(failed) \/ RollBack(failed) PROVE PageInv'
  BY <1>7 DEF CommitSaves, RollBack, PageInv
<1>8. CASE CommitSucceeds
  <2>1. \A k \in UiKeys : ui'[k] = config'[k]
    BY <1>8 DEF CommitSucceeds, CallsInv
  <2>2. startup'.checked = (registry' # "none")
    BY <1>8 DEF CommitSucceeds, Registered, TypeOK
  <2>. QED
    BY <2>1, <2>2, KeyKinds DEF PageInv
<1>9. CASE RegistryFails
  BY <1>9 DEF RegistryFails, PageInv
<1>10. ASSUME NEW readable \in BOOLEAN, BoxCloses(readable) PROVE PageInv'
  <2>1. startup' = StartupBox(readable)
    BY <1>10 DEF BoxCloses
  <2>2. startup'.readable => startup'.checked = (registry # "none")
    BY <2>1, StartupTyped
  <2>. QED
    BY <1>10, <2>2 DEF BoxCloses, PageInv
<1>11. ASSUME NEW t \in Toggles, Toggle(t) PROVE PageInv'
  <2>1. \A k \in UiKeys : config'[k] = config[k]
    BY <1>11, ToggleSets, KeyKinds
  <2>. QED
    BY <1>11, <2>1, KeyKinds DEF Toggle, PageInv
<1>12. ASSUME NEW failed \in Failures, ToggleSaves(failed) PROVE PageInv'
  BY <1>12 DEF ToggleSaves, PageInv
<1>13. ASSUME NEW failed \in Failures, ToggleRollsBack(failed) PROVE PageInv'
  <2>1. \A k \in UiKeys : config'[k] = config[k]
    BY <1>13, KeyKinds DEF ToggleRollsBack, CallsInv
  <2>. QED
    BY <1>13, <2>1, KeyKinds DEF ToggleRollsBack, PageInv
<1>14. ASSUME NEW added \in BOOLEAN, TaskbarCreated(added) PROVE PageInv'
  BY <1>14 DEF TaskbarCreated, PageInv
<1>15. CASE Restarts
  <2>1. shown' = FALSE
    BY <1>15 DEF Restarts, Restart, Started
  <2>. QED
    BY <2>1 DEF PageInv
<1>16. ASSUME NEW devices \in SUBSET Phones, DevicesChange(devices) PROVE PageInv'
  BY <1>16 DEF DevicesChange, PageInv
<1>17. CASE UNCHANGED vars
  BY <1>17 DEF vars, PageInv
<1>. QED
  BY <1>1, <1>2, <1>3, <1>4, <1>5, <1>6, <1>7, <1>8, <1>9, <1>10, <1>11, <1>12, <1>13,
     <1>14, <1>15, <1>16, <1>17
  DEF Next, WindowSteps, CommitSteps, TraySteps

\* A step after which the file holds the configuration, or is known not to, is sound.
LEMMA Settles ==
  ASSUME TypeOK', commit'.at \in {"none", "box"},
         commit'.at = "box" => \A k \in Keys : file'[k] # Missing,
         ~partial' => \A k \in Keys \ overtaken' : file'[k] = config'[k]
  PROVE  FileInv'
<1>1. SavedIsConfig'
  <2>. SUFFICES ASSUME AtRest', ~partial', NEW k \in Keys \ overtaken'
                PROVE  Load(file')[k] = config'[k]
    BY DEF SavedIsConfig
  <2>1. FileOK(file') /\ config'[k] \in Values(k) /\ file'[k] = config'[k]
    BY DEF TypeOK, FileOK, IsSettings
  <2>. QED
    BY <2>1, WrittenLoads
<1>. QED
  BY <1>1 DEF FileInv, FromPlay

\* Every way a commit, a toggle or a start ends leaves the file as the memory is.
LEMMA FileKept == Inv /\ [Next]_vars => FileInv'
<1>. SUFFICES ASSUME Inv, TypeOK, TypeOK', CallsInv, FileInv, [Next]_vars PROVE FileInv'
  BY StepTyped DEF Inv
<1>. USE DEF stored, running, window, calls, history
<1>1. CASE WindowSteps
  <2>1. /\ toggle.at = "none" /\ commit.at = "none" /\ toggle' = toggle
        /\ file' = file /\ config' = config /\ partial' = partial
        /\ overtaken' = overtaken /\ commit'.at \in {"none", "save"}
    BY <1>1, WindowFrame DEF AtRest
  <2>. QED
    BY <2>1 DEF FileInv, FromPlay, SavedIsConfig, AtRest
<1>2. ASSUME NEW failed \in Failures, CommitSaves(failed) PROVE FileInv'
  <2>1. /\ toggle.at = "none" /\ toggle' = toggle /\ config' = config
        /\ partial' = partial /\ overtaken' = overtaken
        /\ commit'.previous = commit.previous /\ commit'.committed = commit.committed
        /\ commit'.at = IF failed = {} THEN "registry" ELSE "rollback"
        /\ commit.at # "none"
    BY <1>2 DEF CommitSaves, CallsInv, TypeOK
  <2>2. /\ \A k \in Keys : file'[k] = file[k] \/ file'[k] = commit.committed[k]
        /\ failed = {} => \A k \in Keys : file'[k] = commit.committed[k]
    BY <1>2, SavedTyped, TypeParts DEF CommitSaves, CallTypes
  <2>3. ~AtRest'
    BY <2>1 DEF AtRest
  <2>. QED
    BY <2>1, <2>2, <2>3 DEF FileInv, FromPlay, SavedIsConfig
<1>3. ASSUME NEW failed \in Failures, RollBack(failed) PROVE FileInv'
  <2>1. failed = {} => \A k \in Keys : file'[k] = commit.previous[k]
    BY <1>3, SavedTyped, TypeParts DEF RollBack, CallTypes
  <2>2. /\ commit.at # "none" /\ commit'.at = "none" /\ config' = config
        /\ overtaken' = overtaken /\ partial' = (failed # {})
    BY <1>3, RestTyped DEF RollBack
  <2>3. ~partial' => \A k \in Keys \ overtaken' : file'[k] = config'[k]
    BY <2>1, <2>2 DEF CallsInv
  <2>. QED
    BY <2>2, <2>3, Settles
<1>4. CASE CommitSucceeds
  <2>1. /\ commit'.at = "none" /\ config' = commit.committed /\ file' = file
        /\ commit.at = "registry"
    BY <1>4, RestTyped DEF CommitSucceeds
  <2>. QED
    BY <2>1, Settles DEF FileInv
<1>5. CASE RegistryFails
  <2>1. /\ commit.at = "registry" /\ commit'.at = "box" /\ file' = file
        /\ commit'.previous = commit.previous /\ commit'.committed = commit.committed
        /\ config' = config /\ toggle' = toggle /\ partial' = partial
        /\ overtaken' = overtaken
    BY <1>5 DEF RegistryFails, TypeOK
  <2>2. \A k \in Keys : file'[k] # Missing
    BY <2>1, MissingAssumption DEF MissingAssumption, FileInv, TypeOK, IsSettings
  <2>. QED
    BY <2>1, <2>2 DEF FileInv, FromPlay, SavedIsConfig, AtRest
<1>6. ASSUME NEW readable \in BOOLEAN, BoxCloses(readable) PROVE FileInv'
  <2>1. /\ commit.at = "box" /\ commit'.at = "rollback" /\ file' = file
        /\ commit'.previous = commit.previous /\ commit'.committed = commit.committed
        /\ config' = config /\ toggle' = toggle /\ partial' = partial
        /\ overtaken' = overtaken
    BY <1>6 DEF BoxCloses, TypeOK
  <2>. QED
    BY <2>1 DEF FileInv, FromPlay, SavedIsConfig, AtRest
<1>7. ASSUME NEW t \in Toggles, Toggle(t) PROVE FileInv'
  <2>1. /\ toggle.at = "none" /\ toggle'.at = "save" /\ toggle'.previous = config
        /\ commit.at \in {"none", "box"} /\ commit' = commit /\ file' = file
        /\ partial' = partial /\ overtaken \subseteq overtaken'
    BY <1>7 DEF Toggle
  <2>. QED
    BY <2>1 DEF FileInv, FromPlay, SavedIsConfig, AtRest
<1>8. ASSUME NEW failed \in Failures, ToggleSaves(failed) PROVE FileInv'
  <2>1. /\ \A k \in Keys : file'[k] = file[k] \/ file'[k] = config[k]
        /\ failed = {} => \A k \in Keys : file'[k] = config[k]
    BY <1>8, SavedTyped, TypeParts DEF ToggleSaves, MemoryTypes
  <2>2. /\ toggle.at = "save" /\ commit.at \in {"none", "box"} /\ commit' = commit
        /\ config' = config
    BY <1>8 DEF ToggleSaves, CallsInv
  <2>3. commit.at = "box" => \A k \in Keys : file'[k] # Missing
    BY <2>1, MissingAssumption DEF MissingAssumption, FileInv, TypeOK, IsSettings
  <2>4. CASE failed = {}
    BY <2>1, <2>2, <2>3, <2>4, Settles
  <2>5. CASE failed # {}
    <3>1. /\ toggle'.at = "rollback" /\ toggle'.previous = toggle.previous
          /\ partial' = partial /\ overtaken' = overtaken
      BY <1>8, <2>5 DEF ToggleSaves, TypeOK
    <3>. QED
      BY <2>1, <2>2, <2>3, <3>1 DEF FileInv, FromPlay, SavedIsConfig, AtRest
  <2>. QED
    BY <2>4, <2>5
<1>9. ASSUME NEW failed \in Failures, ToggleRollsBack(failed) PROVE FileInv'
  <2>1. /\ \A k \in Keys : file'[k] = file[k] \/ file'[k] = toggle.previous[k]
        /\ failed = {} => \A k \in Keys : file'[k] = toggle.previous[k]
    BY <1>9, SavedTyped, TypeParts DEF ToggleRollsBack, CallTypes
  <2>2. /\ commit.at \in {"none", "box"} /\ commit' = commit
        /\ config' = toggle.previous /\ partial' = (failed # {})
    BY <1>9 DEF ToggleRollsBack, CallsInv
  <2>3. commit.at = "box" => \A k \in Keys : file'[k] # Missing
    BY <2>1, MissingAssumption DEF MissingAssumption, FileInv, TypeOK, IsSettings
  <2>. QED
    BY <2>1, <2>2, <2>3, Settles
<1>10. ASSUME NEW added \in BOOLEAN, TaskbarCreated(added) PROVE FileInv'
  BY <1>10 DEF TaskbarCreated, FileInv, FromPlay, SavedIsConfig, AtRest
<1>11. CASE Restarts
  <2>1. /\ config' = Load(file') /\ commit'.at = "none"
    BY <1>11, RestTyped DEF Restarts, Restart, Started
  <2>2. FileOK(file')
    BY DEF TypeOK, FileOK
  <2>3. \A k \in Keys : file'[k] # Missing => file'[k] = config'[k]
    BY <2>1, <2>2, LoadTyped
  <2>. QED
    BY <2>1, <2>3 DEF FileInv, FromPlay, SavedIsConfig
<1>12. ASSUME NEW devices \in SUBSET Phones, DevicesChange(devices) PROVE FileInv'
  BY <1>12 DEF DevicesChange, FileInv, FromPlay, SavedIsConfig, AtRest
<1>13. CASE UNCHANGED vars
  BY <1>13 DEF vars, FileInv, FromPlay, SavedIsConfig, AtRest
<1>. QED
  BY <1>1, <1>2, <1>3, <1>4, <1>5, <1>6, <1>7, <1>8, <1>9, <1>10, <1>11, <1>12, <1>13
  DEF Next, CommitSteps, TraySteps

-----------------------------------------------------------------------------
(* The theorems.                                                           *)

\* The invariant holds of the given configuration file.
LEMMA InitInv == Init => Inv
<1>. SUFFICES ASSUME Init PROVE Inv
  OBVIOUS
<1>. DEFINE Nothing == [k \in Keys |-> Missing]
<1>1. FileOK(file)
  <2>1. FileOK(Nothing)
    BY DEF FileOK
  <2>2. "" \in Values("serial") /\ "audiosource" \in Values("androidSocket")
        /\ "voxmicsource" \in Values("androidSocket") /\ FALSE \in Values("eqEnabled")
    BY ValueSets
  <2>3. FileOK([Nothing EXCEPT !["serial"] = "", !["androidSocket"] = "audiosource"])
    BY <2>2 DEF FileOK
  <2>4. FileOK([Nothing EXCEPT !["serial"] = "", !["eqEnabled"] = FALSE])
    BY <2>2 DEF FileOK
  <2>5. \A s \in Values("serial") :
          FileOK([Defaults EXCEPT !["serial"] = s, !["androidSocket"] = "voxmicsource"])
    BY <2>2, DefaultsTyped DEF FileOK, IsSettings
  <2>. QED
    BY <2>1, <2>3, <2>4, <2>5 DEF Init, InitialFiles
<1>2. IsSettings(config) /\ config = Load(file)
  BY <1>1, LoadTyped DEF Init
<1>3. MemoryTypes
  <2>1. /\ DOMAIN atoms = DspKeys \cup Toggles /\ \A t \in Toggles : atoms[t] = config[t]
    BY DEF Init
  <2>2. DOMAIN tray = {"added", "onTime", "checks"} /\ DOMAIN tray.checks = Toggles
    BY DEF Init
  <2>. QED
    BY <1>2, <2>1, <2>2, KeyKinds DEF MemoryTypes, IsSettings
<1>4. WindowTypes
  <2>1. DOMAIN ui = UiKeys /\ \A k \in UiKeys : ui[k] \in Values(k)
    BY <1>2, UiTyped DEF Init
  <2>2. /\ DOMAIN startup = {"checked", "readable"}
        /\ startup.checked \in BOOLEAN /\ startup.readable \in BOOLEAN
    BY DEF Init
  <2>3. shown \in BOOLEAN /\ dirty \in BOOLEAN
    BY DEF Init
  <2>4. IsSettings(editBase)
    BY <1>2 DEF Init
  <2>. QED
    BY <2>1, <2>2, <2>3, <2>4 DEF WindowTypes
<1>5. CallTypes
  <2>1. partial \in BOOLEAN
    BY DEF Init
  <2>. QED
    BY <2>1, RestTyped DEF Init, CallTypes
<1>6. CallsInv
  BY RestTyped DEF Init, CallsInv
<1>7. FileInv
  <2>1. \A k \in Keys : file[k] # Missing => file[k] = config[k]
    BY <1>1, <1>2, LoadTyped
  <2>. QED
    BY <1>2, <2>1, RestTyped DEF Init, FileInv, SavedIsConfig, FromPlay
<1>8. HeardInv /\ PageInv
  BY DEF Init, HeardInv, PageInv
<1>9. MenuInv
  <2>1. /\ \A t \in Toggles : atoms[t] = config[t]
        /\ \A t \in Toggles : tray.checks[t] = config[t]
    BY DEF Init
  <2>. QED
    BY <2>1 DEF MenuInv
<1>. QED
  BY <1>1, <1>3, <1>4, <1>5, <1>6, <1>7, <1>8, <1>9, TypeParts DEF Inv

\* Every reachable state satisfies the invariant.
THEOREM InvCorrect == Spec => []Inv
<1>1. Inv /\ [Next]_vars => Inv'
  BY StepTyped, CallsKept, FileKept, HeardKept, MenuKept, PageKept DEF Inv
<1>. QED
  BY <1>1, InitInv, PTL DEF Spec

\* Every variable keeps its type, whatever was in the file (Config::load).
THEOREM TypeCorrect == Spec => []TypeOK
BY InvCorrect, PTL DEF Inv

\* At rest the file holds the settings in use, unless the code has said it
\* could not write them back (commitSettings, rollbackRuntimeConfigToggle).
THEOREM SavedCorrect == Spec => []SavedIsConfig
<1>1. Inv => SavedIsConfig
  BY DEF Inv, FileInv
<1>. QED
  BY <1>1, InvCorrect, PTL

\* No way out of an edit leaves its preview in the microphone
\* (restoreDspPreviewFromSnapshot).
THEOREM PreviewCorrect == Spec => []PreviewGone
<1>1. Inv => PreviewGone
  BY DEF Inv, HeardInv, PreviewGone
<1>. QED
  BY <1>1, InvCorrect, PTL

\* The menu shows the flags the bridge reads and the file will have (tray_icon.cpp).
THEOREM TrayCorrect == Spec => []TrayTruthful
<1>1. Inv => TrayTruthful
  BY DEF Inv, MenuInv, TrayTruthful
<1>. QED
  BY <1>1, InvCorrect, PTL

\* Without the star the window shows what is in use (settings_dialog.cpp).
THEOREM CleanCorrect == Spec => []CleanMeansSaved
<1>1. Inv => CleanMeansSaved
  BY DEF Inv, PageInv, CleanMeansSaved
<1>. QED
  BY <1>1, InvCorrect, PTL

\* A start after a crash takes each key from a configuration that was in play.
LEMMA CrashStep ==
  ASSUME Inv, Restarts, ~partial, Writing = <<>> \/ \A k \in Keys : file[k] # Missing,
         NEW k \in Keys \ overtaken
  PROVE  \E c \in InPlay : config'[k] = c[k]
<1>1. PICK added \in BOOLEAN, answered \in BOOLEAN, readable \in BOOLEAN :
        Restart(added, answered, readable)
  BY DEF Restarts
<1>2. /\ FileOK(file')
      /\ Writing = <<>> => file' = file
      /\ Writing # <<>> => file'[k] = file[k] \/ file'[k] = Writing[1][k]
  BY <1>1, RestartFile DEF Inv
<1>3. config' = Load(file')
  BY <1>1 DEF Restart, Started
<1>4. FromPlay(k) => \E c \in InPlay : file[k] = c[k]
  BY DEF FromPlay, InPlay
<1>5. ASSUME \A j \in Keys : file[j] # Missing, file'[k] = file[k]
      PROVE  \E c \in InPlay : config'[k] = c[k]
  <2>1. config'[k] = file[k]
    BY <1>2, <1>3, <1>5, LoadTyped
  <2>. QED
    BY <1>4, <1>5, <2>1 DEF Inv, FileInv
<1>6. CASE Writing # <<>> /\ file'[k] = Writing[1][k]
  <2>1. \/ toggle.at = "save" /\ Writing[1] = config
        \/ toggle.at = "rollback" /\ Writing[1] = toggle.previous
        \/ commit.at = "save" /\ Writing[1] = commit.committed
        \/ commit.at = "rollback" /\ Writing[1] = commit.previous
    BY <1>6 DEF Writing
  <2>2. Writing[1] \in InPlay
    BY <2>1 DEF InPlay
  <2>3. Writing[1][k] \in Values(k) /\ Writing[1][k] # Missing
    BY <1>6, WritingTyped, MissingAssumption DEF MissingAssumption, Inv, IsSettings
  <2>4. config'[k] = Writing[1][k]
    BY <1>2, <1>3, <1>6, <2>3, LoadTyped
  <2>. QED
    BY <2>2, <2>4
<1>7. CASE Writing = <<>>
  <2>1. toggle.at = "none" /\ commit.at \in {"none", "registry", "box"}
    BY <1>7 DEF Writing, Inv, TypeOK
  <2>2. CASE commit.at = "none"
    <3>1. config'[k] = config[k]
      BY <1>2, <1>3, <1>7, <2>1, <2>2 DEF Inv, FileInv, SavedIsConfig, AtRest
    <3>. QED
      BY <3>1 DEF InPlay
  <2>3. CASE commit.at \in {"registry", "box"}
    <3>1. \A j \in Keys : file[j] # Missing
      BY <2>3, MissingAssumption DEF MissingAssumption, Inv, FileInv, TypeOK, IsSettings
    <3>. QED
      BY <1>2, <1>5, <1>7, <3>1
  <2>. QED
    BY <2>1, <2>2, <2>3
<1>. QED
  BY <1>2, <1>5, <1>6, <1>7

\* A crash between any two keys of a save loses no setting that was in the
\* file: the next start finds each as it was before or after (Config::save).
THEOREM CrashCorrect == Spec => CrashKeepsOldOrNew
<1>1. Inv /\ [Next]_vars =>
        [ (Restarts /\ ~partial /\ (Writing = <<>> \/ \A k \in Keys : file[k] # Missing)) =>
            \A k \in Keys \ overtaken : \E c \in InPlay : config'[k] = c[k] ]_vars
  BY CrashStep
<1>. QED
  BY <1>1, InvCorrect, PTL DEF Spec, CrashKeepsOldOrNew
=============================================================================
