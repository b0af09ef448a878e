------------------------- MODULE SettingsTransaction -------------------------
(***************************************************************************)
(* The settings of VoxMic and the four places that hold them: config.ini   *)
(* (config.cpp), the configuration in memory with the atomics the other    *)
(* threads read, the controls of the settings window (settings_dialog.cpp) *)
(* and the Run key of the registry (startup_registration.cpp).  The tray   *)
(* menu (tray_icon.cpp) changes two of them without the window.            *)
(*                                                                         *)
(* Everything runs on the UI thread.  A message box is a message loop of   *)
(* its own, though: it disables the window but not the tray menu, so a     *)
(* menu command can run in the middle of a commit.                         *)
(*                                                                         *)
(* The twenty settings are represented by eight, in the order save()       *)
(* writes them.  A save is one step, with the key that could not be        *)
(* written, if any; the process may end between any two of its keys.       *)
(***************************************************************************)
EXTENDS Naturals, Sequences

CONSTANTS
  Phones,    \* serials of the devices that exist
  Missing,   \* a key that is not in config.ini
  MaxOps,    \* bound: things the user and the devices do
  MaxFaults  \* bound: failed writes and queries, and crashes

ASSUME PhoneAssumption == Phones \subseteq STRING /\ {"", "noAdb"} \cap Phones = {}
ASSUME SettingsBoundAssumption == MaxOps \in Nat /\ MaxFaults \in Nat

SaveOrder == <<"serial", "androidSocket", "androidAppPreset", "eqEnabled",
               "denoiseBackend", "debugConsole", "demandMode", "alwaysHot">>
Keys == {"serial", "androidSocket", "androidAppPreset", "eqEnabled",
         "denoiseBackend", "debugConsole", "demandMode", "alwaysHot"}
DspKeys == {"eqEnabled", "denoiseBackend"}
Toggles == {"demandMode", "alwaysHot"}
UiKeys == {"serial", "androidAppPreset", "eqEnabled", "denoiseBackend", "debugConsole"}

\* "" is automatic detection, "noAdb" the list entry "(ADB not available)".
Values(k) ==
  CASE k = "serial" -> {"", "noAdb"} \cup Phones
    [] k = "androidSocket" -> {"audiosource", "voxmicsource"}
    [] k = "androidAppPreset" -> {0, 1}
    [] k = "denoiseBackend" -> {"rnnoise", "dpdfnet"}
    [] OTHER -> BOOLEAN

ASSUME MissingAssumption == \A k \in Keys : Missing \notin Values(k)

-----------------------------------------------------------------------------
(* config.cpp                                                              *)

\* A default-constructed Config.
Defaults == [k \in Keys |->
  CASE k = "serial" -> ""
    [] k = "androidSocket" -> "audiosource"
    [] k = "androidAppPreset" -> 1
    [] k = "denoiseBackend" -> "dpdfnet"
    [] k = "demandMode" -> TRUE
    [] OTHER -> FALSE]

Exists(file) == \E k \in Keys : file[k] # Missing

\* A file without the key DenoiseBackend was written by an older version.
legacyDefaults(file) == Exists(file) /\ file["denoiseBackend"] = Missing

Fallback(file, k) ==
  IF ~legacyDefaults(file) THEN Defaults[k]
  ELSE CASE k \in {"eqEnabled", "debugConsole"} -> TRUE
         [] k = "denoiseBackend" -> "rnnoise"
         [] OTHER -> Defaults[k]

\* Config::load().
Load(file) ==
  [k \in Keys |-> IF file[k] = Missing THEN Fallback(file, k) ELSE file[k]]

\* Config::save() with the keys in failed not written.
Saved(file, cfg, failed) == [k \in Keys |-> IF k \in failed THEN file[k] ELSE cfg[k]]

\* What is left of a save() that ended after its first n keys.
Cut_Truncates(file, cfg, n) ==
  [k \in Keys |-> IF \E i \in 1..n : SaveOrder[i] = k THEN cfg[k] ELSE Missing]
Cut(file, cfg, n) ==
  Saved(file, cfg, {SaveOrder[i] : i \in n + 1..Len(SaveOrder)})

-----------------------------------------------------------------------------
VARIABLES
  file,       \* config.ini
  registry,   \* the Run value: none, this executable, or another copy
  config,     \* g_appState.config
  atoms,      \* the settings as the other threads read them
  tray,       \* the icon is there, was there at start, and the menu's checks
  connected,  \* what `adb devices` would list
  shown,      \* the settings window is visible
  listed,     \* the entries of its device list, "" not counted
  ui,         \* its controls
  startup,    \* its start-with-Windows box: checked, and could be read
  dirty,      \* its title has a star and Apply is enabled
  editBase,   \* the snapshot Cancel goes back to
  commit,     \* commitSettings() in progress
  toggle,     \* a tray menu command in progress
  partial,    \* history: the last save left keys unwritten
  overtaken,  \* history: toggles changed while a commit was about to roll back
  ops, faults

stored == <<file, registry>>
running == <<config, atoms, tray>>
window == <<shown, listed, ui, startup, dirty, editBase>>
calls == <<commit, toggle>>
history == <<partial, overtaken>>
vars == <<stored, running, connected, window, calls, history, ops, faults>>

NoCommit == [at |-> "none", hide |-> FALSE, previous |-> Defaults, committed |-> Defaults]
NoToggle == [at |-> "none", previous |-> Defaults]

\* The UI thread is back in the message loop of main().
AtRest == commit.at = "none" /\ toggle.at = "none"

Act == ops < MaxOps /\ ops' = ops + 1
Fault == faults < MaxFaults /\ faults' = faults + 1

\* A write or query that goes well, or a fault that is still in the budget.
Outcome(ok) == IF ok THEN UNCHANGED faults ELSE Fault

\* Which keys one save() can fail to write (one is enough to fail it).
Failures == {{}} \cup {{k} : k \in Keys}

SyncDsp(cfg) == [k \in DspKeys \cup Toggles |-> IF k \in DspKeys THEN cfg[k] ELSE atoms[k]]

\* restoreDspPreviewFromSnapshot(): the preview ends.
EndPreview == atoms' = SyncDsp(editBase)

\* loadAllUiFromConfig(): a serial that is not listed selects automatic.
UiOf(cfg, list) ==
  [k \in UiKeys |-> IF k = "serial" /\ cfg[k] \notin list THEN "" ELSE cfg[k]]

\* refreshStartupRegistrationControl().
StartupBox(readable) ==
  [checked |-> readable /\ registry # "none", readable |-> readable]

\* refreshDeviceList(): the answer of `adb devices`, or none.
DeviceList(answered) == IF answered THEN connected ELSE {"noAdb"}

-----------------------------------------------------------------------------
(* main() with a given config.ini.  The tray menu gets its checks only if  *)
(* the icon could be added.                                                *)

Started(stored_, added, answered, readable) ==
  LET cfg == Load(stored_)
      list == DeviceList(answered)
  IN  /\ config' = cfg
      /\ atoms' = [k \in DspKeys \cup Toggles |-> cfg[k]]
      /\ tray' = [added |-> added, onTime |-> added,
                  checks |-> [t \in Toggles |-> IF added THEN cfg[t] ELSE FALSE]]
      /\ shown' = FALSE
      /\ listed' = list
      /\ ui' = UiOf(cfg, list)
      /\ startup' = StartupBox(readable)
      /\ dirty' = FALSE
      /\ editBase' = cfg
      /\ commit' = NoCommit /\ toggle' = NoToggle
      /\ partial' = FALSE /\ overtaken' = {}

\* No file, files of older versions with and without an EQ setting, and
\* files this version has written, for every device its list can offer.
InitialFiles ==
  LET Nothing == [k \in Keys |-> Missing]
  IN  {Nothing,
       [Nothing EXCEPT !["serial"] = "", !["androidSocket"] = "audiosource"],
       [Nothing EXCEPT !["serial"] = "", !["eqEnabled"] = FALSE]}
      \cup {[Defaults EXCEPT !["serial"] = s, !["androidSocket"] = "voxmicsource"] :
              s \in Values("serial")}

Init ==
  /\ file \in InitialFiles
  /\ registry \in {"none", "here", "elsewhere"}
  /\ connected \in {{}, Phones}
  /\ config = Load(file)
  /\ atoms = [k \in DspKeys \cup Toggles |-> config[k]]
  /\ tray = [added |-> TRUE, onTime |-> TRUE, checks |-> [t \in Toggles |-> config[t]]]
  /\ shown = FALSE
  /\ listed = connected
  /\ ui = UiOf(config, listed)
  /\ startup = [checked |-> registry # "none", readable |-> TRUE]
  /\ dirty = FALSE
  /\ editBase = config
  /\ commit = NoCommit /\ toggle = NoToggle
  /\ partial = FALSE /\ overtaken = {}
  /\ ops = 0 /\ faults = 0

-----------------------------------------------------------------------------
(* The window (SettingsWndProc).                                           *)

\* beginSettingsEdit(): the snapshot Cancel goes back to.
BeginEdit == editBase' = config /\ ui' = UiOf(config, listed) /\ dirty' = FALSE

\* WM_SHOWWINDOW: beginSettingsEdit() and the state of the registry.
Show(readable) ==
  /\ AtRest /\ ~shown /\ Act /\ Outcome(readable)
  /\ shown' = TRUE
  /\ BeginEdit
  /\ startup' = StartupBox(readable)
  /\ UNCHANGED <<stored, running, connected, listed, calls, history>>

\* A control of the window changes.  The DSP page is heard at once
\* (applyDspPreviewFromUi); the file and the configuration keep their values.
Edit(k, v) ==
  /\ AtRest /\ shown /\ Act
  /\ v # ui[k] /\ (k = "serial" => v \in listed \cup {""})
  /\ ui' = [ui EXCEPT ![k] = v]
  /\ dirty' = TRUE
  /\ atoms' = IF k \in DspKeys THEN SyncDsp(ui') ELSE atoms
  /\ UNCHANGED <<stored, config, tray, connected, shown, listed, startup, editBase,
                 calls, history, faults>>

EditStartup ==
  /\ AtRest /\ shown /\ Act
  /\ startup' = [startup EXCEPT !.checked = ~@]
  /\ dirty' = TRUE
  /\ UNCHANGED <<stored, running, connected, shown, listed, ui, editBase, calls, history,
                 faults>>

\* resetStartupRegistrationUiToDefault(): without asking the registry.
DefaultBox == [checked |-> FALSE, readable |-> TRUE]

\* IDC_BTN_RESET.
ResetToDefaults ==
  /\ AtRest /\ shown /\ Act
  /\ ui' = UiOf(Defaults, listed)
  /\ startup' = DefaultBox
  /\ dirty' = TRUE
  /\ atoms' = SyncDsp(ui')
  /\ UNCHANGED <<stored, config, tray, connected, shown, listed, editBase, calls, history,
                 faults>>

\* IDC_BTN_REFRESH: the list is filled again and the saved serial selected,
\* if adb has answered with it.
Refresh_KeepsSelection(answered) ==
  /\ AtRest /\ shown /\ Act /\ Outcome(answered)
  /\ listed' = DeviceList(answered)
  /\ ui' = [ui EXCEPT !["serial"] = IF answered /\ @ \in listed' THEN @ ELSE ""]
  /\ UNCHANGED <<stored, running, connected, shown, startup, dirty, editBase, calls,
                 history>>
Refresh(answered) ==
  /\ AtRest /\ shown /\ Act /\ Outcome(answered)
  /\ listed' = DeviceList(answered)
  /\ ui' = [ui EXCEPT !["serial"] =
              IF answered /\ config["serial"] \in listed' THEN config["serial"] ELSE ""]
  /\ UNCHANGED <<stored, running, connected, shown, startup, dirty, editBase, calls,
                 history>>

\* IDC_BTN_CANCEL, Escape and WM_CLOSE: cancelSettings(), then hide.
Cancel_KeepsPreview(readable) ==
  /\ AtRest /\ shown /\ Act /\ Outcome(readable)
  /\ ui' = UiOf(editBase, listed)
  /\ startup' = StartupBox(readable)
  /\ dirty' = FALSE
  /\ shown' = FALSE
  /\ UNCHANGED <<stored, running, connected, listed, editBase, calls, history>>
Cancel(readable) ==
  /\ AtRest /\ shown /\ Act /\ Outcome(readable)
  /\ EndPreview
  /\ ui' = UiOf(editBase, listed)
  /\ startup' = StartupBox(readable)
  /\ dirty' = FALSE
  /\ shown' = FALSE
  /\ UNCHANGED <<stored, config, tray, connected, listed, editBase, calls, history>>

-----------------------------------------------------------------------------
(* commitSettings().                                                       *)

\* saveUiToConfig(): the preset also picks the socket.
FromUi(previous) ==
  [k \in Keys |->
     CASE k = "androidSocket" ->
            IF ui["androidAppPreset"] = 1 THEN "voxmicsource" ELSE "audiosource"
       [] k \in UiKeys -> ui[k]
       [] OTHER -> previous[k]]

\* Apply (enabled while dirty) or OK.
Commit(hide) ==
  /\ AtRest /\ shown /\ Act /\ (hide \/ dirty)
  /\ commit' = [at |-> "save", hide |-> hide, previous |-> config,
                committed |-> FromUi(config)]
  /\ UNCHANGED <<stored, running, connected, window, toggle, history, faults>>

CommitSaves(failed) ==
  /\ commit.at = "save" /\ Outcome(failed = {})
  /\ file' = Saved(file, commit.committed, failed)
  /\ commit' = [commit EXCEPT !.at = IF failed = {} THEN "registry" ELSE "rollback"]
  /\ UNCHANGED <<registry, running, connected, window, toggle, history, ops>>

\* SetVoxMicStartupRegistration(enable): nothing to do, removed, or written.
Registered(enable) ==
  IF ~enable THEN "none" ELSE "here"

\* Registry and memory: the commit has succeeded.
CommitSucceeds ==
  /\ commit.at = "registry"
  /\ registry' = Registered(startup.checked)
  /\ config' = commit.committed
  /\ atoms' = SyncDsp(commit.committed)
  /\ editBase' = commit.committed
  /\ dirty' = FALSE
  /\ shown' = ~commit.hide
  /\ commit' = NoCommit
  /\ partial' = FALSE /\ overtaken' = {}
  /\ UNCHANGED <<file, tray, connected, listed, ui, startup, toggle, ops, faults>>

\* saveStartupRegistrationControl() fails and opens its message box.
RegistryFails ==
  /\ commit.at = "registry" /\ Fault
  /\ commit' = [commit EXCEPT !.at = "box"]
  /\ UNCHANGED <<stored, running, connected, window, toggle, history, ops>>

\* The user closes the box.
BoxCloses(readable) ==
  /\ commit.at = "box" /\ toggle.at = "none" /\ Outcome(readable)
  /\ startup' = StartupBox(readable)
  /\ commit' = [commit EXCEPT !.at = "rollback"]
  /\ UNCHANGED <<stored, running, connected, shown, listed, ui, dirty, editBase, toggle,
                 history, ops>>

\* previous.save(), and the preview goes back to the snapshot.
RollBack_OnlyPreview(failed) ==
  /\ commit.at = "rollback" /\ Outcome(failed = {})
  /\ partial' = (failed # {})
  /\ EndPreview
  /\ commit' = NoCommit
  /\ UNCHANGED <<stored, config, tray, connected, window, toggle, overtaken, ops>>
RollBack(failed) ==
  /\ commit.at = "rollback" /\ Outcome(failed = {})
  /\ file' = Saved(file, commit.previous, failed)
  /\ partial' = (failed # {})
  /\ EndPreview
  /\ commit' = NoCommit
  /\ UNCHANGED <<registry, config, tray, connected, window, toggle, overtaken, ops>>

CommitSteps ==
  \/ \E failed \in Failures : CommitSaves(failed) \/ RollBack(failed)
  \/ CommitSucceeds \/ RegistryFails
  \/ \E readable \in BOOLEAN : BoxCloses(readable)

-----------------------------------------------------------------------------
(* The tray menu (ID_MENU_DEMAND_MODE, ID_MENU_ALWAYS_HOT).                *)

\* The menu opens only while the icon exists; a message box does not stop it.
Toggle(t) ==
  /\ toggle.at = "none" /\ commit.at \in {"none", "box"} /\ tray.added /\ Act
  /\ toggle' = [at |-> "save", previous |-> config]
  /\ atoms' = [atoms EXCEPT ![t] = ~@]
  /\ tray' = [tray EXCEPT !.checks[t] = ~atoms[t]]
  /\ config' = [config EXCEPT ![t] = ~atoms[t]]
  /\ overtaken' = IF commit.at = "box" THEN overtaken \cup {t} ELSE overtaken
  /\ UNCHANGED <<stored, connected, window, commit, partial, faults>>

ToggleSaves(failed) ==
  /\ toggle.at = "save" /\ Outcome(failed = {})
  /\ file' = Saved(file, config, failed)
  /\ IF failed = {}
     THEN /\ toggle' = NoToggle
          /\ partial' = FALSE
          /\ overtaken' = IF commit.at = "box" THEN overtaken ELSE {}
     ELSE /\ toggle' = [toggle EXCEPT !.at = "rollback"]
          /\ UNCHANGED history
  /\ UNCHANGED <<registry, running, connected, window, commit, ops>>

\* rollbackRuntimeConfigToggle(): all of the configuration, then the file.
ToggleRollsBack_LeavesMenu(failed) ==
  /\ toggle.at = "rollback" /\ Outcome(failed = {})
  /\ config' = toggle.previous
  /\ atoms' = [k \in DspKeys \cup Toggles |->
                 IF k \in Toggles THEN toggle.previous[k] ELSE atoms[k]]
  /\ file' = Saved(file, toggle.previous, failed)
  /\ partial' = (failed # {})
  /\ toggle' = NoToggle
  /\ UNCHANGED <<registry, tray, connected, window, commit, overtaken, ops>>
ToggleRollsBack(failed) ==
  /\ toggle.at = "rollback" /\ Outcome(failed = {})
  /\ config' = toggle.previous
  /\ atoms' = [k \in DspKeys \cup Toggles |->
                 IF k \in Toggles THEN toggle.previous[k] ELSE atoms[k]]
  /\ tray' = [tray EXCEPT !.checks = [t \in Toggles |-> toggle.previous[t]]]
  /\ file' = Saved(file, toggle.previous, failed)
  /\ partial' = (failed # {})
  /\ toggle' = NoToggle
  /\ UNCHANGED <<registry, connected, window, commit, overtaken, ops>>

\* handleWindowMessage(TaskbarCreated): Explorer has restarted.
TaskbarCreated(added) ==
  /\ toggle.at = "none" /\ commit.at \in {"none", "box"} /\ Act /\ Outcome(added)
  /\ tray' = [tray EXCEPT !.added = added]
  /\ UNCHANGED <<stored, config, atoms, connected, window, calls, history>>

TraySteps ==
  \/ \E t \in Toggles : Toggle(t)
  \/ \E failed \in Failures : ToggleSaves(failed) \/ ToggleRollsBack(failed)
  \/ \E added \in BOOLEAN : TaskbarCreated(added)

-----------------------------------------------------------------------------
(* Devices come and go; the process ends, in order or not, and starts.     *)

DevicesChange(devices) ==
  /\ AtRest /\ Act
  /\ connected' = devices
  /\ UNCHANGED <<stored, running, window, calls, history, faults>>

\* The configuration a save() in progress is writing.
Writing ==
  CASE toggle.at = "save" -> <<config>>
    [] toggle.at = "rollback" -> <<toggle.previous>>
    [] commit.at = "save" -> <<commit.committed>>
    [] commit.at = "rollback" -> <<commit.previous>>
    [] OTHER -> <<>>

Restart(added, answered, readable) ==
  /\ IF Writing = <<>> THEN UNCHANGED file
     ELSE \E n \in 0..Len(SaveOrder) : file' = Cut(file, Writing[1], n)
  /\ Act /\ Fault
  /\ Started(file', added, answered, readable)
  /\ UNCHANGED <<registry, connected>>

Restarts ==
  \E added, answered, readable \in BOOLEAN : Restart(added, answered, readable)

WindowSteps ==
  \/ \E ok \in BOOLEAN : Show(ok) \/ Refresh(ok) \/ Cancel(ok) \/ Commit(ok)
  \/ \E k \in UiKeys : \E v \in Values(k) : Edit(k, v)
  \/ EditStartup \/ ResetToDefaults

Next ==
  \/ WindowSteps \/ CommitSteps \/ TraySteps \/ Restarts
  \/ \E devices \in SUBSET Phones : DevicesChange(devices)

Spec == Init /\ [][Next]_vars

-----------------------------------------------------------------------------
(* Properties.                                                             *)

IsSettings(c) == DOMAIN c = Keys /\ \A k \in Keys : c[k] \in Values(k)

TypeOK ==
  /\ DOMAIN file = Keys /\ \A k \in Keys : file[k] \in Values(k) \/ file[k] = Missing
  /\ IsSettings(config) /\ IsSettings(editBase)
  /\ DOMAIN atoms = DspKeys \cup Toggles /\ \A t \in Toggles : atoms[t] \in BOOLEAN
  /\ DOMAIN tray = {"added", "onTime", "checks"} /\ DOMAIN tray.checks = Toggles
  /\ DOMAIN ui = UiKeys /\ \A k \in UiKeys : ui[k] \in Values(k)
  /\ DOMAIN startup = {"checked", "readable"}
  /\ startup.checked \in BOOLEAN /\ startup.readable \in BOOLEAN
  /\ DOMAIN commit = {"at", "hide", "previous", "committed"}
  /\ commit.at \in {"none", "save", "registry", "box", "rollback"}
  /\ IsSettings(commit.previous) /\ IsSettings(commit.committed)
  /\ DOMAIN toggle = {"at", "previous"} /\ toggle.at \in {"none", "save", "rollback"}
  /\ IsSettings(toggle.previous)
  /\ shown \in BOOLEAN /\ dirty \in BOOLEAN /\ partial \in BOOLEAN
  /\ overtaken \subseteq Toggles

\* At rest, starting again would give the settings the program is using,
\* after any sequence of commits, menu toggles, failed writes and rollbacks
\* (config.cpp, commitSettings, rollbackRuntimeConfigToggle).  The code
\* itself gives up in one case, a rollback that cannot write all keys, and
\* says so in its message; the other exception is a toggle made in the
\* message box of a failing commit, which the commit's rollback overwrites.
SavedIsConfig ==
  AtRest /\ ~partial => \A k \in Keys \ overtaken : Load(file)[k] = config[k]

\* config.ini is written in place, key by key.  A crash in the middle of a
\* save still loses no setting: the next start finds each key as it was
\* before or after.  A file without all keys has no such protection: cut
\* before DenoiseBackend it is taken for a file of an older version.
InPlay ==
  {config} \cup (IF commit.at = "none" THEN {} ELSE {commit.previous, commit.committed})
    \cup (IF toggle.at = "none" THEN {} ELSE {toggle.previous})

CrashKeepsOldOrNew ==
  [][ (Restarts /\ ~partial /\ (Writing = <<>> \/ \A k \in Keys : file[k] # Missing)) =>
        \A k \in Keys \ overtaken : \E c \in InPlay : config'[k] = c[k] ]_vars

\* What the microphone sounds like while the window is closed, or open with
\* nothing to apply, is what is saved: every way out of an edit (Cancel, a
\* failed commit, OK) ends the live preview.
PreviewGone ==
  AtRest /\ (~shown \/ ~dirty) => \A k \in DspKeys : atoms[k] = config[k]

\* The checks of the tray menu, the flags the bridge reads and the
\* configuration agree, also after a toggle that could not be saved.  They
\* need not if the icon was first added late: create() builds the menu,
\* but setDemandMode() and setAlwaysHot() skip it without an icon.
TrayTruthful ==
  AtRest /\ tray.added /\ tray.onTime =>
    \A t \in Toggles : tray.checks[t] = config[t] /\ atoms[t] = config[t]

\* The device list has no entry for the configured device: adb did not name it
\* when the list was filled, or gave no answer.  (A configured "(ADB not
\* available)" is an entry then, which a Refresh does not select, though.)
Unlisted == config["serial"] \notin listed \cap Phones

\* While Apply is disabled the window shows what is in use: nothing that
\* changes a control behind the user's back (Refresh, the tray menu, a
\* commit) leaves it different from the configuration without the star.  A
\* configured device that is not listed is the exception: the window may show
\* automatic detection in its place, which the next commit saves, but it never
\* shows another device.
CleanMeansSaved ==
  AtRest /\ shown /\ ~dirty =>
    /\ \A k \in UiKeys \ {"serial"} : ui[k] = config[k]
    /\ ui["serial"] = config["serial"] \/ (Unlisted /\ ui["serial"] = "")
    /\ startup.readable => startup.checked = (registry # "none")
=============================================================================
