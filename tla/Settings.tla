------------------------------ MODULE Settings ------------------------------
(* The dashboard's settings: rows that override the config file, the config *)
(* the services of the running process read, and thub-admin, which deletes  *)
(* rows behind the back of that process.                                    *)
EXTENDS Naturals

CONSTANTS
  NowKeys,      \* settings that apply at once; "default" and "max" timeout are two
  RestartKeys,  \* settings that apply after a restart
  EnvKeys,      \* settings fixed by the environment
  SettingValues,
  Obsolete,     \* a value the next version no longer accepts
  Unset

Keys == NowKeys \cup RestartKeys

ASSUME SettingsAssumption == /\ {"default", "max"} \subseteq NowKeys
                             /\ EnvKeys \subseteq Keys
                             /\ SettingValues \subseteq Nat
                             /\ Obsolete \in SettingValues
                             /\ Unset \notin SettingValues

VARIABLES
  settingRows,  \* table settings
  fileValues,   \* what the config file and the environment said at startup
  config,       \* what the services read; its restart keys are `running`
  upgraded,     \* this version does not accept Obsolete
  cliReset,     \* history: keys whose row thub-admin deleted since
  outside       \* history: the values changed other than on the dashboard

settingVars == <<settingRows, fileValues, config, upgraded, cliReset, outside>>

SettingsTypeOK ==
  /\ settingRows \in [Keys -> SettingValues \cup {Unset}]
  /\ fileValues \in [Keys -> SettingValues]
  /\ config \in [Keys -> SettingValues]
  /\ upgraded \in BOOLEAN
  /\ cliReset \subseteq Keys
  /\ outside \in BOOLEAN

Accepted(v) == upgraded => v # Obsolete

\* Mutant of Desired: the file wins over the dashboard.
DesiredFileFirst(r) == [k \in Keys |-> IF k \in EnvKeys THEN config[k] ELSE fileValues[k]]

\* What the rows r resolve to: environment, then dashboard, then file.
Desired(r) == [k \in Keys |-> IF k \in EnvKeys THEN config[k]
                              ELSE IF r[k] # Unset THEN r[k]
                              ELSE fileValues[k]]

\* Mutant of After: a reset is not looked at by the checks.
AfterChanges(changes, reset) ==
  [k \in Keys |-> IF k \in DOMAIN changes \ (EnvKeys \cup reset) THEN changes[k]
                  ELSE Desired(settingRows)[k]]

\* What the settings will be after a save.
After(changes, reset) ==
  [k \in Keys |-> IF k \in EnvKeys THEN Desired(settingRows)[k]
                  ELSE IF k \in reset THEN fileValues[k]
                  ELSE IF k \in DOMAIN changes THEN changes[k]
                  ELSE Desired(settingRows)[k]]

\* POST /admin/settings: all of it or nothing.  A row is written only for a
\* setting that changes; one that is reset loses its row.
Save(changes, reset) ==
  LET before == Desired(settingRows)
      after  == After(changes, reset)
  IN /\ \A k \in DOMAIN changes \ (EnvKeys \cup reset) : Accepted(changes[k])
     /\ after["default"] <= after["max"]
     /\ settingRows' = [k \in Keys |->
          IF k \in EnvKeys THEN settingRows[k]
          ELSE IF k \in reset THEN Unset
          ELSE IF k \in DOMAIN changes /\ changes[k] # before[k] THEN changes[k]
          ELSE settingRows[k]]
     /\ config' = [k \in Keys |-> IF k \in NowKeys /\ after[k] # before[k]
                                  THEN after[k] ELSE config[k]]
     /\ cliReset' = {k \in cliReset : after[k] = before[k]}
     /\ UNCHANGED <<fileValues, upgraded, outside>>

\* thub-admin settings reset [keys], in its own process.
CliReset(keys) ==
  /\ settingRows' = [k \in Keys |-> IF k \in keys THEN Unset ELSE settingRows[k]]
  /\ cliReset' = cliReset \cup {k \in keys : settingRows[k] # Unset}
  /\ outside' = TRUE
  /\ UNCHANGED <<fileValues, config, upgraded>>

\* A start, perhaps of the next version or with another config file: the
\* rows this version accepts go into the config.
StartWith(file, newer) ==
  /\ fileValues' = file
  /\ upgraded' = newer
  /\ config' = [k \in Keys |->
       IF k \in EnvKeys \/ settingRows[k] = Unset \/ (newer /\ settingRows[k] = Obsolete)
       THEN file[k] ELSE settingRows[k]]
  /\ cliReset' = {}
  /\ outside' = (outside \/ file # fileValues \/ newer # upgraded)
  /\ UNCHANGED settingRows

SettingsInit ==
  /\ settingRows = [k \in Keys |-> Unset]
  /\ fileValues \in {[k \in Keys |-> v] : v \in SettingValues \ {Obsolete}}
  /\ config = fileValues
  /\ upgraded = FALSE /\ cliReset = {} /\ outside = FALSE

SettingsNext ==
  \/ \E reset \in SUBSET (Keys \ EnvKeys) :
       \E changes \in [(Keys \ EnvKeys) \ reset -> SettingValues] : Save(changes, reset)
  \/ \E keys \in SUBSET Keys : CliReset(keys)
  \/ \E k \in Keys, v \in SettingValues \ {Obsolete}, newer \in {upgraded, TRUE} :
       StartWith([fileValues EXCEPT ![k] = v], newer)

SettingsSpec == SettingsInit /\ [][SettingsNext]_settingVars

-----------------------------------------------------------------------------

\* services/settings.js, list.
PendingRestart(k) == k \in RestartKeys /\ Desired(settingRows)[k] # config[k]

\* The settings page tells the truth: a value it shows is the one the
\* services read, or it says that a restart is needed.  Two exceptions: rows
\* deleted by thub-admin, and rows a new version no longer accepts.
PageTellsTheTruth ==
  \A k \in Keys \ cliReset :
    \/ settingRows[k] # Unset /\ ~Accepted(settingRows[k])
    \/ config[k] = Desired(settingRows)[k]
    \/ PendingRestart(k)

\* The default job timeout is never above the maximum, whatever is saved,
\* reset and restarted on the dashboard.
TimeoutsInOrder == ~outside => config["default"] <= config["max"]
=============================================================================
