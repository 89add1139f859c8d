--------------------------- MODULE SettingsProofs ---------------------------
(* Proofs about Settings, for any settings and values.                      *)
(*                                                                          *)
(* A save leaves rows that resolve to exactly what its checks looked at     *)
(* (SavedIsDesired): so the order of the timeouts, checked on the result of *)
(* the save, is the order of what the services read, and of what the page   *)
(* shows.                                                                   *)
(*                                                                          *)
(* The second part is about one setting, the heartbeat interval, and the    *)
(* grace after it is lowered: what a runner was told is bounded by what the *)
(* sweep judges it by (Told), for any intervals and any limit.              *)
(*                                                                          *)
(* The third part is about the request limit, for any callers and limits:   *)
(* the table is in order of use (InOrder), so that a full one has a first   *)
(* key to take out, and a tick adds the same to a bucket that is filled     *)
(* when it is used and to one that is filled all the time (LazyIsExact).    *)
EXTENDS Settings, HeartbeatGrace, RateLimit, FiniteSetTheorems,
        WellFoundedInduction, TLAPS

\* The environment is read at startup only, and the file always is valid.
FileInv == /\ \A k \in EnvKeys : config[k] = fileValues[k]
           /\ \A k \in Keys : fileValues[k] # Obsolete

\* A setting that applies at once is read as it resolves, unless its row was
\* deleted from outside or is no longer accepted.
NowInv == \A k \in NowKeys \ cliReset :
            \/ settingRows[k] # Unset /\ ~Accepted(settingRows[k])
            \/ config[k] = Desired(settingRows)[k]

\* While all is done on the dashboard there is no such exception.
InsideInv == ~outside => ~upgraded /\ cliReset = {}

\* The inductive invariant.
SettingsInv == SettingsTypeOK /\ FileInv /\ NowInv /\ InsideInv /\ TimeoutsInOrder

\* A batch as the settings page sends it.
Batch(changes, reset) == /\ reset \subseteq Keys \ EnvKeys
                         /\ changes \in [(Keys \ EnvKeys) \ reset -> SettingValues]

\* What the rows resolve to are values.
LEMMA DesiredType ==
  ASSUME SettingsTypeOK
  PROVE  Desired(settingRows) \in [Keys -> SettingValues]
BY DEF SettingsTypeOK, Desired

LEMMA AfterType ==
  ASSUME SettingsTypeOK, NEW changes, NEW reset, Batch(changes, reset)
  PROVE  After(changes, reset) \in [Keys -> SettingValues]
BY DesiredType DEF SettingsTypeOK, After, Batch

\* SettingsInv holds at the start: there is no row.
LEMMA SettingsInvInit == SettingsInit => SettingsInv
<1> SUFFICES ASSUME SettingsInit PROVE SettingsInv
  OBVIOUS
<1>1. PICK v \in SettingValues \ {Obsolete} : fileValues = [k \in Keys |-> v]
  BY DEF SettingsInit
<1>2. /\ config = fileValues /\ settingRows = [k \in Keys |-> Unset]
      /\ ~upgraded /\ cliReset = {} /\ ~outside
  BY DEF SettingsInit
<1>3. SettingsTypeOK
  BY <1>1, <1>2 DEF SettingsTypeOK, SettingsInit
<1>4. FileInv
  BY <1>1, <1>2, SettingsAssumption DEF FileInv
<1>5. NowInv
  BY <1>1, <1>2 DEF NowInv, Desired, Keys
<1>6. TimeoutsInOrder
  BY <1>1, <1>2, SettingsAssumption DEF TimeoutsInOrder, Keys
<1> QED
  BY <1>2, <1>3, <1>4, <1>5, <1>6 DEF SettingsInv, InsideInv

-----------------------------------------------------------------------------

\* What a save writes, setting by setting.
LEMMA SaveWrites ==
  ASSUME SettingsInv, NEW changes, NEW reset, Batch(changes, reset), Save(changes, reset),
         NEW k \in Keys
  PROVE  LET before == Desired(settingRows)[k]
             after  == After(changes, reset)[k]
         IN /\ settingRows'[k] = IF k \in EnvKeys THEN settingRows[k]
                                 ELSE IF k \in reset THEN Unset
                                 ELSE IF k \in DOMAIN changes /\ changes[k] # before
                                      THEN changes[k] ELSE settingRows[k]
            /\ config'[k] = IF k \in NowKeys /\ after # before THEN after ELSE config[k]
            /\ fileValues' = fileValues
BY DEF Save

\* The rows a save leaves resolve to what it checked.
LEMMA SavedIsDesired ==
  ASSUME SettingsInv, NEW changes, NEW reset, Batch(changes, reset), Save(changes, reset),
         NEW k \in Keys
  PROVE  Desired(settingRows)'[k] = After(changes, reset)[k]
<1>1. Desired(settingRows)'[k] = IF k \in EnvKeys THEN config'[k]
                                 ELSE IF settingRows'[k] # Unset THEN settingRows'[k]
                                 ELSE fileValues'[k]
  BY DEF Desired
<1>2. Desired(settingRows)[k] = IF k \in EnvKeys THEN config[k]
                                ELSE IF settingRows[k] # Unset THEN settingRows[k]
                                ELSE fileValues[k]
  BY DEF Desired
<1>3. After(changes, reset)[k] = IF k \in EnvKeys THEN Desired(settingRows)[k]
                                 ELSE IF k \in reset THEN fileValues[k]
                                 ELSE IF k \in DOMAIN changes THEN changes[k]
                                 ELSE Desired(settingRows)[k]
  BY DEF After
<1>4. k \in DOMAIN changes => changes[k] # Unset
  BY SettingsAssumption DEF Batch
<1> QED
  BY <1>1, <1>2, <1>3, <1>4, SaveWrites

\* A save keeps SettingsInv.
LEMMA SaveKeeps ==
  ASSUME SettingsInv, NEW changes, NEW reset, Batch(changes, reset), Save(changes, reset)
  PROVE  SettingsInv'
<1> DEFINE before == Desired(settingRows)
           after  == After(changes, reset)
<1>1. /\ fileValues' = fileValues /\ upgraded' = upgraded /\ outside' = outside
      /\ cliReset' = {k \in cliReset : after[k] = before[k]}
      /\ after["default"] <= after["max"]
  BY DEF Save
<1>2. SettingsTypeOK'
  <2>1. after \in [Keys -> SettingValues]
    BY AfterType DEF SettingsInv
  <2>2. settingRows' \in [Keys -> SettingValues \cup {Unset}]
    BY DEF Save, SettingsInv, SettingsTypeOK, Batch
  <2>3. config' \in [Keys -> SettingValues]
    BY <2>1 DEF Save, SettingsInv, SettingsTypeOK
  <2> QED
    BY <1>1, <2>2, <2>3 DEF SettingsInv, SettingsTypeOK
<1>3. FileInv'
  <2>1. ASSUME NEW k \in EnvKeys PROVE config'[k] = config[k]
    BY SaveWrites, SettingsAssumption DEF After
  <2> QED
    BY <1>1, <2>1 DEF SettingsInv, FileInv
<1>4. NowInv'
  <2> SUFFICES ASSUME NEW k \in NowKeys, k \notin cliReset'
               PROVE  \/ settingRows'[k] # Unset /\ ~Accepted(settingRows[k])'
                      \/ config'[k] = Desired(settingRows)'[k]
    BY DEF NowInv
  <2>1. k \in Keys
    BY DEF Keys
  <2>2. CASE after[k] # before[k]
    BY <2>1, <2>2, SaveWrites, SavedIsDesired
  <2>3. CASE after[k] = before[k]
    <3>1. config'[k] = config[k] /\ Desired(settingRows)'[k] = before[k]
      BY <2>1, <2>3, SaveWrites, SavedIsDesired
    <3>2. k \notin cliReset
      BY <1>1, <2>3 DEF SettingsInv, SettingsTypeOK
    <3>3. CASE config[k] = before[k]
      BY <3>1, <3>3
    <3>4. CASE settingRows[k] # Unset /\ ~Accepted(settingRows[k])
      <4>1. settingRows[k] = Obsolete
        BY <3>4 DEF Accepted
      <4>2. k \notin EnvKeys => before[k] = Obsolete
        BY <2>1, <3>4, <4>1 DEF Desired
      <4>3. ~(k \notin EnvKeys /\ k \in reset)
        BY <2>1, <2>3, <4>2 DEF After, SettingsInv, FileInv
      <4>4. k \notin EnvKeys /\ k \in DOMAIN changes => changes[k] = before[k]
        BY <2>1, <2>3, <4>3 DEF After
      <4>5. settingRows'[k] = settingRows[k]
        BY <2>1, <4>3, <4>4, SaveWrites
      <4> QED
        BY <1>1, <3>4, <4>5 DEF Accepted
    <3> QED
      BY <3>2, <3>3, <3>4 DEF SettingsInv, NowInv
  <2> QED
    BY <2>2, <2>3
<1>5. InsideInv'
  BY <1>1 DEF SettingsInv, InsideInv
<1>6. TimeoutsInOrder'
  <2> SUFFICES ASSUME ~outside PROVE config'["default"] <= config'["max"]
    BY <1>1 DEF TimeoutsInOrder
  <2>1. ASSUME NEW k \in {"default", "max"} PROVE config'[k] = after[k]
    <3>1. k \in NowKeys /\ k \in Keys /\ k \notin cliReset /\ ~upgraded
      BY SettingsAssumption DEF Keys, SettingsInv, InsideInv
    <3>2. config[k] = before[k]
      BY <3>1 DEF SettingsInv, NowInv, Accepted
    <3> QED
      BY <3>1, <3>2, SaveWrites
  <2> QED
    BY <1>1, <2>1
<1> QED
  BY <1>2, <1>3, <1>4, <1>5, <1>6 DEF SettingsInv

\* thub-admin deletes rows.
LEMMA CliResetKeeps ==
  ASSUME SettingsInv, NEW keys \in SUBSET Keys, CliReset(keys)
  PROVE  SettingsInv'
<1>1. /\ fileValues' = fileValues /\ upgraded' = upgraded /\ config' = config /\ outside'
      /\ cliReset' = cliReset \cup {k \in keys : settingRows[k] # Unset}
      /\ settingRows' = [k \in Keys |-> IF k \in keys THEN Unset ELSE settingRows[k]]
  BY DEF CliReset
<1>2. SettingsTypeOK'
  BY <1>1 DEF SettingsInv, SettingsTypeOK, CliReset
<1>3. NowInv'
  <2> SUFFICES ASSUME NEW k \in NowKeys, k \notin cliReset'
               PROVE  \/ settingRows'[k] # Unset /\ ~Accepted(settingRows[k])'
                      \/ config'[k] = Desired(settingRows)'[k]
    BY DEF NowInv
  <2>1. k \in Keys /\ k \notin cliReset /\ settingRows'[k] = settingRows[k]
    BY <1>1 DEF Keys
  <2>2. Desired(settingRows)'[k] = Desired(settingRows)[k]
    BY <1>1, <2>1 DEF Desired
  <2> QED
    BY <1>1, <2>1, <2>2 DEF SettingsInv, NowInv, Accepted
<1> QED
  BY <1>1, <1>2, <1>3 DEF SettingsInv, FileInv, InsideInv, TimeoutsInOrder

\* The Coordinator starts.
LEMMA StartKeeps ==
  ASSUME SettingsInv, NEW file \in [Keys -> SettingValues], NEW newer \in {upgraded, TRUE},
         \A k \in Keys : file[k] # Obsolete, StartWith(file, newer)
  PROVE  SettingsInv'
<1>1. /\ fileValues' = file /\ upgraded' = newer /\ settingRows' = settingRows
      /\ cliReset' = {} /\ outside' = (outside \/ file # fileValues \/ newer # upgraded)
  BY DEF StartWith
<1>2. ASSUME NEW k \in Keys
      PROVE  config'[k] = IF k \in EnvKeys \/ settingRows[k] = Unset
                             \/ (newer /\ settingRows[k] = Obsolete)
                          THEN file[k] ELSE settingRows[k]
  BY DEF StartWith
<1>3. SettingsTypeOK'
  BY <1>1 DEF StartWith, SettingsInv, SettingsTypeOK
<1>4. FileInv'
  BY <1>1, <1>2, SettingsAssumption DEF FileInv
<1>5. NowInv'
  <2> SUFFICES ASSUME NEW k \in NowKeys
               PROVE  \/ settingRows'[k] # Unset /\ ~Accepted(settingRows[k])'
                      \/ config'[k] = Desired(settingRows)'[k]
    BY DEF NowInv
  <2>1. k \in Keys
    BY DEF Keys
  <2> QED
    BY <1>1, <1>2, <2>1 DEF Desired, Accepted
<1>6. InsideInv'
  <2> SUFFICES ASSUME ~outside' PROVE ~upgraded' /\ cliReset' = {}
    BY DEF InsideInv
  <2>1. ~outside /\ newer = upgraded
    BY <1>1
  <2>2. ~upgraded
    BY <2>1 DEF SettingsInv, InsideInv
  <2> QED
    BY <1>1, <2>1, <2>2
<1>7. TimeoutsInOrder'
  <2> SUFFICES ASSUME ~outside' PROVE config'["default"] <= config'["max"]
    BY DEF TimeoutsInOrder
  <2>1. ~outside /\ file = fileValues /\ newer = upgraded /\ ~upgraded
    BY <1>1 DEF SettingsInv, InsideInv
  <2>2. ASSUME NEW k \in {"default", "max"} PROVE config'[k] = config[k]
    <3>1. k \in NowKeys /\ k \in Keys /\ k \notin cliReset
      BY <2>1, SettingsAssumption DEF Keys, SettingsInv, InsideInv
    <3>2. config[k] = Desired(settingRows)[k]
      BY <2>1, <3>1 DEF SettingsInv, NowInv, Accepted
    <3>3. k \in EnvKeys => config[k] = file[k]
      BY <2>1 DEF SettingsInv, FileInv
    <3> QED
      BY <1>2, <2>1, <3>1, <3>2, <3>3 DEF Desired
  <2> QED
    BY <2>1, <2>2 DEF SettingsInv, TimeoutsInOrder
<1> QED
  BY <1>3, <1>4, <1>5, <1>6, <1>7 DEF SettingsInv

-----------------------------------------------------------------------------

LEMMA SettingsStep == ASSUME SettingsInv, [SettingsNext]_settingVars PROVE SettingsInv'
<1>1. CASE UNCHANGED settingVars
  BY <1>1 DEF settingVars, SettingsInv, SettingsTypeOK, FileInv, NowInv, InsideInv,
              TimeoutsInOrder, Accepted, Desired
<1>2. CASE SettingsNext
  <2>1. CASE \E reset \in SUBSET (Keys \ EnvKeys) :
               \E changes \in [(Keys \ EnvKeys) \ reset -> SettingValues] : Save(changes, reset)
    BY <1>2, <2>1, SaveKeeps DEF Batch
  <2>2. CASE \E keys \in SUBSET Keys : CliReset(keys)
    BY <1>2, <2>2, CliResetKeeps
  <2>3. CASE \E k \in Keys, v \in SettingValues \ {Obsolete}, newer \in {upgraded, TRUE} :
               StartWith([fileValues EXCEPT ![k] = v], newer)
    <3> PICK k \in Keys, v \in SettingValues \ {Obsolete}, newer \in {upgraded, TRUE} :
          StartWith([fileValues EXCEPT ![k] = v], newer)
      BY <2>3
    <3>1. /\ [fileValues EXCEPT ![k] = v] \in [Keys -> SettingValues]
          /\ \A l \in Keys : [fileValues EXCEPT ![k] = v][l] # Obsolete
      BY <1>2 DEF SettingsInv, SettingsTypeOK, FileInv
    <3> QED
      BY <1>2, <3>1, StartKeeps
  <2> QED
    BY <1>2, <2>1, <2>2, <2>3 DEF SettingsNext
<1> QED
  BY <1>1, <1>2

\* SettingsInv holds in every reachable state.
THEOREM SettingsInvariant == SettingsSpec => []SettingsInv
BY SettingsInvInit, SettingsStep, PTL DEF SettingsSpec

\* Type correctness.
THEOREM SettingsTypeCorrect == SettingsSpec => []SettingsTypeOK
<1>1. SettingsInv => SettingsTypeOK
  BY DEF SettingsInv
<1> QED
  BY <1>1, SettingsInvariant, PTL

\* The default timeout is never above the maximum, whatever is saved and
\* reset on the dashboard.
THEOREM OrderedTimeouts == SettingsSpec => []TimeoutsInOrder
<1>1. SettingsInv => TimeoutsInOrder
  BY DEF SettingsInv
<1> QED
  BY <1>1, SettingsInvariant, PTL

\* The settings page shows what the services read, or that a restart is
\* needed.
THEOREM TruthfulPage == SettingsSpec => []PageTellsTheTruth
<1>1. SettingsInv => PageTellsTheTruth
  BY DEF SettingsInv, NowInv, PageTellsTheTruth, PendingRestart, Keys
<1> QED
  BY <1>1, SettingsInvariant, PTL

-----------------------------------------------------------------------------
(* HeartbeatGrace *)

LEMMA LongestIntervalIs == /\ Longest \in Intervals
                   /\ \A i \in Intervals : i <= Longest
BY GraceAssumption DEF Longest

\* The product of the grace, taken apart.
LEMMA Times ==
  ASSUME NEW n \in Nat
  PROVE  /\ MissedLimit * n \in Nat /\ (MissedLimit + 1) * n = MissedLimit * n + n
         /\ MissedLimit * n >= n + n
BY GraceAssumption, SMTT(30)

LEMMA TimesMonotone ==
  ASSUME NEW n \in Nat, NEW m \in Nat, n <= m
  PROVE  (MissedLimit + 1) * n <= (MissedLimit + 1) * m
BY GraceAssumption, SMTT(30)

-----------------------------------------------------------------------------

\* What the runner was told is not more than what it is judged by, until it
\* has had the time to hear of a lower interval.
Told == \/ told <= interval
        \/ interval < seenInterval /\ told <= seenInterval
        \/ /\ interval = seenInterval
           /\ told <= graceInterval
           /\ graceLeft + silent >= (MissedLimit + 1) * graceInterval

\* The inductive invariant.
GraceInv == /\ GraceTypeOK
            /\ silent <= told
            /\ ~unsettled => Told

\* The types, as numbers.
LEMMA GraceNumbers ==
  ASSUME GraceTypeOK
  PROVE  /\ interval \in Nat \ {0} /\ seenInterval \in Nat \ {0} /\ told \in Nat \ {0}
         /\ graceInterval \in Nat /\ graceLeft \in Nat /\ silent \in Nat
         /\ interval <= Longest /\ seenInterval <= Longest /\ told <= Longest
         /\ Longest \in Nat
BY GraceAssumption, LongestIntervalIs DEF GraceTypeOK

LEMMA GraceInvInit == GraceInit => GraceInv
<1> SUFFICES ASSUME GraceInit PROVE GraceInv
  OBVIOUS
<1>1. (MissedLimit + 1) * Longest \in Nat /\ Longest \in Nat
  BY LongestIntervalIs, Times, GraceAssumption
<1>2. /\ interval \in Intervals /\ seenInterval = interval /\ told = interval
      /\ graceInterval = 0 /\ graceLeft = 0 /\ silent = 0 /\ swept = FALSE
      /\ unsettled = FALSE
  BY DEF GraceInit
<1>3. GraceTypeOK
  <2>1. graceLeft \in 0..((MissedLimit + 1) * Longest) /\ silent \in 0..Longest
    BY <1>1, <1>2
  <2> QED
    BY <1>2, <2>1 DEF GraceTypeOK
<1>4. silent <= told /\ told <= interval
  BY <1>2, GraceAssumption
<1> QED
  BY <1>3, <1>4 DEF GraceInv, Told

LEMMA ChangeIntervalKeeps ==
  ASSUME GraceInv, NEW i \in Intervals, ChangeInterval(i)
  PROVE  GraceInv'
<1>1. GraceTypeOK'
  BY DEF GraceInv, GraceTypeOK, ChangeInterval
<1>2. silent' <= told'
  BY DEF GraceInv, ChangeInterval
<1>3. ASSUME ~unsettled' PROVE Told'
  <2>1. ~unsettled /\ Settled /\ Told
    BY <1>3 DEF ChangeInterval, GraceInv
  <2>2. told <= interval
    BY <2>1, GraceNumbers, Times DEF GraceInv, Told, Settled
  <2>3. i \in Nat
    BY GraceAssumption
  <2> QED
    BY <2>1, <2>2, <2>3, GraceNumbers DEF GraceInv, Told, Settled, ChangeInterval
<1> QED
  BY <1>1, <1>2, <1>3 DEF GraceInv

LEMMA SweepKeeps ==
  ASSUME GraceInv, Sweep
  PROVE  GraceInv'
<1>1. GraceAfter \in 0..((MissedLimit + 1) * Longest)
  <2>1. /\ (MissedLimit + 1) * seenInterval <= (MissedLimit + 1) * Longest
        /\ (MissedLimit + 1) * seenInterval \in Nat /\ (MissedLimit + 1) * Longest \in Nat
    <3>1. seenInterval \in Nat /\ Longest \in Nat /\ seenInterval <= Longest
      BY GraceNumbers DEF GraceInv
    <3>2. (MissedLimit + 1) * seenInterval <= (MissedLimit + 1) * Longest
      BY <3>1, TimesMonotone
    <3> QED
      BY <3>1, <3>2, Times, GraceAssumption
  <2> QED
    BY <2>1 DEF GraceAfter, GraceInv, GraceTypeOK
<1>2. GraceTypeOK'
  BY <1>1 DEF GraceInv, GraceTypeOK, Sweep
<1>3. ASSUME ~unsettled' PROVE Told'
  <2>1. ~unsettled /\ Told
    BY <1>3 DEF Sweep, GraceInv
  <2>2. CASE interval < seenInterval
    <3>1. /\ graceLeft' = (MissedLimit + 1) * seenInterval /\ graceInterval' = seenInterval
          /\ interval' = seenInterval' /\ told' = told /\ silent' = silent /\ interval' = interval
      BY <2>2 DEF Sweep, GraceAfter
    <3>2. told <= interval \/ told <= seenInterval
      BY <2>1, <2>2, GraceNumbers DEF GraceInv, Told
    <3>3. (MissedLimit + 1) * seenInterval \in Nat /\ silent \in Nat
      BY GraceNumbers, Times, GraceAssumption DEF GraceInv
    <3>4. graceLeft' + silent' >= (MissedLimit + 1) * graceInterval'
      BY <3>1, <3>3
    <3> QED
      BY <3>1, <3>2, <3>4 DEF Told
  <2>3. CASE ~(interval < seenInterval)
    BY <2>1, <2>3 DEF Sweep, GraceAfter, Told
  <2> QED
    BY <2>2, <2>3
<1> QED
  BY <1>2, <1>3 DEF GraceInv, Sweep

LEMMA BeatKeeps ==
  ASSUME GraceInv, Beat
  PROVE  GraceInv'
BY GraceNumbers DEF GraceInv, GraceTypeOK, Beat, Told

LEMMA TickKeeps ==
  ASSUME GraceInv, Tick
  PROVE  GraceInv'
<1>1. /\ silent \in Nat /\ told \in Nat /\ graceLeft \in Nat /\ silent < told
      /\ told <= Longest /\ Longest \in Nat /\ graceInterval \in Nat
      /\ told # 0
  BY GraceNumbers DEF GraceInv, Tick
<1>2. silent' \in 0..Longest /\ silent' <= told'
  BY <1>1 DEF Tick
<1>3. GraceTypeOK'
  <2>1. (MissedLimit + 1) * Longest \in Nat
    BY <1>1, Times, GraceAssumption
  <2>2. graceLeft' \in 0..((MissedLimit + 1) * Longest)
    BY <1>1, <2>1 DEF Tick, GraceInv, GraceTypeOK
  <2> QED
    BY <1>2, <2>2 DEF Tick, GraceInv, GraceTypeOK
<1>4. ASSUME ~unsettled' PROVE Told'
  <2>1. Told
    BY <1>4 DEF Tick, GraceInv
  <2>2. CASE graceLeft + silent >= (MissedLimit + 1) * graceInterval /\ told <= graceInterval
    <3>1. (MissedLimit + 1) * graceInterval \in Nat
          /\ (MissedLimit + 1) * graceInterval > graceInterval
      BY <1>1, <2>2, Times, GraceAssumption
    <3>2. graceLeft # 0
      BY <1>1, <2>2, <3>1
    <3>3. graceLeft' + silent' = graceLeft + silent
      BY <1>1, <3>2 DEF Tick
    <3> QED
      BY <2>1, <2>2, <3>3 DEF Tick, Told
  <2> QED
    BY <2>1, <2>2 DEF Tick, Told
<1> QED
  BY <1>2, <1>3, <1>4 DEF GraceInv

\* A restart with no lower interval on its way changes nothing for the runner.
LEMMA RestartSweeperKeeps ==
  ASSUME GraceInv, RestartSweeper
  PROVE  GraceInv'
<1>1. GraceTypeOK'
  <2>1. 0 \in 0..((MissedLimit + 1) * Longest)
    BY GraceNumbers, Times, GraceAssumption DEF GraceInv
  <2> QED
    BY <2>1 DEF GraceInv, GraceTypeOK, RestartSweeper
<1>2. silent' <= told'
  BY DEF GraceInv, RestartSweeper
<1>3. ASSUME ~unsettled' PROVE Told'
  <2>1. ~unsettled /\ ~Lowered /\ Told
    BY <1>3 DEF RestartSweeper, GraceInv
  <2>2. told <= interval
    BY <2>1, GraceNumbers, Times DEF GraceInv, Told, Lowered
  <2> QED
    BY <2>2 DEF Told, RestartSweeper
<1> QED
  BY <1>1, <1>2, <1>3 DEF GraceInv

LEMMA GraceStep == ASSUME GraceInv, [GraceNext]_graceVars PROVE GraceInv'
<1>1. CASE UNCHANGED graceVars
  BY <1>1 DEF graceVars, GraceInv, GraceTypeOK, Told
<1> QED
  BY <1>1, ChangeIntervalKeeps, SweepKeeps, BeatKeeps, TickKeeps, RestartSweeperKeeps
     DEF GraceNext

\* GraceInv holds in every reachable state.
THEOREM GraceInvariant == GraceSpec => []GraceInv
BY GraceInvInit, GraceStep, PTL DEF GraceSpec

\* A runner on time is never swept, for any intervals and any limit, whatever
\* is changed or restarted after the last change has settled.
THEOREM OnTimeStaysOnline == GraceSpec => OnTimeIsNeverSwept
<1>1. ASSUME GraceInv, Sweep, ~unsettled
      PROVE  silent < MissedLimit * Effective
  <2>1. /\ silent \in Nat /\ told \in Nat /\ told # 0 /\ silent <= told /\ Told
        /\ interval \in Nat /\ seenInterval \in Nat /\ graceInterval \in Nat /\ graceLeft \in Nat
    BY <1>1, GraceNumbers DEF GraceInv
  <2>2. Effective \in Nat /\ told <= Effective
    <3>1. CASE told <= interval
      <4>1. graceInterval' \in Nat
        BY <1>1, <2>1 DEF Sweep
      <4> QED
        BY <2>1, <3>1, <4>1 DEF Effective
    <3>2. CASE interval < seenInterval /\ told <= seenInterval
      <4>1. (MissedLimit + 1) * seenInterval > 0
        BY <2>1, <3>2, Times, GraceAssumption
      <4> QED
        BY <1>1, <2>1, <3>2, <4>1 DEF Effective, Sweep, GraceAfter
    <3>3. CASE /\ interval = seenInterval /\ told <= graceInterval
               /\ graceLeft + silent >= (MissedLimit + 1) * graceInterval
      <4>1. (MissedLimit + 1) * graceInterval \in Nat
            /\ (MissedLimit + 1) * graceInterval > graceInterval
        BY <2>1, <3>3, Times, GraceAssumption
      <4>2. graceLeft > 0
        BY <2>1, <3>3, <4>1
      <4> QED
        BY <1>1, <2>1, <3>3, <4>2 DEF Effective, Sweep, GraceAfter
    <3> QED
      BY <2>1, <3>1, <3>2, <3>3 DEF Told
  <2>3. MissedLimit * Effective >= Effective + Effective /\ MissedLimit * Effective \in Nat
    BY <2>2, Times
  <2> QED
    BY <2>1, <2>2, <2>3
<1>2. ASSUME GraceInv, [GraceNext]_graceVars
      PROVE  [Sweep /\ ~unsettled => silent < MissedLimit * Effective]_graceVars
  BY <1>1, <1>2
<1> QED
  BY <1>2, GraceInvariant, PTL DEF GraceSpec, OnTimeIsNeverSwept

-----------------------------------------------------------------------------

\* Tokens a bucket gains in a tick.
Rate == IF limit = 0 THEN 1 ELSE limit

Bucket == [tokens : 0..Fullest, waited : 0..Minute]

\* The table is in order of use.
InOrder ==
  /\ \A k \in kept : <<k, k>> \notin older
  /\ \A j, k \in kept : j = k \/ <<j, k>> \in older \/ <<k, j>> \in older
  /\ \A i, j, k \in kept : <<i, j>> \in older /\ <<j, k>> \in older => <<i, k>> \in older

\* The inductive invariant.
RateInv == RateTypeOK /\ InOrder /\ LazyIsExact

LEMMA DivExact ==
  ASSUME NEW l \in Nat, NEW m \in Nat \ {0}
  PROVE  (l * m) \div m = l
OBVIOUS

LEMMA Largest ==
  ASSUME NEW c \in Limits
  PROVE  /\ Fullest \in Nat /\ Minute \in Nat \ {0} /\ c \in Nat
         /\ (IF c = 0 THEN 1 ELSE c) * Minute \in Nat
         /\ (IF c = 0 THEN 1 ELSE c) * Minute <= Fullest
<1> DEFINE largest == CHOOSE d \in Limits : \A e \in Limits : d >= e
<1>1. \E d \in Limits : \A e \in Limits : d >= e
  BY RateAssumption
<1>2. largest \in Limits /\ \A e \in Limits : largest >= e
  BY <1>1
<1> HIDE DEF largest
<1>3. /\ largest \in Nat \ {0} /\ c \in Nat /\ Minute \in Nat \ {0}
      /\ (IF c = 0 THEN 1 ELSE c) <= largest
  BY <1>2, RateAssumption
<1>4. \A x, y, m \in Nat : x <= y => x * m <= y * m /\ x * m \in Nat
  OBVIOUS
<1>5. Fullest = Minute * largest
  BY DEF Fullest, largest
<1> QED
  BY <1>3, <1>4, <1>5

\* A bucket fills in a minute.
LEMMA Filling ==
  ASSUME limit \in Limits
  PROVE  /\ Rate \in Nat \ {0} /\ Minute \in Nat \ {0} /\ Fullest \in Nat
         /\ Capacity = Rate * Minute /\ Capacity \in Nat
         /\ Minute <= Capacity /\ Capacity <= Fullest
         /\ Capacity \div Minute = Rate
<1>1. Rate \in Nat \ {0} /\ Minute \in Nat \ {0} /\ Fullest \in Nat
  BY Largest DEF Rate
<1>2. Capacity = Rate * Minute
  BY DEF Capacity, Rate
<1>3. \A x, m \in Nat \ {0} : m <= x * m
  OBVIOUS
<1>4. Capacity \in Nat /\ Capacity <= Fullest
  BY Largest DEF Capacity
<1> QED
  BY <1>1, <1>2, <1>3, <1>4, DivExact

\* What a bucket has by now.
LEMMA FilledIs ==
  ASSUME RateInv, NEW k \in Caller
  PROVE  /\ Filled(k) \in 0..Capacity
         /\ k \in kept => Filled(k) = Capped(buckets[k].tokens + buckets[k].waited * Rate)
         /\ k \notin kept => Filled(k) = Capacity
         /\ buckets[k].tokens + buckets[k].waited * Rate \in Nat
<1>1. limit \in Limits /\ buckets[k].tokens \in Nat /\ buckets[k].waited \in Nat
  BY Largest DEF RateInv, RateTypeOK
<1>2. buckets[k].waited * Rate \in Nat
  BY <1>1, Filling
<1> QED
  BY <1>1, <1>2, Filling DEF Filled, Capped

LEMMA RateInvInit == RateInit => RateInv
<1> SUFFICES ASSUME RateInit PROVE RateInv
  OBVIOUS
<1>1. limit \in Limits
  BY DEF RateInit
<1>2. IsFiniteSet(kept) /\ Cardinality(kept) = 0
  BY FS_EmptySet DEF RateInit
<1>3. RateTypeOK
  BY <1>1, <1>2, Filling, RateAssumption DEF RateInit, RateTypeOK
<1> QED
  BY <1>3 DEF RateInv, RateInit, InOrder, LazyIsExact, Filled

\* A set of natural numbers has a least one: the induction of this module.
LEMMA LeastOne ==
  ASSUME NEW T \in SUBSET Nat, T # {}
  PROVE  \E m \in T : \A n \in T : m <= n
<1>1. IsWellFoundedOn(OpToRel(<, Nat), Nat)
  BY NatLessThanWellFounded
<1>2. PICK m \in T : \A n \in T : <<n, m>> \notin OpToRel(<, Nat)
  BY <1>1, WFMin
<1>3. ASSUME NEW n \in T, n < m PROVE FALSE
  <2>1. <<n, m>> \in OpToRel(<, Nat)
    BY <1>3 DEF OpToRel
  <2> QED
    BY <2>1, <1>2
<1> QED
  BY <1>3

LEMMA StrictSubset ==
  ASSUME NEW S, IsFiniteSet(S), NEW T, T \subseteq S, T # S
  PROVE  Cardinality(T) < Cardinality(S)
<1>1. T \in SUBSET S
  OBVIOUS
<1>2. IsFiniteSet(T) /\ Cardinality(T) <= Cardinality(S) /\ Cardinality(S) # Cardinality(T)
  BY <1>1, FS_Subset
<1>3. Cardinality(S) \in Nat /\ Cardinality(T) \in Nat
  BY <1>2, FS_CardinalityType
<1> QED
  BY <1>2, <1>3

\* One key of the table comes first, and only one.
LEMMA FirstKey ==
  ASSUME RateInv
  PROVE  /\ kept # {} => LeastRecent # {}
         /\ \A i, j \in LeastRecent : i = j
<1>1. \A i, j \in LeastRecent : i = j
  BY DEF RateInv, InOrder, LeastRecent
<1>2. ASSUME kept # {} PROVE LeastRecent # {}
  <2> DEFINE Before(k) == {j \in kept : <<j, k>> \in older}
             Places    == {Cardinality(Before(k)) : k \in kept}
  <2>1. \A k \in kept : IsFiniteSet(Before(k)) /\ Cardinality(Before(k)) \in Nat
    <3>1. IsFiniteSet(kept)
      BY DEF RateInv, RateTypeOK
    <3>2. \A k \in kept : Before(k) \in SUBSET kept
      OBVIOUS
    <3> QED
      BY <3>1, <3>2, FS_Subset, FS_CardinalityType
  <2>2. PICK k \in kept : \A i \in kept : Cardinality(Before(k)) <= Cardinality(Before(i))
    <3>1. Places \in SUBSET Nat /\ Places # {}
      BY <1>2, <2>1
    <3>2. PICK m \in Places : \A n \in Places : m <= n
      BY <3>1, LeastOne
    <3> QED
      BY <3>2
  <2>3. ASSUME NEW j \in kept, <<j, k>> \in older PROVE FALSE
    <3>1. Before(j) \subseteq Before(k) /\ j \in Before(k) /\ j \notin Before(j)
      BY <2>3 DEF RateInv, InOrder
    <3>2. Before(j) # Before(k)
      BY <3>1
    <3>3. Cardinality(Before(j)) < Cardinality(Before(k))
      BY <2>1, <3>1, <3>2, StrictSubset
    <3> HIDE DEF Before
    <3> QED
      BY <2>1, <2>2, <3>3
  <2> QED
    BY <2>3 DEF LeastRecent
<1> QED
  BY <1>1, <1>2

\* The table after a request: at most MaxBuckets, in order.
LEMMA TakeKeepsTable ==
  ASSUME RateInv, NEW k \in Caller, Take(k)
  PROVE  /\ kept' \subseteq Caller /\ IsFiniteSet(kept') /\ Cardinality(kept') <= MaxBuckets
         /\ older' \subseteq kept' \X kept'
         /\ InOrder'
<1> DEFINE evicted == IF k \notin kept /\ Cardinality(kept) >= MaxBuckets THEN LeastRecent
                      ELSE {}
           others  == kept \ (evicted \cup {k})
<1>1. kept' = others \cup {k} /\ older' = OlderIn(others) \cup (others \X {k})
  BY DEF Take
<1>2. /\ kept \subseteq Caller /\ IsFiniteSet(kept) /\ Cardinality(kept) \in Nat
      /\ Cardinality(kept) <= MaxBuckets /\ older \subseteq kept \X kept
      /\ MaxBuckets \in Nat \ {0}
  BY FS_CardinalityType, RateAssumption DEF RateInv, RateTypeOK
<1>3. IsFiniteSet(others) /\ Cardinality(others) \in Nat /\ Cardinality(others) <= Cardinality(kept)
  <2>1. others \in SUBSET kept
    OBVIOUS
  <2> QED
    BY <1>2, <2>1, FS_Subset, FS_CardinalityType
<1>4. Cardinality(others) < MaxBuckets
  <2>1. CASE others # kept
    <3>1. Cardinality(others) < Cardinality(kept)
      BY <1>2, <2>1, StrictSubset
    <3> QED
      BY <1>2, <1>3, <3>1
  <2>2. CASE others = kept
    <3>1. k \notin kept /\ LeastRecent \subseteq kept
      BY <2>2 DEF LeastRecent
    <3>2. CASE Cardinality(kept) < MaxBuckets
      BY <2>2, <3>2
    <3>3. CASE Cardinality(kept) >= MaxBuckets
      <4>1. kept # {}
        BY <1>2, <3>3, FS_EmptySet
      <4>2. LeastRecent # {}
        BY <4>1, FirstKey
      <4> QED
        BY <2>2, <3>1, <3>3, <4>2
    <3> QED
      BY <1>2, <3>2, <3>3
  <2> QED
    BY <2>1, <2>2
<1>5. IsFiniteSet(kept') /\ Cardinality(kept') = Cardinality(others) + 1
  <2>1. k \notin others
    OBVIOUS
  <2> QED
    BY <1>1, <1>3, <2>1, FS_AddElement
<1>6. others \subseteq kept /\ k \notin others
  OBVIOUS
<1> HIDE DEF others
<1>7. InOrder'
  BY <1>1, <1>2, <1>6 DEF InOrder, RateInv, OlderIn
<1> QED
  BY <1>1, <1>2, <1>3, <1>4, <1>5, <1>6, <1>7 DEF OlderIn

LEMMA TakeKeeps ==
  ASSUME RateInv, NEW k \in Caller, Take(k)
  PROVE  RateInv'
<1> DEFINE granted == Filled(k) >= Minute
           left    == IF granted THEN Filled(k) - Minute ELSE Filled(k)
           evicted == IF k \notin kept /\ Cardinality(kept) >= MaxBuckets THEN LeastRecent
                      ELSE {}
           others  == kept \ (evicted \cup {k})
<1>1. /\ buckets' = [buckets EXCEPT ![k] = [tokens |-> left, waited |-> 0]]
      /\ kept' = others \cup {k}
      /\ credit' = [credit EXCEPT ![k] = IF k \in unsure THEN left
                                         ELSE IF granted THEN credit[k] - Minute ELSE credit[k]]
      /\ unsure' = (unsure \ {k}) \cup evicted
      /\ limit' = limit
  BY DEF Take
<1>2. /\ limit \in Limits /\ buckets \in [Caller -> Bucket]
      /\ credit \in [Caller -> 0..Fullest] /\ unsure \subseteq Caller /\ kept \subseteq Caller
  BY DEF RateInv, RateTypeOK, Bucket
<1>3. left \in 0..Capacity /\ left \in 0..Fullest
  BY <1>2, FilledIs, Filling
<1>4. credit'[k] = left
  <2>1. k \notin unsure => credit[k] = Filled(k)
    BY DEF RateInv, LazyIsExact
  <2> QED
    BY <1>1, <1>2, <2>1
<1>5. evicted \subseteq kept /\ k \notin evicted
  BY DEF LeastRecent
<1>6. buckets'[k] = [tokens |-> left, waited |-> 0]
  BY <1>1, <1>2
<1>7. \A j \in Caller \ {k} : buckets'[j] = buckets[j] /\ credit'[j] = credit[j]
  BY <1>1, <1>2
<1>8. others = kept \ (evicted \cup {k})
  OBVIOUS
<1> HIDE DEF left, granted, evicted, others
<1>9. RateTypeOK'
  <2>1. buckets' \in [Caller -> Bucket]
    BY <1>1, <1>2, <1>3, Filling DEF Bucket
  <2>2. credit' \in [Caller -> 0..Fullest]
    BY <1>1, <1>2, <1>3, <1>4
  <2> QED
    BY <1>1, <1>2, <1>5, <2>1, <2>2, TakeKeepsTable DEF RateTypeOK, Bucket
<1>10. ASSUME NEW j \in Caller \ unsure' PROVE Filled(j)' = credit'[j]
  <2>1. Capacity' = Capacity /\ Capacity \div Minute = Rate /\ Rate \in Nat /\ Capacity \in Nat
    BY <1>1, <1>2, Filling DEF Capacity
  <2>2. CASE j = k
    <3>1. left + 0 * Rate = left
      BY <1>3, <2>1
    <3>2. Filled(k)' = IF left < Capacity THEN left ELSE Capacity
      BY <1>1, <1>6, <2>1, <2>2, <3>1 DEF Filled, Capped
    <3> QED
      BY <1>3, <1>4, <2>1, <2>2, <3>2
  <2>3. CASE j # k
    <3>1. j \in Caller \ unsure /\ (j \in kept' <=> j \in kept)
      BY <1>1, <1>5, <1>8, <2>3
    <3>2. Filled(j)' = Filled(j)
      BY <1>7, <2>1, <2>3, <3>1 DEF Filled, Capped
    <3> QED
      BY <1>7, <2>3, <3>1, <3>2 DEF RateInv, LazyIsExact
  <2> QED
    BY <2>2, <2>3
<1> QED
  BY <1>9, <1>10, TakeKeepsTable DEF RateInv, LazyIsExact

LEMMA PruneKeeps ==
  ASSUME RateInv, PruneBuckets
  PROVE  RateInv'
<1>1. /\ kept' = {k \in kept : ~Full(k)} /\ older' = OlderIn(kept')
      /\ UNCHANGED <<limit, buckets, credit, unsure>>
  BY DEF PruneBuckets
<1>2. IsFiniteSet(kept') /\ Cardinality(kept') <= MaxBuckets
  <2>1. kept' \in SUBSET kept /\ IsFiniteSet(kept) /\ Cardinality(kept) <= MaxBuckets
    BY <1>1 DEF RateInv, RateTypeOK
  <2>2. IsFiniteSet(kept') /\ Cardinality(kept') <= Cardinality(kept)
    BY <2>1, FS_Subset
  <2> QED
    BY <2>1, <2>2, FS_CardinalityType, RateAssumption
<1>3. RateTypeOK'
  BY <1>1, <1>2 DEF RateInv, RateTypeOK, OlderIn
<1>4. InOrder'
  BY <1>1 DEF RateInv, InOrder, OlderIn
<1>5. ASSUME NEW k \in Caller PROVE Filled(k)' = Filled(k)
  <2>1. limit \in Limits
    BY DEF RateInv, RateTypeOK
  <2>2. Capacity' = Capacity
    BY <1>1 DEF Capacity
  <2>3. CASE k \in kept /\ Full(k)
    <3>1. Filled(k) = Capacity
      BY <2>1, <2>3, FilledIs, Filling DEF Full, Capped
    <3> QED
      BY <1>1, <2>2, <2>3, <3>1 DEF Filled
  <2>4. CASE ~(k \in kept /\ Full(k))
    BY <1>1, <2>2, <2>4 DEF Filled, Capped
  <2> QED
    BY <2>3, <2>4
<1>6. LazyIsExact'
  BY <1>1, <1>5 DEF RateInv, LazyIsExact
<1> QED
  BY <1>3, <1>4, <1>6 DEF RateInv

LEMMA ChangeLimitKeeps ==
  ASSUME RateInv, NEW c \in Limits, ChangeLimit(c)
  PROVE  RateInv'
BY DEF ChangeLimit, RateInv, RateTypeOK, InOrder, LazyIsExact

\* A tick fills the bucket that is looked at later by as much as the other.
LEMMA RateTickKeeps ==
  ASSUME RateInv, RateTick
  PROVE  RateInv'
<1>1. /\ buckets' = [k \in Caller |->
                       [buckets[k] EXCEPT !.waited = IF @ = Minute THEN @ ELSE @ + 1]]
      /\ credit' = [k \in Caller |-> Capped(credit[k] + Rate)]
      /\ UNCHANGED <<limit, kept, older, unsure>>
      /\ limit \in Limits
  BY Filling DEF RateTick, RateInv, RateTypeOK
<1>2. ASSUME NEW k \in Caller
      PROVE  /\ buckets[k] \in Bucket /\ buckets'[k] \in Bucket
             /\ buckets'[k].tokens = buckets[k].tokens
             /\ buckets'[k].waited = IF buckets[k].waited = Minute THEN buckets[k].waited
                                     ELSE buckets[k].waited + 1
             /\ credit[k] \in 0..Fullest /\ credit'[k] = Capped(credit[k] + Rate)
             /\ credit'[k] \in 0..Fullest
  <2>1. buckets[k] \in Bucket /\ credit[k] \in 0..Fullest
    BY DEF RateInv, RateTypeOK, Bucket
  <2>2. buckets'[k] = [buckets[k] EXCEPT !.waited = IF @ = Minute THEN @ ELSE @ + 1]
    BY <1>1
  <2>3. buckets'[k] = [tokens |-> buckets[k].tokens,
                       waited |-> IF buckets[k].waited = Minute THEN buckets[k].waited
                                  ELSE buckets[k].waited + 1]
    BY <2>1, <2>2 DEF Bucket
  <2>4. buckets'[k] \in Bucket
    <3>1. Minute \in Nat
      BY <1>1, Filling
    <3>2. buckets[k].tokens \in 0..Fullest /\ buckets[k].waited \in 0..Minute
      BY <2>1 DEF Bucket
    <3>3. (IF buckets[k].waited = Minute THEN buckets[k].waited
           ELSE buckets[k].waited + 1) \in 0..Minute
      BY <3>1, <3>2
    <3> QED
      BY <2>3, <3>2, <3>3 DEF Bucket
  <2>5. credit'[k] = Capped(credit[k] + Rate) /\ credit'[k] \in 0..Fullest
    BY <1>1, <2>1, Filling DEF Capped
  <2> QED
    BY <2>1, <2>3, <2>4, <2>5
<1>3. RateTypeOK'
  <2>1. buckets' \in [Caller -> Bucket] /\ credit' \in [Caller -> 0..Fullest]
    BY <1>1, <1>2
  <2> QED
    BY <1>1, <2>1 DEF RateInv, RateTypeOK, Bucket
<1>4. ASSUME NEW k \in Caller \ unsure PROVE Filled(k)' = credit'[k]
  <2> DEFINE t == buckets[k].tokens
             w == buckets[k].waited
  <2>1. /\ Rate \in Nat \ {0} /\ Minute \in Nat \ {0} /\ Capacity \in Nat
        /\ Capacity = Rate * Minute /\ Capacity' = Capacity /\ Capacity \div Minute = Rate
    BY <1>1, Filling DEF Capacity
  <2>2. Filled(k) = credit[k] /\ t \in Nat /\ w \in 0..Minute
    BY <1>2 DEF RateInv, LazyIsExact, Bucket
  <2>3. CASE k \notin kept
    BY <1>1, <1>2, <2>1, <2>2, <2>3 DEF Filled, Capped
  <2>4. CASE k \in kept
    <3>1. credit[k] = Capped(t + w * Rate) /\ w * Rate \in Nat
      BY <2>1, <2>2, <2>4, FilledIs
    <3>2. CASE w = Minute
      <4>1. t + w * Rate >= Capacity
        BY <2>1, <2>2, <3>2
      <4>2. Filled(k)' = Filled(k)
        BY <1>1, <1>2, <2>1, <3>2 DEF Filled, Capped
      <4> QED
        BY <1>2, <2>1, <2>2, <3>1, <4>1, <4>2 DEF Capped
    <3>3. CASE w # Minute
      <4>1. Filled(k)' = Capped(t + (w + 1) * Rate)
        BY <1>1, <1>2, <2>1, <2>4, <3>3 DEF Filled, Capped
      <4>2. (w + 1) * Rate = w * Rate + Rate
        BY <2>1, <2>2
      <4> QED
        BY <1>2, <2>1, <2>2, <3>1, <4>1, <4>2 DEF Capped
    <3> QED
      BY <3>2, <3>3
  <2> QED
    BY <2>3, <2>4
<1> QED
  BY <1>1, <1>3, <1>4 DEF RateInv, InOrder, LazyIsExact

LEMMA RateStep == ASSUME RateInv, [RateNext]_rateVars PROVE RateInv'
<1>1. CASE UNCHANGED rateVars
  BY <1>1 DEF rateVars, RateInv, RateTypeOK, InOrder, LazyIsExact, Filled, Capped, Capacity
<1>2. CASE RateNext
  BY <1>2, TakeKeeps, PruneKeeps, ChangeLimitKeeps, RateTickKeeps DEF RateNext
<1> QED
  BY <1>1, <1>2

\* RateInv holds in every reachable state.
THEOREM RateInvariant == RateSpec => []RateInv
BY RateInvInit, RateStep, PTL DEF RateSpec

\* The table never holds more than MaxBuckets, and every bucket stays within
\* the largest limit.
THEOREM RateTypeCorrect == RateSpec => []RateTypeOK
<1>1. RateInv => RateTypeOK
  BY DEF RateInv
<1> QED
  BY <1>1, RateInvariant, PTL

\* A bucket looked at only when it is used holds what one filled all the time
\* would.
THEOREM LazyBucketsAreExact == RateSpec => []LazyIsExact
<1>1. RateInv => LazyIsExact
  BY DEF RateInv
<1> QED
  BY <1>1, RateInvariant, PTL

\* A request takes at most one bucket out of the table, that of the caller
\* heard of least recently.
THEOREM OldestIsEvicted ==
  RateSpec => [][\A k \in Caller : Take(k) =>
                   \A i \in kept \ kept', j \in kept : j = i \/ <<i, j>> \in older]_rateVars
<1>1. ASSUME RateInv, NEW k \in Caller, Take(k), NEW i \in kept \ kept', NEW j \in kept
      PROVE  j = i \/ <<i, j>> \in older
  <2>1. i \in LeastRecent
    BY <1>1 DEF Take
  <2> QED
    BY <1>1, <2>1 DEF RateInv, InOrder, LeastRecent
<1>2. RateInv /\ [RateNext]_rateVars =>
        [\A k \in Caller : Take(k) =>
           \A i \in kept \ kept', j \in kept : j = i \/ <<i, j>> \in older]_rateVars
  BY <1>1
<1> QED
  BY <1>2, RateInvariant, PTL DEF RateSpec
=============================================================================
