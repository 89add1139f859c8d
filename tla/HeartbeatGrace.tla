--------------------------- MODULE HeartbeatGrace ---------------------------
(* Lowering heartbeat.intervalSec while the Coordinator runs: runners hear   *)
(* of it in the reply to their next heartbeat, so the sweeper judges by the  *)
(* old interval for a while (services/heartbeat.js).  Time is counted in     *)
(* ticks; the sweeper runs once per tick.  A restart of the Coordinator      *)
(* takes no time here: a runner that finds it down for longer is not on time. *)
EXTENDS Naturals

CONSTANTS
  Intervals,    \* values of heartbeat.intervalSec
  MissedLimit

ASSUME GraceAssumption == /\ Intervals \subseteq Nat \ {0}
                          /\ \E i \in Intervals : \A j \in Intervals : i >= j
                          /\ MissedLimit \in Nat \ {0, 1}

VARIABLES
  interval,       \* config.heartbeat.intervalSec
  seenInterval,
  graceInterval,
  graceLeft,      \* graceUntil - now
  told,           \* the interval the runner was told of
  silent,         \* ticks since its last heartbeat
  swept,          \* the sweeper has run in this tick
  unsettled       \* history: a change, or a restart, while one was settling

graceVars ==
  <<interval, seenInterval, graceInterval, graceLeft, told, silent, swept, unsettled>>

Longest == CHOOSE i \in Intervals : \A j \in Intervals : i >= j

GraceTypeOK ==
  /\ interval \in Intervals /\ seenInterval \in Intervals /\ told \in Intervals
  /\ graceInterval \in Intervals \cup {0}
  /\ graceLeft \in 0..((MissedLimit + 1) * Longest)
  /\ silent \in 0..Longest
  /\ swept \in BOOLEAN /\ unsettled \in BOOLEAN

\* The last change is behind the sweeper.
Settled == graceLeft = 0 /\ seenInterval = interval

\* A lower interval that runners need not have heard of yet.
Lowered == graceLeft > 0 \/ interval < seenInterval

\* The dashboard changes the interval.
ChangeInterval(i) ==
  /\ interval' = i
  /\ unsettled' = (unsettled \/ ~Settled)
  /\ UNCHANGED <<seenInterval, graceInterval, graceLeft, told, silent, swept>>

\* Mutant of GraceAfter: judged by the new interval at once.
NoGraceAfter == 0

\* graceUntil, seen from a sweep that notices a lower interval.
GraceAfter == IF interval < seenInterval THEN (MissedLimit + 1) * seenInterval ELSE graceLeft

Effective ==
  IF graceLeft' > 0 /\ graceInterval' > interval THEN graceInterval' ELSE interval

\* effectiveInterval, at each sweep.
Sweep ==
  /\ ~swept
  /\ swept' = TRUE
  /\ graceLeft' = GraceAfter
  /\ graceInterval' = IF interval < seenInterval THEN seenInterval ELSE graceInterval
  /\ seenInterval' = interval
  /\ UNCHANGED <<interval, told, silent, unsettled>>

\* The runner is on time: never silent for longer than it was told.
Beat ==
  /\ silent' = 0 /\ told' = interval
  /\ unsettled' = (unsettled /\ ~Settled)
  /\ UNCHANGED <<interval, seenInterval, graceInterval, graceLeft, swept>>

Tick ==
  /\ swept /\ silent < told
  /\ silent' = silent + 1
  /\ graceLeft' = IF graceLeft = 0 THEN 0 ELSE graceLeft - 1
  /\ swept' = FALSE
  /\ UNCHANGED <<interval, seenInterval, graceInterval, told, unsettled>>

\* The Coordinator starts again (createHeartbeatMonitor): the interval is read
\* from the settings, and a grace that was running is forgotten.
RestartSweeper ==
  /\ seenInterval' = interval /\ graceInterval' = 0 /\ graceLeft' = 0
  /\ swept' = TRUE
  /\ unsettled' = (unsettled \/ Lowered)
  /\ UNCHANGED <<interval, told, silent>>

GraceInit ==
  /\ interval \in Intervals
  /\ seenInterval = interval /\ told = interval
  /\ graceInterval = 0 /\ graceLeft = 0 /\ silent = 0 /\ swept = FALSE
  /\ unsettled = FALSE

GraceNext ==
  (\E i \in Intervals : ChangeInterval(i)) \/ Sweep \/ Beat \/ Tick \/ RestartSweeper

GraceSpec == GraceInit /\ [][GraceNext]_graceVars

\* A runner that reports as often as it was told to is never marked
\* OUT_OF_SERVICE (and its job LOST) because the interval was lowered, as
\* long as one change has settled before the next, and before a restart: the
\* grace is in memory, so a restart ends it before "every Client has had time
\* to switch over" (heartbeat.js), and a second change shortens it.
OnTimeIsNeverSwept ==
  [][Sweep /\ ~unsettled => silent < MissedLimit * Effective]_graceVars
=============================================================================
