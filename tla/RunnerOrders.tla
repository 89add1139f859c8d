----------------------------- MODULE RunnerOrders ---------------------------
(* What the dashboard asks of a runner besides jobs and its config: an      *)
(* update, a reboot schedule, a USB scan, giving up an update it holds for, *)
(* a new token.  The first two are kept in its row and repeated in every    *)
(* heartbeat reply until the runner reports them; the others are one-shot   *)
(* commands in memory.  The host is external.                               *)
EXTENDS Naturals, FiniteSets

CONSTANTS
  Version,    \* published versions of the Client, above 0
  Schedule,   \* cron expressions
  MaxScans,   \* bound: USB scans asked for
  NoSchedule

ASSUME OrdersAssumption == /\ Version \subseteq Nat \ {0}
                           /\ MaxScans \in Nat
                           /\ NoSchedule \notin Schedule

VARIABLES
  orders,       \* the row
  orderQueue,   \* services/commands.js: pending
  orderReply,   \* the reply on its way, or {}
  host,         \* the runner
  scanAnswers,  \* answers to scans on their way to the Coordinator
  lastScan,     \* history: number of scans asked for
  wanted        \* history: the version asked for and not withdrawn, or 0

orderVars == <<orders, orderQueue, orderReply, host, scanAnswers, lastScan, wanted>>

SelfUpdate(v)  == [command |-> "self-update", version |-> v]
SetSchedule(s) == [command |-> "set-reboot-schedule", cron |-> s]
ScanUsb(n)     == [command |-> "scan-usb", request |-> n]
CancelUpdate   == [command |-> "cancel-update"]
Order == {SelfUpdate(v) : v \in Version}
         \cup {SetSchedule(s) : s \in Schedule \cup {NoSchedule}}
         \cup {ScanUsb(n) : n \in 1..MaxScans} \cup {CancelUpdate}

OrdersTypeOK ==
  /\ orders \in [updateTo  : Version \cup {0},
                 version   : Version,                        \* client_version
                 holding   : BOOLEAN,                        \* activity: update-hold
                 schedule  : Schedule \cup {NoSchedule},
                 applied   : Schedule \cup {NoSchedule},     \* reboot_schedule_applied
                 scan      : 0..MaxScans,                    \* usb_scan_request_id
                 scanned   : 0..MaxScans,                    \* request of usb_scan
                 online    : BOOLEAN,
                 tokenGood : BOOLEAN]
  /\ orderQueue \in SUBSET Order
  /\ orderReply \in SUBSET Order
  /\ host \in [version : Version, target : Version \cup {0},
               schedule : Schedule \cup {NoSchedule}]
  /\ scanAnswers \in SUBSET (1..MaxScans)
  /\ lastScan \in 0..MaxScans
  /\ wanted \in Version \cup {0}

-----------------------------------------------------------------------------
(* The dashboard *)

\* POST /runners/:id/update, and update-all for runners that are behind.
RequestUpdate(v) ==
  /\ orders' = [orders EXCEPT !.updateTo = v]
  /\ wanted' = v
  /\ UNCHANGED <<orderQueue, orderReply, host, scanAnswers, lastScan>>

\* Cancel next to the version, or Cancel activity of a held update.
WithdrawUpdate ==
  /\ orders.updateTo # 0 \/ orders.holding
  /\ orders' = [orders EXCEPT !.updateTo = 0]
  /\ wanted' = 0
  /\ orderQueue' = IF orders.holding THEN orderQueue \cup {CancelUpdate} ELSE orderQueue
  /\ UNCHANGED <<orderReply, host, scanAnswers, lastScan>>

SetRebootSchedule(s) ==
  /\ orders' = [orders EXCEPT !.schedule = s]
  /\ UNCHANGED <<orderQueue, orderReply, host, scanAnswers, lastScan, wanted>>

RequestUsbScan ==
  /\ lastScan < MaxScans
  /\ orders.online
  /\ lastScan' = lastScan + 1
  /\ orders' = [orders EXCEPT !.scan = lastScan']
  /\ orderQueue' = orderQueue \cup {ScanUsb(lastScan')}
  /\ UNCHANGED <<orderReply, host, scanAnswers, wanted>>

RotateRunnerToken ==
  /\ orders' = [orders EXCEPT !.tokenGood = FALSE]
  /\ UNCHANGED <<orderQueue, orderReply, host, scanAnswers, lastScan, wanted>>

-----------------------------------------------------------------------------
(* The runner's calls *)

\* Mutant of Updated: the order is taken off the row once a reply carried it.
UpdatedWhenSent(row, v) == [row EXCEPT !.version = v, !.updateTo = 0]

\* completeUpdateIfDone, after a report of version v.
Updated(row, v) ==
  [row EXCEPT !.version = v,
              !.updateTo = IF @ # 0 /\ v >= @ THEN 0 ELSE @]

\* Mutant of PendingSchedule: clearing the schedule is never sent.
PendingScheduleIfAny(row) ==
  IF row.schedule \in {row.applied, NoSchedule} THEN {} ELSE {SetSchedule(row.schedule)}

PendingSchedule(row) ==
  IF row.schedule = row.applied THEN {} ELSE {SetSchedule(row.schedule)}

\* Mutant of PendingUpdate: a row that asks for nothing is not told apart.
PendingUpdateAlways(row) ==
  IF row.version < row.updateTo \/ row.updateTo = 0 THEN {SelfUpdate(row.updateTo)} ELSE {}

PendingUpdate(row) ==
  IF row.updateTo # 0 /\ row.version < row.updateTo THEN {SelfUpdate(row.updateTo)} ELSE {}

OrdersHeartbeat ==
  /\ orders.tokenGood
  /\ orderReply = {}
  /\ LET row == [orders EXCEPT !.online = TRUE, !.holding = host.target # 0,
                               !.applied = host.schedule]
     IN /\ orders' = Updated(row, host.version)
        /\ orderReply' = orderQueue \cup PendingUpdate(orders') \cup PendingSchedule(row)
  /\ orderQueue' = {}
  /\ UNCHANGED <<host, scanAnswers, lastScan, wanted>>

\* registerAutoInner: a new token; queued commands stay queued.
RegisterAgain ==
  /\ orders' = [Updated(orders, host.version) EXCEPT !.tokenGood = TRUE]
  /\ orderReply' = {}
  /\ UNCHANGED <<orderQueue, host, scanAnswers, lastScan, wanted>>

\* Mutant of StoreUsbScan: the answer to any request is kept.
StoreUsbScanAny(n) ==
  /\ n \in scanAnswers /\ orders.tokenGood
  /\ orders' = [orders EXCEPT !.scan = 0, !.scanned = n]
  /\ scanAnswers' = scanAnswers \ {n}
  /\ UNCHANGED <<orderQueue, orderReply, host, lastScan, wanted>>

\* POST usb-scan: only the answer to the last request is kept, once.
StoreUsbScan(n) ==
  /\ n \in scanAnswers /\ orders.tokenGood
  /\ orders' = IF orders.scan = n THEN [orders EXCEPT !.scan = 0, !.scanned = n]
                                  ELSE orders
  /\ scanAnswers' = scanAnswers \ {n}
  /\ UNCHANGED <<orderQueue, orderReply, host, lastScan, wanted>>

Unheard ==
  /\ orders' = [orders EXCEPT !.online = FALSE]
  /\ UNCHANGED <<orderQueue, orderReply, host, scanAnswers, lastScan, wanted>>

-----------------------------------------------------------------------------
(* The host *)

\* A reply is carried out: it gives up the update it holds for, then looks
\* at the one it is told of, if that is newer than what it runs.
CarryOut ==
  /\ orderReply # {}
  /\ LET updates == {v \in Version : SelfUpdate(v) \in orderReply /\ v > host.version}
         crons   == {s \in Schedule \cup {NoSchedule} : SetSchedule(s) \in orderReply}
     IN host' = [host EXCEPT
          !.target   = IF updates # {} THEN CHOOSE v \in updates : TRUE
                       ELSE IF CancelUpdate \in orderReply THEN 0 ELSE @,
          !.schedule = IF crons # {} THEN CHOOSE s \in crons : TRUE ELSE @]
  /\ scanAnswers' = scanAnswers \cup {n \in 1..MaxScans : ScanUsb(n) \in orderReply}
  /\ orderReply' = {}
  /\ UNCHANGED <<orders, orderQueue, lastScan, wanted>>

\* A reply, or the answer to a scan, is lost.
OrdersLost ==
  /\ \/ orderReply # {} /\ orderReply' = {} /\ UNCHANGED scanAnswers
     \/ \E n \in scanAnswers : scanAnswers' = scanAnswers \ {n} /\ UNCHANGED orderReply
  /\ UNCHANGED <<orders, orderQueue, host, lastScan, wanted>>

\* Nothing runs on the host any more: it installs the version it holds for.
HostUpdates ==
  /\ host.target # 0
  /\ host' = [host EXCEPT !.version = host.target, !.target = 0]
  /\ orderReply' = {}
  /\ UNCHANGED <<orders, orderQueue, scanAnswers, lastScan, wanted>>

\* The Coordinator restarts: the queue was in memory only.
OrdersRestart ==
  /\ orderQueue' = {} /\ orderReply' = {}
  /\ UNCHANGED <<orders, host, scanAnswers, lastScan, wanted>>

OrdersInit ==
  /\ \E v \in Version :
       /\ orders = [updateTo |-> 0, version |-> v, holding |-> FALSE,
                    schedule |-> NoSchedule, applied |-> NoSchedule, scan |-> 0,
                    scanned |-> 0, online |-> TRUE, tokenGood |-> TRUE]
       /\ host = [version |-> v, target |-> 0, schedule |-> NoSchedule]
  /\ orderQueue = {} /\ orderReply = {} /\ scanAnswers = {}
  /\ lastScan = 0 /\ wanted = 0

OrdersNext ==
  \/ \E v \in Version : RequestUpdate(v)
  \/ WithdrawUpdate
  \/ \E s \in Schedule \cup {NoSchedule} : SetRebootSchedule(s)
  \/ RequestUsbScan \/ RotateRunnerToken
  \/ OrdersHeartbeat \/ RegisterAgain \/ Unheard
  \/ \E n \in 1..MaxScans : StoreUsbScan(n)
  \/ CarryOut \/ OrdersLost \/ HostUpdates \/ OrdersRestart

\* A runner keeps sending heartbeats, registers again when its token is
\* refused, and is idle at some time; replies are not lost for ever.
OrdersFairness ==
  /\ SF_orderVars(OrdersHeartbeat)
  /\ SF_orderVars(RegisterAgain /\ ~orders.tokenGood)
  /\ SF_orderVars(CarryOut)
  /\ WF_orderVars(HostUpdates)

OrdersSpec == OrdersInit /\ [][OrdersNext]_orderVars /\ OrdersFairness

-----------------------------------------------------------------------------

\* A version asked for on the dashboard gets installed unless what is asked
\* for keeps changing, though replies are lost, tokens rotated and the
\* Coordinator restarted meanwhile.
UpdateArrives ==
  []<>(host.version >= wanted) \/ []<><<wanted' # wanted>>_wanted

\* So does a reboot schedule, and so does clearing it.
ScheduleArrives ==
  []<>(host.schedule = orders.schedule) \/ []<><<orders'.schedule # orders.schedule>>_orders

\* When the USB tab stops waiting, what it shows answers the last request,
\* however late the answers to earlier ones come in.
ScanAnswerIsCurrent == orders.scan = 0 => orders.scanned = lastScan
=============================================================================
