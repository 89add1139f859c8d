---------------------------- MODULE OrdersProofs ----------------------------
(* Proofs about RunnerOrders, for any versions, schedules and number of     *)
(* scans: what the USB tab shows (ScanInv), and what keeps an order for a   *)
(* version in the row (UpdateOrderInv).                                     *)
EXTENDS RunnerOrders, TLAPS

OrderRow == [updateTo  : Version \cup {0},
             version   : Version,
             holding   : BOOLEAN,
             schedule  : Schedule \cup {NoSchedule},
             applied   : Schedule \cup {NoSchedule},
             scan      : 0..MaxScans,
             scanned   : 0..MaxScans,
             online    : BOOLEAN,
             tokenGood : BOOLEAN]
HostState == [version  : Version,
              target   : Version \cup {0},
              schedule : Schedule \cup {NoSchedule}]

\* The row waits for the last scan, or for none.
ScanInv == /\ orders.scan \in {0, lastScan}
           /\ ScanAnswerIsCurrent

\* The inductive invariant.
OrdersInv == OrdersTypeOK /\ ScanInv

\* The invariant, in terms of the types above.
LEMMA OrdersInvTypes ==
  ASSUME OrdersInv
  PROVE  /\ orders \in OrderRow /\ host \in HostState
         /\ orderQueue \subseteq Order /\ orderReply \subseteq Order
         /\ scanAnswers \subseteq 1..MaxScans
         /\ lastScan \in 0..MaxScans /\ wanted \in Version \cup {0}
BY DEF OrdersInv, OrdersTypeOK, OrderRow, HostState

\* The invariant after a step, from the same parts.
LEMMA OrdersInvNext ==
  ASSUME orders' \in OrderRow, host' \in HostState,
         orderQueue' \subseteq Order, orderReply' \subseteq Order,
         scanAnswers' \subseteq 1..MaxScans,
         lastScan' \in 0..MaxScans, wanted' \in Version \cup {0},
         orders'.scan \in {0, lastScan'}, orders'.scan = 0 => orders'.scanned = lastScan'
  PROVE  OrdersInv'
BY DEF OrdersInv, OrdersTypeOK, OrderRow, HostState, ScanInv, ScanAnswerIsCurrent

LEMMA OrdersInvInit == OrdersInit => OrdersInv
BY OrdersAssumption DEF OrdersInit, OrdersInv, OrdersTypeOK, ScanInv, ScanAnswerIsCurrent

\* A step that leaves the scan of the row alone.
LEMMA ScanUntouched ==
  ASSUME OrdersInv, UNCHANGED lastScan,
         orders'.scan = orders.scan, orders'.scanned = orders.scanned
  PROVE  /\ orders'.scan \in {0, lastScan'}
         /\ orders'.scan = 0 => orders'.scanned = lastScan'
         /\ lastScan' \in 0..MaxScans
BY OrdersInvTypes DEF OrdersInv, ScanInv, ScanAnswerIsCurrent

-----------------------------------------------------------------------------

\* A row after a report of a version asks for a later one, or for none.
LEMMA UpdatedRow ==
  ASSUME NEW row \in OrderRow, NEW v \in Version
  PROVE  /\ Updated(row, v) \in OrderRow
         /\ Updated(row, v).scan = row.scan /\ Updated(row, v).scanned = row.scanned
BY DEF Updated, OrderRow

\* What a reply repeats from the row are orders.
LEMMA PendingOrders ==
  ASSUME NEW row \in OrderRow
  PROVE  PendingUpdate(row) \subseteq Order /\ PendingSchedule(row) \subseteq Order
BY DEF PendingUpdate, PendingSchedule, Order, OrderRow

LEMMA HeartbeatKeeps == ASSUME OrdersInv, OrdersHeartbeat PROVE OrdersInv'
<1> DEFINE row == [orders EXCEPT !.online = TRUE, !.holding = host.target # 0,
                                 !.applied = host.schedule]
<1>1. /\ orders' = Updated(row, host.version)
      /\ orderReply' = orderQueue \cup PendingUpdate(orders') \cup PendingSchedule(row)
      /\ orderQueue' = {} /\ UNCHANGED <<host, scanAnswers, lastScan, wanted>>
  BY DEF OrdersHeartbeat
<1>2. /\ host.version \in Version /\ host.schedule \in Schedule \cup {NoSchedule}
      /\ (host.target # 0) \in BOOLEAN
  BY OrdersInvTypes DEF HostState
<1>3. row \in OrderRow /\ row.scan = orders.scan /\ row.scanned = orders.scanned
  BY <1>2, OrdersInvTypes DEF OrderRow
<1> HIDE DEF row
<1>4. orders' \in OrderRow /\ orders'.scan = orders.scan /\ orders'.scanned = orders.scanned
  BY <1>1, <1>2, <1>3, UpdatedRow
<1>5. orderReply' \subseteq Order
  BY <1>1, <1>3, <1>4, PendingOrders, OrdersInvTypes
<1> QED
  BY <1>1, <1>4, <1>5, ScanUntouched, OrdersInvNext, OrdersInvTypes

LEMMA RegisterKeeps == ASSUME OrdersInv, RegisterAgain PROVE OrdersInv'
<1> DEFINE row == Updated(orders, host.version)
<1>1. /\ orders' = [row EXCEPT !.tokenGood = TRUE] /\ orderReply' = {}
      /\ UNCHANGED <<orderQueue, host, scanAnswers, lastScan, wanted>>
  BY DEF RegisterAgain
<1>2. host.version \in Version
  BY OrdersInvTypes DEF HostState
<1>3. row \in OrderRow /\ row.scan = orders.scan /\ row.scanned = orders.scanned
  BY <1>2, OrdersInvTypes, UpdatedRow
<1> HIDE DEF row
<1>4. orders' \in OrderRow /\ orders'.scan = orders.scan /\ orders'.scanned = orders.scanned
  BY <1>1, <1>3 DEF OrderRow
<1> QED
  BY <1>1, <1>4, ScanUntouched, OrdersInvNext, OrdersInvTypes

\* A scan is asked for: the row waits for its answer from here on.
LEMMA RequestScanKeeps == ASSUME OrdersInv, RequestUsbScan PROVE OrdersInv'
<1>1. /\ lastScan' = lastScan + 1 /\ lastScan' \in 1..MaxScans /\ lastScan' # 0
  BY OrdersInvTypes, OrdersAssumption DEF RequestUsbScan
<1>2. orders' = [orders EXCEPT !.scan = lastScan']
  BY DEF RequestUsbScan
<1>3. orders' \in OrderRow /\ orders'.scan = lastScan'
  BY <1>1, <1>2, OrdersInvTypes DEF OrderRow
<1>4. orderQueue' \subseteq Order
  BY <1>1, OrdersInvTypes DEF RequestUsbScan, Order
<1> QED
  BY <1>1, <1>3, <1>4, OrdersInvNext, OrdersInvTypes DEF RequestUsbScan

\* An answer comes in: one to an earlier request changes nothing.
LEMMA StoreScanKeeps ==
  ASSUME OrdersInv, NEW n \in 1..MaxScans, StoreUsbScan(n)
  PROVE  OrdersInv'
<1>1. /\ UNCHANGED <<orderQueue, orderReply, host, lastScan, wanted>>
      /\ scanAnswers' \subseteq 1..MaxScans
  BY OrdersInvTypes DEF StoreUsbScan
<1>2. CASE orders.scan = n
  <2>1. n # 0 /\ n = lastScan
    BY <1>2, OrdersAssumption DEF OrdersInv, ScanInv
  <2>2. orders' = [orders EXCEPT !.scan = 0, !.scanned = n]
    BY <1>2 DEF StoreUsbScan
  <2>3. 0 \in 0..MaxScans /\ n \in 0..MaxScans
    BY OrdersAssumption
  <2>4. orders' \in OrderRow /\ orders'.scan = 0 /\ orders'.scanned = n
    BY <2>2, <2>3, OrdersInvTypes DEF OrderRow
  <2> QED
    BY <1>1, <2>1, <2>4, OrdersInvNext, OrdersInvTypes
<1>3. CASE orders.scan # n
  BY <1>1, <1>3, ScanUntouched, OrdersInvNext, OrdersInvTypes DEF StoreUsbScan
<1> QED
  BY <1>2, <1>3

\* What the dashboard asks for besides scans, and a runner not heard of.
LEMMA RowKeeps ==
  ASSUME OrdersInv,
         \/ \E v \in Version : RequestUpdate(v)
         \/ WithdrawUpdate
         \/ \E s \in Schedule \cup {NoSchedule} : SetRebootSchedule(s)
         \/ RotateRunnerToken \/ Unheard
  PROVE  OrdersInv'
<1>1. /\ orders' \in OrderRow
      /\ orders'.scan = orders.scan /\ orders'.scanned = orders.scanned
  BY OrdersInvTypes
     DEF RequestUpdate, WithdrawUpdate, SetRebootSchedule, RotateRunnerToken, Unheard, OrderRow
<1>2. /\ UNCHANGED <<orderReply, host, scanAnswers, lastScan>>
      /\ orderQueue' \subseteq Order /\ wanted' \in Version \cup {0}
  BY OrdersInvTypes
     DEF RequestUpdate, WithdrawUpdate, SetRebootSchedule, RotateRunnerToken, Unheard, Order
<1> QED
  BY <1>1, <1>2, ScanUntouched, OrdersInvNext, OrdersInvTypes

\* The host carries out what it was told.
LEMMA CarryOutKeeps == ASSUME OrdersInv, CarryOut PROVE OrdersInv'
<1> DEFINE updates == {v \in Version : SelfUpdate(v) \in orderReply /\ v > host.version}
           crons   == {s \in Schedule \cup {NoSchedule} : SetSchedule(s) \in orderReply}
           target   == IF updates # {} THEN CHOOSE v \in updates : TRUE
                       ELSE IF CancelUpdate \in orderReply THEN 0 ELSE host.target
           schedule == IF crons # {} THEN CHOOSE s \in crons : TRUE ELSE host.schedule
<1>1. host' = [host EXCEPT !.target = target, !.schedule = schedule]
  BY DEF CarryOut
<1>2. target \in Version \cup {0}
  <2>1. updates # {} => (CHOOSE v \in updates : TRUE) \in Version
    OBVIOUS
  <2>2. host.target \in Version \cup {0}
    BY OrdersInvTypes DEF HostState
  <2> QED
    BY <2>1, <2>2
<1>3. schedule \in Schedule \cup {NoSchedule}
  <2>1. crons # {} => (CHOOSE s \in crons : TRUE) \in Schedule \cup {NoSchedule}
    OBVIOUS
  <2>2. host.schedule \in Schedule \cup {NoSchedule}
    BY OrdersInvTypes DEF HostState
  <2> QED
    BY <2>1, <2>2
<1> HIDE DEF target, schedule
<1>4. host' \in HostState
  BY <1>1, <1>2, <1>3, OrdersInvTypes DEF HostState
<1>5. /\ UNCHANGED <<orders, orderQueue, lastScan, wanted>> /\ orderReply' = {}
      /\ scanAnswers' \subseteq 1..MaxScans
  BY OrdersInvTypes DEF CarryOut
<1> QED
  BY <1>4, <1>5, ScanUntouched, OrdersInvNext, OrdersInvTypes

\* Losses, a restart of the Coordinator, an update of the host.
LEMMA OutsideKeeps ==
  ASSUME OrdersInv, OrdersLost \/ HostUpdates \/ OrdersRestart
  PROVE  OrdersInv'
<1>1. host' \in HostState
  BY OrdersInvTypes, OrdersAssumption DEF OrdersLost, HostUpdates, OrdersRestart, HostState
<1>2. /\ UNCHANGED <<orders, lastScan, wanted>>
      /\ orderQueue' \subseteq Order /\ orderReply' \subseteq Order
      /\ scanAnswers' \subseteq 1..MaxScans
  BY OrdersInvTypes DEF OrdersLost, HostUpdates, OrdersRestart
<1> QED
  BY <1>1, <1>2, ScanUntouched, OrdersInvNext, OrdersInvTypes

-----------------------------------------------------------------------------

LEMMA OrdersStep == ASSUME OrdersInv, [OrdersNext]_orderVars PROVE OrdersInv'
<1>1. CASE UNCHANGED orderVars
  BY <1>1, ScanUntouched, OrdersInvNext, OrdersInvTypes DEF orderVars
<1>2. CASE OrdersNext
  BY <1>2, HeartbeatKeeps, RegisterKeeps, RequestScanKeeps, StoreScanKeeps, RowKeeps,
     CarryOutKeeps, OutsideKeeps DEF OrdersNext
<1> QED
  BY <1>1, <1>2

\* OrdersInv holds in every reachable state.
THEOREM OrdersInvariant == OrdersSpec => []OrdersInv
BY OrdersInvInit, OrdersStep, PTL DEF OrdersSpec

\* Type correctness.
THEOREM OrdersTypeCorrect == OrdersSpec => []OrdersTypeOK
<1>1. OrdersInv => OrdersTypeOK
  BY DEF OrdersInv
<1> QED
  BY <1>1, OrdersInvariant, PTL

\* What the USB tab shows when it stops waiting answers the last request,
\* whatever is lost or late.
THEOREM ScansAreCurrent == OrdersSpec => []ScanAnswerIsCurrent
<1>1. OrdersInv => ScanAnswerIsCurrent
  BY DEF OrdersInv, ScanInv
<1> QED
  BY <1>1, OrdersInvariant, PTL

-----------------------------------------------------------------------------

\* An order for a version stays in the row until the runner has it or it is
\* withdrawn; what a runner holds for is newer than what it runs.
OrderKept == wanted # 0 => orders.updateTo = wanted \/ host.version >= wanted
UpdateOrderInv == /\ orders.updateTo \in {0, wanted}
                  /\ OrderKept
                  /\ host.target # 0 => host.target > host.version

LEMMA VersionsAreNumbers ==
  ASSUME OrdersInv
  PROVE  /\ host.version \in Nat /\ host.target \in Nat
         /\ orders.updateTo \in Nat /\ wanted \in Nat
<1>1. Version \cup {0} \subseteq Nat
  BY OrdersAssumption
<1>2. /\ host.version \in Version /\ host.target \in Version \cup {0}
      /\ orders.updateTo \in Version \cup {0} /\ wanted \in Version \cup {0}
  BY OrdersInvTypes DEF OrderRow, HostState
<1> QED
  BY <1>1, <1>2

LEMMA UpdatedOrder ==
  ASSUME NEW row \in OrderRow, NEW v \in Version
  PROVE  \/ Updated(row, v).updateTo = row.updateTo
         \/ Updated(row, v).updateTo = 0 /\ v >= row.updateTo
BY DEF Updated, OrderRow

\* A report of the version the host runs takes the order off the row only
\* when it is carried out.
LEMMA ReportKeepsOrder ==
  ASSUME OrdersInv, UpdateOrderInv, OrdersHeartbeat \/ RegisterAgain
  PROVE  UpdateOrderInv'
<1>1. /\ UNCHANGED <<host, wanted>>
      /\ \/ orders'.updateTo = orders.updateTo
         \/ orders'.updateTo = 0 /\ host.version >= orders.updateTo
  <2>1. host.version \in Version /\ host.schedule \in Schedule \cup {NoSchedule}
    BY OrdersInvTypes DEF HostState
  <2>2. CASE OrdersHeartbeat
    <3> DEFINE row == [orders EXCEPT !.online = TRUE, !.holding = host.target # 0,
                                     !.applied = host.schedule]
    <3>1. (host.target # 0) \in BOOLEAN
      OBVIOUS
    <3>2. row \in OrderRow /\ row.updateTo = orders.updateTo
      BY <2>1, <3>1, OrdersInvTypes DEF OrderRow
    <3>3. orders' = Updated(row, host.version) /\ UNCHANGED <<host, wanted>>
      BY <2>2 DEF OrdersHeartbeat
    <3> HIDE DEF row
    <3> QED
      BY <2>1, <3>2, <3>3, UpdatedOrder
  <2>3. CASE RegisterAgain
    <3> DEFINE row == Updated(orders, host.version)
    <3>1. row \in OrderRow
      BY <2>1, OrdersInvTypes, UpdatedRow
    <3>2. /\ \/ row.updateTo = orders.updateTo
             \/ row.updateTo = 0 /\ host.version >= orders.updateTo
          /\ orders' = [row EXCEPT !.tokenGood = TRUE] /\ UNCHANGED <<host, wanted>>
      BY <2>1, <2>3, OrdersInvTypes, UpdatedOrder DEF RegisterAgain
    <3> HIDE DEF row
    <3> QED
      BY <3>1, <3>2 DEF OrderRow
  <2> QED
    BY <2>2, <2>3
<1> QED
  BY <1>1, VersionsAreNumbers DEF UpdateOrderInv, OrderKept

\* The dashboard asks for a version, or withdraws it.
LEMMA AskingKeepsOrder ==
  ASSUME OrdersInv, UpdateOrderInv,
         (\E v \in Version : RequestUpdate(v)) \/ WithdrawUpdate
  PROVE  UpdateOrderInv'
<1>1. orders'.updateTo = wanted' /\ host' = host
  BY OrdersInvTypes DEF RequestUpdate, WithdrawUpdate, OrderRow
<1> QED
  BY <1>1 DEF UpdateOrderInv, OrderKept

\* The host takes up orders for newer versions only.
LEMMA CarryOutKeepsOrder ==
  ASSUME OrdersInv, UpdateOrderInv, CarryOut
  PROVE  UpdateOrderInv'
<1> DEFINE updates == {v \in Version : SelfUpdate(v) \in orderReply /\ v > host.version}
           target  == IF updates # {} THEN CHOOSE v \in updates : TRUE
                      ELSE IF CancelUpdate \in orderReply THEN 0 ELSE host.target
<1>1. UNCHANGED <<orders, wanted>>
  BY DEF CarryOut
<1>2. host'.target = target /\ host'.version = host.version
  BY OrdersInvTypes DEF CarryOut, HostState
<1>3. target # 0 => target > host.version
  <2>1. updates # {} => (CHOOSE v \in updates : TRUE) > host.version
    OBVIOUS
  <2> QED
    BY <2>1 DEF UpdateOrderInv
<1> QED
  BY <1>1, <1>2, <1>3 DEF UpdateOrderInv, OrderKept

LEMMA HostUpdatesKeepsOrder ==
  ASSUME OrdersInv, UpdateOrderInv, HostUpdates
  PROVE  UpdateOrderInv' /\ host'.version > host.version
<1>1. /\ UNCHANGED <<orders, wanted>> /\ host.target # 0
      /\ host' = [host EXCEPT !.version = host.target, !.target = 0]
  BY DEF HostUpdates
<1>2. host'.version = host.target /\ host'.target = 0
  BY <1>1, OrdersInvTypes DEF HostState
<1> QED
  BY <1>1, <1>2, VersionsAreNumbers DEF UpdateOrderInv, OrderKept

LEMMA OthersKeepOrder ==
  ASSUME OrdersInv, UpdateOrderInv,
         \/ \E s \in Schedule \cup {NoSchedule} : SetRebootSchedule(s)
         \/ RequestUsbScan \/ RotateRunnerToken \/ Unheard
         \/ \E n \in 1..MaxScans : StoreUsbScan(n)
         \/ OrdersLost \/ OrdersRestart
  PROVE  UpdateOrderInv'
<1>1. orders'.updateTo = orders.updateTo /\ UNCHANGED <<host, wanted>>
  BY OrdersInvTypes
     DEF SetRebootSchedule, RequestUsbScan, RotateRunnerToken, Unheard, StoreUsbScan,
         OrdersLost, OrdersRestart, OrderRow
<1> QED
  BY <1>1 DEF UpdateOrderInv, OrderKept

LEMMA UpdateOrderStep ==
  ASSUME OrdersInv, UpdateOrderInv, [OrdersNext]_orderVars
  PROVE  UpdateOrderInv'
<1>1. CASE UNCHANGED orderVars
  BY <1>1 DEF orderVars, UpdateOrderInv, OrderKept
<1>2. CASE OrdersNext
  BY <1>2, ReportKeepsOrder, AskingKeepsOrder, CarryOutKeepsOrder, HostUpdatesKeepsOrder,
     OthersKeepOrder DEF OrdersNext
<1> QED
  BY <1>1, <1>2

LEMMA UpdateOrderInvariant == OrdersSpec => []UpdateOrderInv
<1>1. OrdersInit => UpdateOrderInv
  BY OrdersAssumption DEF OrdersInit, UpdateOrderInv, OrderKept
<1> QED
  BY <1>1, UpdateOrderStep, OrdersInvariant, PTL DEF OrdersSpec

\* The safety half of UpdateArrives: no lost reply, new token, restart or
\* early report takes the order off the row.
THEOREM OrdersAreKept == OrdersSpec => []OrderKept
<1>1. UpdateOrderInv => OrderKept
  BY DEF UpdateOrderInv
<1> QED
  BY <1>1, UpdateOrderInvariant, PTL

\* Whatever order of whatever age reaches it, a runner never goes back to an
\* older version.
THEOREM RunnerNeverGoesBack == OrdersSpec => [][host'.version >= host.version]_orderVars
<1>1. ASSUME OrdersInv, UpdateOrderInv, OrdersNext PROVE host'.version >= host.version
  <2>1. host.version \in Nat /\ host'.version \in Nat
    <3>1. OrdersInv'
      BY <1>1, HeartbeatKeeps, RegisterKeeps, RequestScanKeeps, StoreScanKeeps, RowKeeps,
         CarryOutKeeps, OutsideKeeps DEF OrdersNext
    <3> QED
      BY <1>1, <3>1, OrdersAssumption DEF OrdersInv, OrdersTypeOK
  <2>2. CASE HostUpdates
    BY <1>1, <2>1, <2>2, HostUpdatesKeepsOrder
  <2>3. CASE ~HostUpdates
    <3>1. host'.version = host.version
      BY <1>1, <2>3, OrdersInvTypes
         DEF OrdersNext, RequestUpdate, WithdrawUpdate, SetRebootSchedule, RequestUsbScan,
             RotateRunnerToken, OrdersHeartbeat, RegisterAgain, Unheard, StoreUsbScan,
             CarryOut, OrdersLost, OrdersRestart, HostState
    <3> QED
      BY <2>1, <3>1
  <2> QED
    BY <2>2, <2>3
<1>2. OrdersInv /\ UpdateOrderInv /\ [OrdersNext]_orderVars =>
        [host'.version >= host.version]_orderVars
  BY <1>1
<1> QED
  BY <1>2, OrdersInvariant, UpdateOrderInvariant, PTL DEF OrdersSpec
=============================================================================
