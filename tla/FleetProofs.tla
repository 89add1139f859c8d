---------------------------- MODULE FleetProofs ----------------------------
(***************************************************************************)
(* A fleet of protocol-abiding clients, with its lost and late messages, is *)
(* a restriction of Coordinator!Spec, so every theorem of CoordinatorProofs *)
(* holds of it; and a verdict is only recorded from the bench that the      *)
(* job's row names.  Both rest on ClientsInv, which says what the clients   *)
(* send.                                                                    *)
(***************************************************************************)
EXTENDS Fleet, CoordinatorProofs

ClientsInv ==
  /\ client \in [Resource -> ClientState]
  /\ beat \in [Resource -> Reports \cup {NoBeat}]
  /\ call \in [Resource -> Call \cup {NoCall}]
  /\ \A r \in Resource : client[r].phase # "idle" => client[r].job \in Job

-----------------------------------------------------------------------------
(* The client's operators *)

LEMMA AnsweredClient ==
  ASSUME NEW c \in ClientState, c.phase # "idle" => c.job \in Job,
         NEW msg \in Call, NEW accepted \in BOOLEAN
  PROVE  LET next == Answered(c, msg, accepted)
         IN  next \in ClientState /\ (next.phase # "idle" => next.job \in Job)
BY DEF Answered, ClientState, Phases, Call

LEMMA ObedientClient ==
  ASSUME NEW c \in ClientState, c.phase # "idle" => c.job \in Job, NEW cmds
  PROVE  LET next == Obey(c, cmds)
         IN  next \in ClientState /\ (next.phase # "idle" => next.job \in Job)
BY DEF Obey, ClientState, Phases

LEMMA OneClient ==
  ASSUME ClientsInv, NEW r \in Resource, NEW c \in ClientState,
         c.phase # "idle" => c.job \in Job,
         client' = [client EXCEPT ![r] = c],
         beat' \in [Resource -> Reports \cup {NoBeat}],
         call' \in [Resource -> Call \cup {NoCall}]
  PROVE  ClientsInv'
BY DEF ClientsInv

LEMMA ClientsStay ==
  ASSUME ClientsInv, UNCHANGED client,
         beat' \in [Resource -> Reports \cup {NoBeat}],
         call' \in [Resource -> Call \cup {NoCall}]
  PROVE  ClientsInv'
BY DEF ClientsInv

-----------------------------------------------------------------------------
(* A step of a client keeps ClientsInv and is a step of the coordinator.    *)

LEMMA PollStep ==
  ASSUME ClientsInv, NEW r \in Resource, NEW j \in Job, Poll(r, j)
  PROVE  ClientsInv' /\ UNCHANGED vars
<1> DEFINE c == [client[r] EXCEPT !.job = j, !.phase = "offered"]
<1>1. c \in ClientState /\ c.job \in Job
  BY DEF ClientsInv, ClientState, Phases
<1>2. client' = [client EXCEPT ![r] = c] /\ UNCHANGED <<vars, beat, call>>
  BY DEF Poll, ClientsInv, ClientState
<1> HIDE DEF c
<1> QED
  BY <1>1, <1>2, OneClient DEF ClientsInv

LEMMA SendStep ==
  ASSUME ClientsInv, NEW r \in Resource, NEW request, Send(r, request)
  PROVE  ClientsInv' /\ UNCHANGED vars
<1> DEFINE msg == [job |-> client[r].job, request |-> request]
<1>1. client[r] \in ClientState /\ request \in Requests(client[r].phase)
  BY DEF Send, ClientsInv
<1>2. client[r].phase # "idle"
  BY <1>1 DEF Requests
<1>3. request \in {"accept", "PREPARING", "RUNNING"} \cup Verdicts
  BY <1>1 DEF Requests, ClientState, Phases, Verdicts
<1>4. msg \in Call
  BY <1>2, <1>3 DEF ClientsInv, Call
<1>5. call' = [call EXCEPT ![r] = msg] /\ UNCHANGED <<vars, client, beat>>
  BY DEF Send
<1> HIDE DEF msg
<1> QED
  BY <1>4, <1>5, ClientsStay DEF ClientsInv

LEMMA HandleCallStep ==
  ASSUME ClientsInv, NEW r \in Resource, HandleCall(r)
  PROVE  ClientsInv' /\ [Next]_vars
<1> DEFINE msg == call[r]
<1>1. msg \in Call /\ msg.job \in Job
      /\ msg.request \in {"accept", "PREPARING", "RUNNING"} \cup Verdicts
  BY DEF HandleCall, ClientsInv, Call
<1>2. Acceptable(r, msg) \in BOOLEAN
  BY DEF Acceptable, OwnJob, Present
<1>3. ClientsInv'
  <2>1. call' \in [Resource -> Call \cup {NoCall}] /\ UNCHANGED beat
    BY DEF HandleCall, ClientsInv
  <2>2. CASE client' = [client EXCEPT ![r] = Answered(@, msg, Acceptable(r, msg))]
    <3>1. client[r] \in ClientState /\ (client[r].phase # "idle" => client[r].job \in Job)
      BY DEF ClientsInv
    <3> DEFINE c == Answered(client[r], msg, Acceptable(r, msg))
    <3>2. c \in ClientState /\ (c.phase # "idle" => c.job \in Job)
      BY <1>1, <1>2, <3>1, AnsweredClient
    <3>3. client' = [client EXCEPT ![r] = c]
      BY <2>2 DEF ClientsInv
    <3> HIDE DEF c
    <3> QED
      BY <2>1, <3>2, <3>3, OneClient DEF ClientsInv
  <2>3. CASE UNCHANGED client
    BY <2>1, <2>3, ClientsStay DEF ClientsInv
  <2> QED
    BY <2>2, <2>3 DEF HandleCall
<1>4. Handled(r, msg) => JobRequest(r, msg.job)
  BY <1>1 DEF Handled, JobRequest, Verdicts
<1>5. JobRequest(r, msg.job) => Next
  BY <1>1 DEF Next, ResourceStep
<1>6. Handled(r, msg) \/ UNCHANGED vars
  BY DEF HandleCall
<1> QED
  BY <1>3, <1>4, <1>5, <1>6

LEMMA HandleHeartbeatStep ==
  ASSUME ClientsInv, NEW r \in Resource, NEW delivered \in BOOLEAN,
         HandleHeartbeat(r, delivered)
  PROVE  ClientsInv' /\ [Next]_vars
<1>1. beat[r] \in Reports /\ Heartbeat(r, beat[r])
  BY DEF HandleHeartbeat, ClientsInv
<1>2. Next
  BY <1>1 DEF Next, ResourceStep
<1> DEFINE c == IF delivered THEN Obey(client[r], commands[r]) ELSE client[r]
<1>3. client[r] \in ClientState /\ (client[r].phase # "idle" => client[r].job \in Job)
  BY DEF ClientsInv
<1>4. c \in ClientState /\ (c.phase # "idle" => c.job \in Job)
  BY <1>3, ObedientClient
<1>5. client' = [client EXCEPT ![r] = c]
  BY DEF HandleHeartbeat, ClientsInv
<1>6. beat' \in [Resource -> Reports \cup {NoBeat}] /\ UNCHANGED call
  BY DEF HandleHeartbeat, ClientsInv
<1> HIDE DEF c
<1> QED
  BY <1>2, <1>4, <1>5, <1>6, OneClient DEF ClientsInv

LEMMA ClientSteps ==
  ASSUME ClientsInv, NEW r \in Resource, ClientStep(r)
  PROVE  ClientsInv' /\ [Next]_vars
<1>1. CASE \E j \in Job : Poll(r, j)
  BY <1>1, PollStep
<1>2. CASE \E request \in {"accept", "PREPARING", "RUNNING"} \cup Verdicts : Send(r, request)
  BY <1>2, SendStep
<1>3. CASE HandleCall(r)
  BY <1>3, HandleCallStep
<1>4. CASE LoseCall(r)
  BY <1>4, ClientsStay DEF LoseCall, ClientsInv
<1>5. CASE SendHeartbeat(r)
  BY <1>5, ClientsStay DEF SendHeartbeat, ReportOf, Reports, ClientsInv
<1>6. CASE LoseHeartbeat(r)
  BY <1>6, ClientsStay DEF LoseHeartbeat, ClientsInv
<1>7. CASE \E delivered \in BOOLEAN : HandleHeartbeat(r, delivered)
  BY <1>7, HandleHeartbeatStep
<1>8. CASE ClientLock(r)
  <2> DEFINE c == [client[r] EXCEPT !.locked = TRUE]
  <2>1. c \in ClientState /\ (c.phase # "idle" => c.job \in Job)
    BY DEF ClientsInv, ClientState
  <2>2. client' = [client EXCEPT ![r] = c] /\ UNCHANGED <<beat, call>> /\ Next
    BY <1>8 DEF ClientLock, ClientsInv, Next, ResourceStep
  <2> HIDE DEF c
  <2> QED
    BY <2>1, <2>2, OneClient DEF ClientsInv
<1>9. CASE ClientUnlock(r)
  <2> DEFINE c == [client[r] EXCEPT !.locked = FALSE]
  <2>1. c \in ClientState /\ (c.phase # "idle" => c.job \in Job)
    BY DEF ClientsInv, ClientState
  <2>2. client' = [client EXCEPT ![r] = c] /\ UNCHANGED <<beat, call>> /\ Next
    BY <1>9 DEF ClientUnlock, ClientsInv, Next, ResourceStep
  <2> HIDE DEF c
  <2> QED
    BY <2>1, <2>2, OneClient DEF ClientsInv
<1>10. CASE Crash(r)
  <2>1. Asleep \in ClientState /\ Asleep.phase = "idle"
    BY DEF Asleep, ClientState, Phases
  <2> QED
    BY <1>10, <2>1, OneClient DEF Crash, ClientsInv
<1>11. CASE Start(r)
  <2> DEFINE c == [client[r] EXCEPT !.alive = TRUE]
  <2>1. c \in ClientState /\ (c.phase # "idle" => c.job \in Job)
    BY DEF ClientsInv, ClientState
  <2>2. client' = [client EXCEPT ![r] = c] /\ Next
    BY <1>11 DEF Start, ClientsInv, Next, ResourceStep
  <2>3. /\ beat' \in [Resource -> Reports \cup {NoBeat}]
        /\ call' \in [Resource -> Call \cup {NoCall}]
    BY <1>11 DEF Start, ClientsInv
  <2> HIDE DEF c
  <2> QED
    BY <2>1, <2>2, <2>3, OneClient
<1> QED
  BY <1>1, <1>2, <1>3, <1>4, <1>5, <1>6, <1>7, <1>8, <1>9, <1>10, <1>11 DEF ClientStep

LEMMA ServerSteps ==
  ASSUME ClientsInv, ServerStep
  PROVE  ClientsInv' /\ Next
<1>1. Next
  BY DEF ServerStep, Next, AgentStep, AdminStep
<1>2. UNCHANGED clientVars
  BY DEF ServerStep
<1> QED
  BY <1>1, <1>2 DEF clientVars, ClientsInv

-----------------------------------------------------------------------------
(* The theorems *)

LEMMA FleetInitially == FleetInit => ClientsInv /\ Init
BY DEF FleetInit, ClientsInv, Asleep, ClientState, Phases, NoBeat

LEMMA FleetSteps == ClientsInv /\ [FleetNext]_fleetVars => ClientsInv' /\ [Next]_vars
<1> SUFFICES ASSUME ClientsInv, [FleetNext]_fleetVars
             PROVE  ClientsInv' /\ [Next]_vars
  OBVIOUS
<1>1. CASE ServerStep
  BY <1>1, ServerSteps
<1>2. CASE \E r \in Resource : ClientStep(r)
  BY <1>2, ClientSteps
<1>3. CASE UNCHANGED fleetVars
  BY <1>3 DEF fleetVars, clientVars, ClientsInv
<1> QED
  BY <1>1, <1>2, <1>3 DEF FleetNext

\* Every step of the fleet is one of the coordinator or leaves it alone.  This
\* is how Fleet is written; what it takes is that its clients only name jobs
\* and requests that exist.
LEMMA FleetRestricts == FleetSpec => Spec
BY FleetInitially, FleetSteps, PTL DEF FleetSpec, Spec

\* What holds of the coordinator holds of it in a fleet.
THEOREM FleetSafety == FleetSpec => /\ []BenchIntegrity
                                    /\ []PinnedJobsServable
                                    /\ []FinishedJobForgetsSecrets
                                    /\ []LostRetriedAtMostOnce
                                    /\ OneFreeBenchPerHandOut
                                    /\ RemovalTakesNoNewWork
                                    /\ StoppedBenchIsTold
BY FleetRestricts, BenchIntegrityHolds, PinnedJobsServableHolds,
   SecretsForgotten, RetriedOnce, OneFreeBench, RemovalHolds,
   StoppedBenchIsAlwaysTold, PTL

-----------------------------------------------------------------------------
(* Who decides a verdict *)

Decides(j) == jobs[j].state # jobs'[j].state /\ jobs'[j].state \in {"PASSED", "FAILED"}

LEMMA OnlyCallsDecide ==
  ASSUME TypeOK, [FleetNext]_fleetVars, NEW j \in Job, Decides(j)
  PROVE  \E r \in Resource : HandleCall(r) /\ ~UNCHANGED vars
<1>0. ~UNCHANGED vars
  BY DEF vars, Decides
<1>1. ~Background
  BY BackgroundMovesAway DEF Away, Decides
<1>2. ~RunPass
  <2> SUFFICES ASSUME RunPass
               PROVE  FALSE
    OBVIOUS
  <2>1. jobs[j] \in JobRow
    BY DEF TypeOK
  <2>2. \E r : jobs'[j] \in {jobs[j], [jobs[j] EXCEPT !.state = "ASSIGNED", !.resource = r]}
    BY DEF RunPass
  <2> QED
    BY <2>1, <2>2 DEF JobRow, Decides
<1>3. ~ServerStep
  BY <1>1, <1>2 DEF ServerStep, Background, AgentStep, AdminStep
<1>4. PICK r \in Resource : ClientStep(r)
  BY <1>0, <1>3 DEF FleetNext, fleetVars
<1>5. ~(\E delivered \in BOOLEAN : HandleHeartbeat(r, delivered))
  <2> SUFFICES ASSUME NEW delivered \in BOOLEAN, HandleHeartbeat(r, delivered)
               PROVE  FALSE
    OBVIOUS
  <2>1. PICK report : Heartbeat(r, report)
    BY DEF HandleHeartbeat
  <2>2. jobs' \in {jobs, JobsWithout({r}, jobs)}
    BY <2>1 DEF Heartbeat
  <2>3. jobs[j] \in JobRow
    BY DEF TypeOK
  <2> QED
    BY <2>2, <2>3, RemovalMovesAway DEF Away, Decides
<1>6. ~ClientLock(r) /\ ~ClientUnlock(r) /\ ~Start(r)
  BY <1>1 DEF ClientLock, ClientUnlock, Start, Background
<1> QED
  BY <1>0, <1>4, <1>5, <1>6
     DEF ClientStep, Poll, Send, LoseCall, SendHeartbeat, LoseHeartbeat, Crash

\* A result counts only while the job's row names the bench that sent it: one
\* that lost the job to another bench cannot decide it (requireOwnJob).
THEOREM VerdictsFromTheBench == FleetSpec => VerdictFromTheBench
<1> DEFINE A == \A j \in Job :
                  Decides(j) => \E r \in Resource :
                                  /\ jobs[j].resource = r
                                  /\ call[r] = [job |-> j, request |-> jobs'[j].state]
<1>1. ClientsInv /\ TypeOK /\ [FleetNext]_fleetVars => A
  <2> SUFFICES ASSUME ClientsInv, TypeOK, [FleetNext]_fleetVars, NEW j \in Job, Decides(j)
               PROVE  \E r \in Resource : /\ jobs[j].resource = r
                                          /\ call[r] = [job |-> j, request |-> jobs'[j].state]
    OBVIOUS
  <2>1. PICK r \in Resource : HandleCall(r) /\ ~UNCHANGED vars
    BY OnlyCallsDecide
  <2> DEFINE msg == call[r]
  <2>2. msg \in Call /\ Handled(r, msg)
    BY <2>1 DEF HandleCall, ClientsInv
  <2>3. msg.job \in Job /\ msg = [job |-> msg.job, request |-> msg.request]
        /\ msg.request \in {"accept", "PREPARING", "RUNNING"} \cup Verdicts
    BY <2>2 DEF Call
  <2> HIDE DEF msg
  <2>4. CASE msg.request \in Verdicts
    <3>1. ApplyResult(r, msg.job, msg.request)
      BY <2>2, <2>4 DEF Handled, Verdicts
    <3>2. j = msg.job /\ jobs[j].resource = r
      BY <3>1 DEF ApplyResult, OwnJob, Decides
    <3>3. jobs[j] \in JobRow
      BY DEF TypeOK
    <3>4. jobs'[j].state = msg.request
      BY <3>1, <3>2, <3>3 DEF ApplyResult, Ended, TypeOK, JobRow
    <3> QED
      BY <2>3, <3>2, <3>4 DEF msg
  <2>5. CASE msg.request \notin Verdicts
    <3>1. jobs[j] \in JobRow
      BY DEF TypeOK
    <3>2. \/ Accept(r, msg.job)
          \/ ReportState(r, msg.job, msg.request) /\ msg.request \in {"PREPARING", "RUNNING"}
      BY <2>2, <2>3, <2>5 DEF Handled
    <3>3. JobRequest(r, msg.job) /\ jobs'[j].state \in {jobs[j].state, "PREPARING", "RUNNING"}
      BY <3>1, <3>2 DEF JobRequest, Accept, ReportState, TypeOK, JobRow
    <3> QED
      BY <3>3 DEF Decides
  <2> QED
    BY <2>4, <2>5
<1>2. FleetSpec => []TypeOK
  BY FleetRestricts, TypeCorrect, PTL
<1>3. FleetSpec => []ClientsInv
  BY FleetInitially, FleetSteps, PTL DEF FleetSpec
<1>4. [][A]_fleetVars <=> VerdictFromTheBench
  BY DEF VerdictFromTheBench, Decides
<1> QED
  BY <1>1, <1>2, <1>3, <1>4, PTL DEF FleetSpec

=============================================================================
