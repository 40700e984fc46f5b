-------------------------- MODULE HACluster_proofs --------------------------
(***************************************************************************)
(* Theorems about HACluster, for every clock, every number of outages and  *)
(* restarts, and every set of measurements.                                *)
(***************************************************************************)
EXTENDS HACluster, SyncDBRP_proofs

USE DEF Servers

-----------------------------------------------------------------------------
\* Type correctness

\* Points are of known measurements.
LEMMA MeasurementsOfType ==
  ASSUME EnvTypeOK PROVE MeasurementsOf(data[Master]) \subseteq Measurements
<1>1. data[Master] \subseteq Measurements \X Times
  BY DEF EnvTypeOK, Servers, Points
<1> QED BY <1>1 DEF MeasurementsOf

LEMMA InitType == Init => TypeOK
<1> SUFFICES ASSUME Init PROVE TypeOK
  OBVIOUS
<1> USE DEF Init
<1>1. EnvTypeOK
  BY BoundsAssumption DEF EnvInit, EnvTypeOK, Times, Points
<1>2. MonTypeOK
  BY BoundsAssumption DEF MonInit, MonTypeOK, Idle, Times, Never
<1>3. SyncTypeOK
  <2>1. schema \subseteq Measurements
    BY <1>1, MeasurementsOfType DEF SyncInit
  <2> QED BY <2>1 DEF SyncInit, SyncTypeOK, NoJob
<1>4. stateLastOK \in [Servers -> Times \cup {Never}] /\ now \in Times
  BY <1>1, BoundsAssumption DEF EnvTypeOK, Times, EnvInit
<1> QED
  BY <1>1, <1>2, <1>3, <1>4, IntervalAssumption
     DEF TypeOK, Stages, NothingSeen, Windows

\* Steps of the surroundings and of the monitors.
LEMMA EnvironmentType == TypeOK /\ Environment => TypeOK'
<1> SUFFICES ASSUME TypeOK, Environment PROVE TypeOK'
  OBVIOUS
<1> USE DEF TypeOK, EnvTypeOK, Times
<1>1. EnvTypeOK'
  <2>1. CASE Tick
    <3>1. data' \in [Servers -> SUBSET Points]
      BY <2>1, BoundsAssumption DEF Tick, Points
    <3> QED BY <2>1, <3>1, BoundsAssumption DEF Tick
  <2>2. ASSUME NEW d \in Servers, DbFail(d) PROVE EnvTypeOK'
    BY <2>2, BoundsAssumption DEF DbFail, Points
  <2>3. ASSUME NEW d \in Servers, DbReturn(d) PROVE EnvTypeOK'
    BY <2>3 DEF DbReturn, Points
  <2> QED BY <2>1, <2>2, <2>3 DEF Environment
<1>2. (MonTypeOK /\ SyncTypeOK)'
  BY DEF Environment, monVars, syncVars, MonTypeOK, SyncTypeOK
<1> QED BY <1>1, <1>2 DEF Environment, hacVars

LEMMA MonitorType == ASSUME TypeOK, NEW d \in Servers, MonitorGo(d) PROVE TypeOK'
<1> USE DEF TypeOK, MonTypeOK
<1>1. (EnvTypeOK /\ MonTypeOK)'
  <2>1. CASE InitPing(d)
    <3>1. EnvTypeOK'
      BY <2>1 DEF InitPing, envVars, EnvTypeOK
    <3> QED BY <2>1, <3>1 DEF InitPing, EnvTypeOK
  <2>2. CASE InitPingError(d)
    <3>1. EnvTypeOK'
      BY <2>2, NoAnswerType DEF InitPingError, EnvTypeOK
    <3> QED BY <2>2, <3>1, BoundsAssumption DEF InitPingError, Times
  <2>3. CASE SetStatOK(d)
    <3>1. EnvTypeOK'
      BY <2>3 DEF SetStatOK, envVars, EnvTypeOK
    <3> QED BY <2>3, <3>1, BoundsAssumption DEF SetStatOK, EnvTypeOK, Idle, Times
  <2>4. CASE SetStatError(d)
    <3>1. EnvTypeOK'
      BY <2>4 DEF SetStatError, envVars, EnvTypeOK
    <3> QED BY <2>4, <3>1, BoundsAssumption DEF SetStatError, Idle, Times
  <2> QED BY <2>1, <2>2, <2>3, <2>4 DEF MonitorGo, Monitor
<1> QED BY <1>1 DEF MonitorGo, syncVars, hacVars, SyncTypeOK

-----------------------------------------------------------------------------
\* Steps of the supervisor.

LEMMA GetStateType ==
  ASSUME MonTypeOK, NEW d \in Servers
  PROVE  GetState(d) \in [ok : BOOLEAN, last : Times \cup {Never}]
BY DEF MonTypeOK, GetState

LEMMA CheckClusterType == TypeOK /\ CheckCluster => TypeOK'
<1> SUFFICES ASSUME TypeOK, CheckCluster PROVE TypeOK'
  OBVIOUS
<1> USE DEF TypeOK
<1>1. (EnvTypeOK /\ MonTypeOK /\ SyncTypeOK)' /\ restarts' = restarts
  BY DEF CheckCluster, envVars, monVars, syncVars, EnvTypeOK, MonTypeOK, SyncTypeOK
<1>2. seen' \in [ok : BOOLEAN, last : Times \cup {Never}]
  BY DEF CheckCluster, NothingSeen
<1> DEFINE slave == GetState(Slave)
<1>3. slave \in [ok : BOOLEAN, last : Times \cup {Never}]
  BY GetStateType
<1>4. /\ clusterState' \in {"OK", "CHECK_SLAVE_DOWN", "RECOVERING"}
      /\ stateOK' \in [Servers -> BOOLEAN]
      /\ stateLastOK' \in [Servers -> Times \cup {Never}]
      /\ numRecovers' \in Nat
      /\ sup' \in Stages
      /\ window' \in Windows
  <2> HIDE DEF slave
  <2> USE <1>3 DEF RecordBoth, RecordMaster, CheckEnds, Goto, Stages
  <2>1. CASE DetectedDown(slave)
    BY <2>1 DEF DetectedDown
  <2>2. CASE StillDown(slave)
    BY <2>2 DEF StillDown
  <2>3. CASE DetectedUp(slave)
    <3>1. slave.last \in Int /\ stateLastOK[Slave] \in Int
      BY BoundsAssumption DEF Times, Never
    <3>2. window' \in Windows
      BY <2>3, <3>1, IntervalAssumption DEF DetectedUp, BeginRecovery, Windows
    <3> QED BY <2>3, <3>2 DEF DetectedUp, BeginRecovery
  <2>4. CASE StillOK(slave)
    BY <2>4 DEF StillOK
  <2>5. CASE Unhandled(slave)
    BY <2>5 DEF Unhandled
  <2> QED BY <2>1, <2>2, <2>3, <2>4, <2>5 DEF CheckCluster, slave
<1> QED BY <1>1, <1>2, <1>4

\* Points only move from the master to the slave.
LEMMA CopyPointsType ==
  ASSUME EnvTypeOK, NEW P \in SUBSET Wanted, CopyPoints(P)
  PROVE  data' \in [Servers -> SUBSET Points]
<1>1. P \subseteq Points
  BY DEF Wanted, ChunkPoints
<1> QED BY <1>1 DEF EnvTypeOK, CopyPoints

LEMMA SyncStepType ==
  ASSUME EnvTypeOK, SyncTypeOK, SyncStep
  PROVE  (EnvTypeOK /\ SyncTypeOK)'
<1> USE DEF SyncTypeOK
<1>1. CASE CopyChunk
  <2>1. data' \in [Servers -> SUBSET Points]
    BY <1>1, CopyPointsType DEF CopyChunk
  <2>2. EnvTypeOK'
    BY <1>1, <2>1 DEF CopyChunk, EnvTypeOK
  <2>3. schema' = schema /\ bad' = bad /\ newBad' = newBad
    BY <1>1 DEF CopyChunk
  <2>4. job' \in [pass : {"none", "first", "repeat"}, start : Int, end : Int, i : Nat]
    BY <1>1 DEF CopyChunk
  <2> QED BY <2>2, <2>3, <2>4
<1>2. CASE BadChunk
  <2>1. PICK d \in Servers : NoAnswer(d)
    BY <1>2 DEF BadChunk
  <2>2. data' \in [Servers -> SUBSET Points]
    BY <1>2, CopyPointsType DEF BadChunk
  <2>3. EnvTypeOK'
    BY <2>1, <2>2, NoAnswerType DEF EnvTypeOK
  <2>4. ThisChunk \in Windows
    BY ThisChunkType
  <2>5. bad' \in Seq(Windows) /\ newBad' \in Seq(Windows)
    <3>1. Append(bad, ThisChunk) \in Seq(Windows) /\ Append(newBad, ThisChunk) \in Seq(Windows)
      BY <2>4
    <3> QED BY <1>2, <3>1 DEF BadChunk
  <2>6. job' \in [pass : {"none", "first", "repeat"}, start : Int, end : Int, i : Nat]
    BY <1>2 DEF BadChunk
  <2>7. schema' = schema
    BY <1>2 DEF BadChunk
  <2> QED BY <2>3, <2>5, <2>6, <2>7
<1>3. CASE RepeatBadChunk
  <2>1. Head(bad) \in Windows /\ Tail(bad) \in Seq(Windows)
    BY <1>3 DEF RepeatBadChunk
  <2>2. SyncTypeOK'
    BY <1>3, <2>1 DEF RepeatBadChunk, Windows
  <2> QED BY <1>3, <2>2 DEF RepeatBadChunk, envVars, EnvTypeOK
<1> QED BY <1>1, <1>2, <1>3 DEF SyncStep

LEMMA SupervisorType == TypeOK /\ Supervisor => TypeOK'
<1> SUFFICES ASSUME TypeOK, Supervisor PROVE TypeOK'
  OBVIOUS
<1> USE DEF TypeOK, Goto, Stages
<1>0. ASSUME envVars' = envVars PROVE EnvTypeOK'
  BY <1>0 DEF envVars, EnvTypeOK
<1>1. ASSUME monVars' = monVars PROVE MonTypeOK'
  BY <1>1 DEF monVars, MonTypeOK
<1>2. ASSUME syncVars' = syncVars PROVE SyncTypeOK'
  BY <1>2 DEF syncVars, SyncTypeOK
<1>3. CASE StartMaster \/ StartSlave
  BY <1>0, <1>1, <1>2, <1>3, GetStateType DEF StartMaster, StartSlave, StartRead
<1>4. CASE ReadMaster
  BY <1>0, <1>1, <1>2, <1>4, GetStateType DEF ReadMaster
<1>5. CASE CheckCluster
  BY <1>5, CheckClusterType
<1>6. CASE UpdateSlaveCli
  <2>1. MonTypeOK'
    BY <1>6 DEF UpdateSlaveCli, UpdateCli, MonTypeOK
  <2> QED BY <1>0, <1>2, <1>6, <2>1 DEF UpdateSlaveCli
<1>7. CASE ListDatabases
  <2>1. EnvTypeOK'
    BY <1>0, <1>7, NoAnswerType DEF ListDatabases, EnvTypeOK
  <2> QED BY <1>1, <1>2, <1>7, <2>1 DEF ListDatabases, Finish
<1>8. CASE ReadSchema
  <2>1. EnvTypeOK'
    BY <1>0, <1>8, NoAnswerType DEF ReadSchema, EnvTypeOK
  <2>2. SyncTypeOK'
    <3>1. CASE BeginSync(window.start, window.end)
      <4>1. window.start \in Int /\ window.end \in Int
        BY DEF Windows
      <4> QED BY <3>1, <4>1, MeasurementsOfType DEF BeginSync, SyncTypeOK
    <3>2. CASE UNCHANGED syncVars
      BY <1>2, <3>2
    <3> QED BY <1>8, <3>1, <3>2 DEF ReadSchema
  <2> QED BY <1>1, <1>8, <2>1, <2>2 DEF ReadSchema, Finish
<1>9. CASE Replicate
  BY <1>1, <1>9, SyncStepType DEF Replicate, hacVars
<1>10. CASE Recovered
  <2>1. SyncTypeOK'
    BY <1>10 DEF Recovered, SyncTypeOK, NoJob
  <2> QED BY <1>0, <1>1, <1>10, <2>1 DEF Recovered, Finish
<1> QED
  BY <1>3, <1>4, <1>5, <1>6, <1>7, <1>8, <1>9, <1>10 DEF Supervisor

LEMMA ProcessType == TypeOK /\ (Kill \/ Restart) => TypeOK'
<1> SUFFICES ASSUME TypeOK, Kill \/ Restart PROVE TypeOK'
  OBVIOUS
<1> USE DEF TypeOK
<1>1. CASE Kill
  BY <1>1 DEF Kill, Goto, Stages, envVars, monVars, syncVars, EnvTypeOK, MonTypeOK,
              SyncTypeOK
<1>2. CASE Restart
  <2>1. EnvTypeOK'
    BY <1>2 DEF Restart, envVars, EnvTypeOK
  <2>2. MonTypeOK'
    BY <1>2, BoundsAssumption DEF Restart, MonTypeOK, EnvTypeOK, Idle, Times
  <2>3. SyncTypeOK'
    BY <1>2, MeasurementsOfType DEF Restart, SyncTypeOK, NoJob
  <2>4. restarts' \in 0 .. MaxRestarts
    BY <1>2, IntervalAssumption DEF Restart
  <2>5. stateLastOK' \in [Servers -> Times \cup {Never}]
    BY <1>2 DEF Restart, EnvTypeOK
  <2> QED
    BY <1>2, <2>1, <2>2, <2>3, <2>4, <2>5 DEF Restart, Goto, Stages, NothingSeen
<1> QED BY <1>1, <1>2

LEMMA NextType == TypeOK /\ [Next]_vars => TypeOK'
<1> SUFFICES ASSUME TypeOK, [Next]_vars PROVE TypeOK'
  OBVIOUS
<1>1. CASE UNCHANGED vars
  BY <1>1 DEF vars, envVars, monVars, syncVars, hacVars, TypeOK, EnvTypeOK, MonTypeOK,
              SyncTypeOK
<1> QED
  BY <1>1, EnvironmentType, MonitorType, SupervisorType, ProcessType DEF Next

\* Every variable keeps the type that HACluster gives it.
THEOREM TypeCorrect == Spec => []TypeOK
<1>1. Init => TypeOK
  BY InitType
<1>2. TypeOK /\ [Next]_vars => TypeOK'
  BY NextType
<1> QED BY <1>1, <1>2, PTL DEF Spec

-----------------------------------------------------------------------------
\* The inductive invariant holds at the start.

LEMMA InitInv == Init => IInv
<1> SUFFICES ASSUME Init PROVE IInv
  OBVIOUS
<1>1. TypeOK
  BY InitType
<1> USE DEF Init, EnvInit, MonInit
<1>2. StateInv
  BY DEF StateInv, NeverFoundRecovering, Recovery
<1>3. TimeInv
  BY DEF TimeInv, Started, DownSlaveKnown, WindowSound, Never
<1>4. ClientInv
  BY DEF ClientInv, Recoveries, FreshClient, Recovery, Idle
<1> QED BY <1>1, <1>2, <1>3, <1>4 DEF IInv

-----------------------------------------------------------------------------
\* The supervisor and the state it shows.

\* What the inductive step reads off TypeOK.
LEMMA Types ==
  ASSUME TypeOK
  PROVE  /\ now \in Nat /\ now <= MaxTime
         /\ lastOK[Slave] \in Int /\ stateLastOK[Slave] \in Int
         /\ lastOK[Slave] = Never \/ lastOK[Slave] \in Times
         /\ stateLastOK[Slave] = Never \/ stateLastOK[Slave] \in Times
         /\ statusOK[Slave] \in BOOLEAN /\ stateOK[Slave] \in BOOLEAN
         /\ window.start \in Int /\ window.end \in Int
         /\ numRecovers \in Nat
         /\ outages[Slave] \in Nat /\ lastcli[Slave] \in Nat /\ cli[Slave] \in Nat
         /\ up[Slave] \in BOOLEAN
BY BoundsAssumption DEF TypeOK, EnvTypeOK, MonTypeOK, Times, Never, Windows

LEMMA StateStep == TypeOK /\ StateInv /\ [Next]_vars => StateInv'
<1> SUFFICES ASSUME TypeOK, StateInv, [Next]_vars PROVE StateInv'
  OBVIOUS
<1> USE DEF StateInv, NeverFoundRecovering, Recovery, Goto
<1>1. CASE clusterState' = clusterState /\ sup' = sup /\ numRecovers' = numRecovers
  BY <1>1
<1>2. CASE StartMaster \/ StartSlave
  BY <1>2 DEF StartMaster, StartSlave, StartRead
<1>3. CASE ReadMaster
  BY <1>3 DEF ReadMaster
<1>4. CASE CheckCluster
  <2> DEFINE slave == GetState(Slave)
  <2> HIDE DEF slave
  <2>1. sup = "readSlave"
    BY <1>4 DEF CheckCluster
  <2>2. CASE DetectedDown(slave) \/ StillDown(slave) \/ StillOK(slave) \/ Unhandled(slave)
    BY <2>1, <2>2 DEF DetectedDown, StillDown, StillOK, Unhandled, CheckEnds
  <2>3. CASE DetectedUp(slave)
    BY <2>3 DEF DetectedUp, BeginRecovery
  <2> QED BY <1>4, <2>2, <2>3 DEF CheckCluster, slave
<1>5. CASE UpdateSlaveCli
  BY <1>5 DEF UpdateSlaveCli
<1>6. CASE ListDatabases \/ ReadSchema \/ Recovered
  BY <1>6 DEF ListDatabases, ReadSchema, Recovered, Finish
<1>7. CASE Kill \/ Restart
  BY <1>7 DEF Kill, Restart
<1>8. CASE Environment \/ Replicate \/ UNCHANGED vars \/ \E d \in Servers : MonitorGo(d)
  BY <1>1, <1>8 DEF Environment, Replicate, MonitorGo, hacVars, vars
<1> QED
  BY <1>2, <1>3, <1>4, <1>5, <1>6, <1>7, <1>8 DEF Next, Supervisor

-----------------------------------------------------------------------------
\* The times: clock, monitor, cluster.

LEMMA TimeStep == TypeOK /\ TypeOK' /\ StateInv /\ TimeInv /\ [Next]_vars => TimeInv'
<1> SUFFICES ASSUME TypeOK, TypeOK', StateInv, TimeInv, [Next]_vars PROVE TimeInv'
  OBVIOUS
<1> USE Types, BoundsAssumption, IntervalAssumption
    DEF TimeInv, DownSlaveKnown, WindowSound, Started, Goto, GetState
<1> DEFINE SlaveRecord == << stateOK[Slave], stateLastOK[Slave] >>
           Frame == << clusterState, sup, SlaveRecord, window >>
\* Nothing of the cluster changes, the monitor keeps its record, time may pass.
<1>1. ASSUME Frame' = Frame, now' >= now,
             lastOK'[Slave] = lastOK[Slave], statusOK'[Slave] => statusOK[Slave]
      PROVE  TimeInv'
  <2>1. now' \in Int
    BY DEF TypeOK, EnvTypeOK, Times
  <2>2. /\ clusterState' = clusterState /\ sup' = sup /\ window' = window
        /\ stateOK'[Slave] = stateOK[Slave] /\ stateLastOK'[Slave] = stateLastOK[Slave]
    BY <1>1
  <2> QED BY <1>1, <2>1, <2>2
<1>2. CASE Environment
  BY <1>1, <1>2 DEF Environment, Tick, DbFail, DbReturn, monVars, hacVars
<1>3. ASSUME NEW d \in Servers, MonitorGo(d) PROVE TimeInv'
  <2>1. Frame' = Frame
    BY <1>3 DEF MonitorGo, hacVars
  <2>2. CASE InitPing(d)
    BY <1>1, <2>1, <2>2 DEF InitPing, envVars
  <2>3. CASE InitPingError(d)
    BY <1>1, <2>1, <2>3 DEF InitPingError, NoAnswer
  <2>4. CASE SetStatOK(d)
    <3>1. now' = now /\ now \in Times
      BY <2>4 DEF SetStatOK, envVars, Times
    <3>2. CASE d = Slave
      <4>1. lastOK'[Slave] = now
        BY <2>4, <3>2 DEF SetStatOK, TypeOK, MonTypeOK
      <4> QED BY <2>1, <3>1, <4>1
    <3>3. CASE d # Slave
      BY <1>1, <2>1, <2>4, <3>1, <3>3 DEF SetStatOK, TypeOK, MonTypeOK
    <3> QED BY <3>2, <3>3
  <2>5. CASE SetStatError(d)
    BY <1>1, <2>1, <2>5 DEF SetStatError, envVars, TypeOK, MonTypeOK
  <2> QED BY <1>3, <2>2, <2>3, <2>4, <2>5 DEF MonitorGo, Monitor
<1> DEFINE MonFrame == << now, statusOK, lastOK >>
<1>4. CASE StartMaster
  <2>1. MonFrame' = MonFrame /\ SlaveRecord' = SlaveRecord /\ clusterState' = "OK"
    BY <1>4, ServersAssumption
       DEF StartMaster, StartRead, envVars, monVars, TypeOK, StateInv
  <2>2. sup' = "startSlave"
    BY <1>4 DEF StartMaster, StartRead
  <2> QED BY <2>1, <2>2
<1>5. CASE StartSlave
  <2>1. MonFrame' = MonFrame /\ clusterState' = "OK"
    BY <1>5 DEF StartSlave, StartRead, envVars, monVars, StateInv
  <2>2. stateOK'[Slave] = statusOK[Slave] /\ stateLastOK'[Slave] = lastOK[Slave]
    BY <1>5 DEF StartSlave, StartRead, TypeOK
  <2> QED BY <2>1, <2>2
<1>6. CASE ReadMaster
  BY <1>1, <1>6 DEF ReadMaster, envVars, monVars
<1>7. CASE CheckCluster
  <2>1. MonFrame' = MonFrame /\ sup = "readSlave"
    BY <1>7 DEF CheckCluster, envVars, monVars
  <2> DEFINE slave == GetState(Slave)
  <2>2. slave.ok = statusOK[Slave] /\ slave.last = lastOK[Slave]
    OBVIOUS
  <2> HIDE DEF slave
  <2>3. ASSUME RecordBoth(slave)
        PROVE  stateOK'[Slave] = statusOK[Slave] /\ stateLastOK'[Slave] = lastOK[Slave]
    BY <2>2, <2>3, ServersAssumption DEF RecordBoth, TypeOK
  <2>4. CASE DetectedDown(slave)
    <3>1. stateOK[Slave] /\ ~statusOK[Slave] /\ RecordBoth(slave)
      BY <2>2, <2>4 DEF DetectedDown
    <3>2. stateLastOK[Slave] \in Times /\ stateLastOK[Slave] <= lastOK[Slave]
      BY <2>1, <3>1
    <3>3. lastOK[Slave] \in Times
      BY <3>2 DEF Times, Never
    <3>4. ~stateOK'[Slave] /\ stateLastOK'[Slave] = lastOK[Slave]
      BY <2>3, <3>1
    <3>5. clusterState' = "CHECK_SLAVE_DOWN" /\ sup' = "readMaster"
      BY <2>4 DEF DetectedDown, CheckEnds
    <3> QED BY <2>1, <3>3, <3>4, <3>5
  <2>5. CASE StillDown(slave)
    <3>1. SlaveRecord' = SlaveRecord
      BY <2>5, ServersAssumption DEF StillDown, RecordMaster, TypeOK
    <3> QED BY <2>1, <2>5, <3>1 DEF StillDown, CheckEnds
  <2>6. CASE DetectedUp(slave)
    <3>1. window' = [start |-> stateLastOK[Slave] - CheckInterval, end |-> lastOK[Slave]]
      BY <2>2, <2>6 DEF DetectedUp, BeginRecovery
    <3>2. SlaveRecord' = << TRUE, lastOK[Slave] >> /\ clusterState' = "RECOVERING"
      BY <2>2, <2>3, <2>6 DEF DetectedUp, BeginRecovery
    <3> QED BY <2>1, <2>2, <2>6, <3>1, <3>2 DEF DetectedUp, BeginRecovery
  <2>7. CASE StillOK(slave)
    BY <2>1, <2>2, <2>3, <2>7 DEF StillOK, CheckEnds
  <2>8. CASE Unhandled(slave)
    BY <2>1, <2>2, <2>8 DEF Unhandled, CheckEnds
  <2> QED BY <1>7, <2>4, <2>5, <2>6, <2>7, <2>8 DEF CheckCluster, slave
\* The later steps of a recovery read and write none of the times.
<1>8. ASSUME MonFrame' = MonFrame, SlaveRecord' = SlaveRecord, window' = window,
             sup \in Recovery, clusterState' \in {clusterState, "OK"}
      PROVE  TimeInv'
  BY <1>8 DEF StateInv, NeverFoundRecovering, Recovery
<1>9. CASE UpdateSlaveCli
  BY <1>8, <1>9 DEF UpdateSlaveCli, envVars, Recovery
<1>10. CASE ListDatabases
  BY <1>8, <1>10 DEF ListDatabases, Finish, NoAnswer, envVars, monVars, Recovery
<1>11. CASE ReadSchema
  BY <1>8, <1>11 DEF ReadSchema, Finish, NoAnswer, envVars, monVars, Recovery
<1>12. CASE Replicate
  BY <1>8, <1>12
     DEF Replicate, SyncStep, CopyChunk, BadChunk, RepeatBadChunk, NoAnswer, envVars,
         monVars, hacVars, Recovery
<1>13. CASE Recovered
  BY <1>8, <1>13 DEF Recovered, Finish, envVars, monVars, Recovery
<1>14. CASE Kill
  BY <1>14 DEF Kill, envVars, monVars
<1>15. CASE Restart
  <2>1. lastOK'[Slave] = Never /\ ~statusOK'[Slave] /\ now' = now
    BY <1>15 DEF Restart, envVars
  <2> QED BY <1>15, <2>1 DEF Restart, Never
<1>16. CASE UNCHANGED vars
  BY <1>1, <1>16 DEF vars, envVars, monVars, hacVars
<1> QED
  BY <1>2, <1>3, <1>4, <1>5, <1>6, <1>7, <1>9, <1>10, <1>11, <1>12, <1>13, <1>14,
     <1>15, <1>16 DEF Next, Supervisor

-----------------------------------------------------------------------------
\* The clients: one outage at least between two recoveries.

LEMMA ClientStep ==
  TypeOK /\ TypeOK' /\ StateInv /\ TimeInv /\ ClientInv /\ [Next]_vars => ClientInv'
<1> SUFFICES ASSUME TypeOK, TypeOK', StateInv, TimeInv, ClientInv, [Next]_vars
             PROVE  ClientInv'
  OBVIOUS
<1> USE Types DEF ClientInv, NewLife, Recoveries, FreshClient, Goto
\* What the monitor of the slave holds, and what the cluster holds.
<1> DEFINE MonFrame == /\ lastcli'[Slave] = lastcli[Slave]
                       /\ statusOK'[Slave] = statusOK[Slave]
                       /\ lastOK'[Slave] = lastOK[Slave]
                       /\ probe'[Slave] = probe[Slave]
           EnvFrame == outages'[Slave] = outages[Slave] /\ up'[Slave] = up[Slave]
           HacFrame == /\ clusterState' = clusterState /\ sup' = sup
                       /\ numRecovers' = numRecovers
                       /\ cli'[Slave] = cli[Slave]
<1>0. /\ outages'[Slave] \in Nat /\ lastcli'[Slave] \in Nat /\ cli'[Slave] \in Nat
      /\ numRecovers' \in Nat
  BY DEF TypeOK, EnvTypeOK, MonTypeOK
\* A server may go down, one outage later, or come back.
<1>1. ASSUME MonFrame, HacFrame,
             \/ outages'[Slave] >= outages[Slave] /\ up'[Slave] = up[Slave]
             \/ outages'[Slave] > outages[Slave]
             \/ outages'[Slave] = outages[Slave] /\ up'[Slave]
      PROVE  ClientInv'
  BY <1>0, <1>1
<1>2. CASE Environment
  <2>1. MonFrame /\ HacFrame
    BY <1>2 DEF Environment, monVars, hacVars
  <2>2. CASE Tick
    BY <1>1, <2>1, <2>2 DEF Tick
  <2>3. ASSUME NEW d \in Servers, DbFail(d) PROVE ClientInv'
    BY <1>1, <2>1, <2>3 DEF DbFail, TypeOK, EnvTypeOK
  <2>4. ASSUME NEW d \in Servers, DbReturn(d) PROVE ClientInv'
    BY <1>1, <2>1, <2>4 DEF DbReturn, TypeOK, EnvTypeOK
  <2> QED BY <1>2, <2>2, <2>3, <2>4 DEF Environment
\* A request without an answer: outages are only added.
<1>3. ASSUME NEW d \in Servers, NoAnswer(d)
      PROVE  outages'[Slave] >= outages[Slave] /\ up'[Slave] = up[Slave]
  BY <1>3, NoAnswerType DEF TypeOK
<1>4. ASSUME NEW d \in Servers, MonitorGo(d) PROVE ClientInv'
  <2>1. clusterState' = clusterState /\ sup' = sup /\ numRecovers' = numRecovers
    BY <1>4 DEF MonitorGo, hacVars
  <2>2. cli' = cli
    BY <1>4 DEF MonitorGo, Monitor, InitPing, InitPingError, SetStatOK, SetStatError
  <2>3. CASE d # Slave
    <3>1. MonFrame
      BY <1>4, <2>3 DEF MonitorGo, Monitor, InitPing, InitPingError, SetStatOK,
                         SetStatError, TypeOK, MonTypeOK
    <3>2. outages'[Slave] >= outages[Slave] /\ up'[Slave] = up[Slave]
      BY <1>3, <1>4 DEF MonitorGo, Monitor, InitPing, InitPingError, SetStatOK,
                         SetStatError, envVars
    <3> QED BY <1>1, <2>1, <2>2, <3>1, <3>2
  <2>4. CASE d = Slave
    <3>1. CASE InitPing(Slave)
      <4>1. /\ lastcli'[Slave] = outages[Slave] /\ probe'[Slave].state = "answered"
            /\ statusOK' = statusOK /\ lastOK' = lastOK
            /\ outages' = outages /\ up[Slave] /\ up' = up
        BY <3>1 DEF InitPing, envVars, TypeOK, MonTypeOK
      <4> QED BY <2>1, <2>2, <4>1
    <3>2. CASE InitPingError(Slave)
      <4>1. /\ lastcli'[Slave] = lastcli[Slave] /\ probe'[Slave].state = "failed"
            /\ statusOK' = statusOK /\ lastOK' = lastOK
        BY <3>2 DEF InitPingError, TypeOK, MonTypeOK
      <4>2. /\ outages'[Slave] >= outages[Slave]
            /\ ~up[Slave] \/ outages'[Slave] > outages[Slave]
        BY <1>3, <3>2 DEF InitPingError, NoAnswer, TypeOK, EnvTypeOK
      <4>3. outages'[Slave] > lastcli[Slave]
        BY <1>0, <4>2
      <4> QED BY <1>0, <2>1, <2>2, <4>1, <4>2, <4>3
    <3>3. CASE SetStatOK(Slave)
      <4>1. /\ lastcli' = lastcli /\ outages' = outages /\ up' = up
            /\ probe[Slave].state = "answered" /\ probe'[Slave].state = "idle"
            /\ statusOK'[Slave]
        BY <3>3 DEF SetStatOK, envVars, Idle, TypeOK, MonTypeOK
      <4> QED BY <2>1, <2>2, <4>1
    <3>4. CASE SetStatError(Slave)
      <4>1. /\ lastcli' = lastcli /\ outages' = outages /\ up' = up
            /\ probe[Slave].state = "failed" /\ probe'[Slave].state = "idle"
            /\ ~statusOK'[Slave] /\ lastOK' = lastOK
        BY <3>4 DEF SetStatError, envVars, Idle, TypeOK, MonTypeOK
      <4>2. Recoveries' = Recoveries /\ Recoveries \in Nat /\ numRecovers <= Recoveries
        BY <2>1
      <4>3. outages[Slave] > Recoveries
        BY <4>1, <4>2
      <4>4. NewLife(Recoveries)' /\ NewLife(numRecovers)'
        BY <2>1, <4>1, <4>2, <4>3
      <4>5. FreshClient'
        BY <2>1, <2>2
      <4> HIDE DEF NewLife, Recoveries, FreshClient
      <4> QED BY <4>1, <4>2, <4>4, <4>5
    <3> QED BY <1>4, <2>4, <3>1, <3>2, <3>3, <3>4 DEF MonitorGo, Monitor
  <2> QED BY <2>3, <2>4
\* Steps that neither begin nor end a recovery.
<1>5. ASSUME MonFrame, EnvFrame, numRecovers' = numRecovers, cli' = cli,
             clusterState' = clusterState, sup \notin Recovery, sup' \notin Recovery
      PROVE  ClientInv'
  BY <1>0, <1>5
<1>6. CASE StartMaster \/ StartSlave
  BY <1>5, <1>6 DEF StartMaster, StartSlave, StartRead, envVars, monVars, Recovery
<1>7. CASE ReadMaster
  BY <1>5, <1>7 DEF ReadMaster, envVars, monVars, Recovery
<1>8. CASE CheckCluster
  <2>1. MonFrame /\ EnvFrame /\ cli' = cli /\ sup = "readSlave"
    BY <1>8 DEF CheckCluster, envVars, monVars
  <2> DEFINE slave == GetState(Slave)
  <2>2. slave.ok = statusOK[Slave]
    BY DEF GetState
  <2> HIDE DEF slave
  <2>3. CASE DetectedDown(slave)
    <3>1. ~statusOK[Slave] /\ stateOK[Slave]
      BY <2>2, <2>3 DEF DetectedDown
    <3>2. lastOK[Slave] # Never
      BY <2>1, <3>1 DEF TimeInv, Started, Times, Never
    <3>3. /\ clusterState' = "CHECK_SLAVE_DOWN" /\ sup' = "readMaster"
          /\ numRecovers' = numRecovers
      BY <2>3 DEF DetectedDown, CheckEnds
    <3>4. Recoveries = numRecovers /\ Recoveries' = numRecovers
      BY <2>1, <3>3 DEF Recovery
    <3> QED BY <1>0, <2>1, <3>1, <3>2, <3>3, <3>4 DEF Recovery
  <2>4. CASE StillDown(slave) \/ StillOK(slave) \/ Unhandled(slave)
    BY <1>5, <2>1, <2>4 DEF StillDown, StillOK, Unhandled, CheckEnds, Recovery
  <2>5. CASE DetectedUp(slave)
    <3>1. statusOK[Slave] /\ clusterState = "CHECK_SLAVE_DOWN"
      BY <2>2, <2>5 DEF DetectedUp, BeginRecovery
    <3>2. /\ sup' = "update" /\ numRecovers' = numRecovers
          /\ clusterState' = "RECOVERING"
      BY <2>5 DEF DetectedUp, BeginRecovery
    <3>3. lastcli[Slave] > numRecovers
      BY <3>1
    <3>4. Recoveries' = numRecovers + 1
      BY <3>2 DEF Recovery
    <3> QED BY <1>0, <2>1, <3>1, <3>2, <3>3, <3>4 DEF Recovery
  <2> QED BY <1>8, <2>3, <2>4, <2>5 DEF CheckCluster, slave
<1>9. CASE UpdateSlaveCli
  <2>1. MonFrame /\ EnvFrame /\ cli'[Slave] = lastcli[Slave]
    BY <1>9 DEF UpdateSlaveCli, UpdateCli, envVars, TypeOK, MonTypeOK
  <2>2. /\ sup = "update" /\ sup' = "databases" /\ numRecovers' = numRecovers
        /\ clusterState' = clusterState
    BY <1>9 DEF UpdateSlaveCli
  <2> QED BY <1>0, <2>1, <2>2 DEF Recovery
\* The other steps of a recovery: it goes on, or is counted, or the process ends.
<1>10. ASSUME MonFrame, cli' = cli,
              outages'[Slave] >= outages[Slave], up'[Slave] = up[Slave],
              sup \in Recovery \ {"update"},
              \/ /\ sup' \in Recovery \ {"update"} /\ numRecovers' = numRecovers
                 /\ clusterState' = clusterState
              \/ Finish
              \/ /\ sup' = "crashed" /\ numRecovers' = numRecovers
                 /\ clusterState' = clusterState
       PROVE  ClientInv'
  <2>1. clusterState = "RECOVERING"
    BY <1>10 DEF StateInv, NeverFoundRecovering
  <2>2. clusterState' # "CHECK_SLAVE_DOWN"
    BY <1>10, <2>1 DEF Finish
  <2>3. Recoveries = numRecovers + 1
    BY <1>10
  <2>4. CASE Recoveries' = Recoveries
    <3>1. sup' \in Recovery => numRecovers' = numRecovers /\ sup \in Recovery \ {"update"}
      BY <1>10 DEF Finish, Recovery
    <3>2. NewLife(Recoveries) => NewLife(Recoveries)'
      BY <1>0, <1>10, <2>3, <2>4
    <3>3. FreshClient'
      BY <1>10, <3>1
    <3> HIDE DEF NewLife, Recoveries, FreshClient
    <3> QED BY <1>0, <1>10, <2>2, <2>3, <2>4, <3>2, <3>3
  <2>5. CASE Recoveries' = numRecovers /\ sup' = "crashed"
    <3>1. NewLife(Recoveries) => NewLife(Recoveries)'
      BY <1>0, <1>10, <2>3, <2>5
    <3>2. FreshClient'
      BY <2>5 DEF Recovery
    <3> HIDE DEF NewLife, Recoveries, FreshClient
    <3> QED BY <1>0, <1>10, <2>2, <2>3, <2>5, <3>1, <3>2
  <2> QED BY <1>10, <2>3, <2>4, <2>5 DEF Finish, Recovery
<1>11. CASE ListDatabases
  <2>1. outages'[Slave] >= outages[Slave] /\ up'[Slave] = up[Slave]
    BY <1>3, <1>11 DEF ListDatabases, envVars
  <2> QED BY <1>10, <1>11, <2>1 DEF ListDatabases, monVars, Recovery
<1>12. CASE ReadSchema
  <2>1. outages'[Slave] >= outages[Slave] /\ up'[Slave] = up[Slave]
    BY <1>3, <1>12 DEF ReadSchema, envVars
  <2> QED BY <1>10, <1>12, <2>1 DEF ReadSchema, monVars, Recovery
<1>13. CASE Replicate
  <2>1. outages'[Slave] >= outages[Slave] /\ up'[Slave] = up[Slave]
    BY <1>3, <1>13 DEF Replicate, SyncStep, CopyChunk, BadChunk, RepeatBadChunk, envVars
  <2> QED BY <1>10, <1>13, <2>1 DEF Replicate, monVars, hacVars, Recovery
<1>14. CASE Recovered
  BY <1>10, <1>14 DEF Recovered, envVars, monVars, Recovery
<1>15. CASE Kill
  <2>1. MonFrame /\ EnvFrame /\ sup' = "crashed"
    BY <1>15 DEF Kill, envVars, monVars
  <2>2. numRecovers' = numRecovers /\ clusterState' = clusterState
    BY <1>15 DEF Kill
  <2> QED BY <1>0, <2>1, <2>2 DEF Recovery
<1>16. CASE Restart
  <2>1. /\ lastcli'[Slave] = outages[Slave] /\ outages' = outages
        /\ up[Slave] /\ up' = up /\ lastOK'[Slave] = Never
        /\ probe'[Slave].state = "idle"
    BY <1>16 DEF Restart, envVars, Idle
  <2>2. sup' = "startMaster" /\ numRecovers' = 0 /\ clusterState' = "OK"
    BY <1>16 DEF Restart
  <2> QED BY <1>0, <2>1, <2>2 DEF Recovery
<1>17. CASE UNCHANGED vars
  BY <1>1, <1>17 DEF vars, envVars, monVars, hacVars
<1> QED
  BY <1>2, <1>4, <1>6, <1>7, <1>8, <1>9, <1>11, <1>12, <1>13, <1>14, <1>15, <1>16, <1>17
     DEF Next, Supervisor

-----------------------------------------------------------------------------
\* The theorems

LEMMA Inductive == IInv /\ [Next]_vars => IInv'
BY NextType, StateStep, TimeStep, ClientStep DEF IInv

THEOREM Invariance == Spec => []IInv
<1>1. Init => IInv
  BY InitInv
<1>2. IInv /\ [Next]_vars => IInv'
  BY Inductive
<1> QED BY <1>1, <1>2, PTL DEF Spec

\* The RECOVERING case of checkCluster is never taken, and a recovery is never
\* shown as anything else.
THEOREM RecoveringShown == Spec => []NeverFoundRecovering
<1>1. IInv => NeverFoundRecovering
  BY DEF IInv, StateInv
<1> QED BY <1>1, Invariance, PTL

\* A recovery writes through a client that was made after the outage.
THEOREM ClientsFresh == Spec => []FreshClient
<1>1. IInv => FreshClient
  BY DEF IInv, ClientInv
<1> QED BY <1>1, Invariance, PTL

\* A slave that is found down was known to be good at a real time.
THEOREM DownKnown == Spec => []DownSlaveKnown
<1>1. IInv => DownSlaveKnown
  BY DEF IInv, TimeInv
<1> QED BY <1>1, Invariance, PTL

\* No recovery has a reversed window, or one that reaches into the future.
THEOREM WindowsSound == Spec => []WindowSound
<1>1. IInv => WindowSound
  BY DEF IInv, TimeInv
<1> QED BY <1>1, Invariance, PTL

-----------------------------------------------------------------------------
\* The schema of a recovery

\* Points of a time that has come, and the schema, stay as they are.
LEMMA SchemaKept ==
  ASSUME SchemaCovers, sup = "sync" \/ sup' # "sync", schema' = schema, window' = window,
         \A p \in data'[Master] : p \in data[Master] \/ ~(p[2] <= window.end)
  PROVE  SchemaCovers'
<1> SUFFICES ASSUME sup' = "sync", NEW p \in data'[Master], p[2] <= window.end
             PROVE  p[1] \in schema
  BY DEF SchemaCovers, MeasurementsOf
<1> QED BY DEF SchemaCovers, MeasurementsOf

LEMMA SchemaStep == IInv /\ SchemaCovers /\ [Next]_vars => SchemaCovers'
<1> SUFFICES ASSUME IInv, SchemaCovers, [Next]_vars PROVE SchemaCovers'
  OBVIOUS
<1> USE DEF Goto
<1>t. TypeOK
  BY DEF IInv
<1>1. CASE Environment
  <2>1. sup' = sup /\ schema' = schema /\ window' = window
    BY <1>1 DEF Environment, syncVars, hacVars
  <2>2. CASE sup = "sync" /\ Tick
    <3>1. window.end <= now /\ now \in Nat /\ window.end \in Int
      BY <1>t, <2>2, Types DEF IInv, StateInv, TimeInv, NeverFoundRecovering, WindowSound,
         Recovery, TypeOK, Windows
    <3>2. \A p \in data'[Master] : p \in data[Master] \/ p[2] = now + 1
      BY <1>t, <2>2 DEF Tick, Servers, TypeOK, EnvTypeOK
    <3>3. \A p \in data'[Master] : p \in data[Master] \/ ~(p[2] <= window.end)
      BY <3>1, <3>2
    <3> QED BY <2>1, <2>2, <3>3, SchemaKept
  <2>3. CASE sup # "sync"
    BY <2>1, <2>3 DEF SchemaCovers
  <2>4. CASE data' = data
    BY <2>1, <2>4, SchemaKept
  <2> QED BY <1>1, <2>2, <2>3, <2>4 DEF Environment, DbFail, DbReturn
<1>2. CASE \E d \in Servers : MonitorGo(d)
  <2>1. sup' = sup /\ schema' = schema /\ window' = window /\ data' = data
    BY <1>2
    DEF MonitorGo, Monitor, InitPing, InitPingError, SetStatOK, SetStatError, NoAnswer,
        envVars, syncVars, hacVars
  <2> QED BY <2>1, SchemaKept
<1>3. CASE Replicate
  <2>1. sup' = sup /\ window' = window
    BY <1>3 DEF Replicate, hacVars
  <2>2. schema' = schema
    BY <1>3 DEF Replicate, SyncStep, CopyChunk, BadChunk, RepeatBadChunk
  <2>3. data'[Master] = data[Master]
    BY <1>t, <1>3, ServersAssumption
    DEF Replicate, SyncStep, CopyChunk, BadChunk, RepeatBadChunk, CopyPoints, envVars,
        TypeOK, EnvTypeOK, Servers
  <2> QED BY <2>1, <2>2, <2>3, SchemaKept
<1>4. CASE ReadSchema
  <2>1. CASE sup' = "sync"
    <3>1. schema' = MeasurementsOf(data[Master]) /\ data' = data
      BY <1>4, <2>1 DEF ReadSchema, BeginSync, Finish, envVars
    <3> QED BY <3>1 DEF SchemaCovers, MeasurementsOf
  <2> QED BY <2>1 DEF SchemaCovers
<1>5. CASE UNCHANGED vars
  <2>1. sup' = sup /\ schema' = schema /\ window' = window /\ data' = data
    BY <1>5 DEF vars, envVars, syncVars, hacVars
  <2> QED BY <2>1, SchemaKept
<1>6. ASSUME sup' # "sync" PROVE SchemaCovers'
  BY <1>6 DEF SchemaCovers
<1>7. CASE StartMaster \/ StartSlave \/ ReadMaster \/ CheckCluster
  <2>1. sup' # "sync"
    BY <1>7
    DEF StartMaster, StartSlave, StartRead, ReadMaster, CheckCluster, DetectedDown,
        StillDown, DetectedUp, BeginRecovery, StillOK, Unhandled, CheckEnds
  <2> QED BY <1>6, <2>1
<1>8. CASE UpdateSlaveCli \/ ListDatabases \/ Recovered
  <2>1. sup' # "sync"
    BY <1>8 DEF UpdateSlaveCli, ListDatabases, Recovered, Finish
  <2> QED BY <1>6, <2>1
<1>9. CASE Kill \/ Restart
  <2>1. sup' # "sync"
    BY <1>9 DEF Kill, Restart
  <2> QED BY <1>6, <2>1
<1> QED
  BY <1>1, <1>2, <1>3, <1>4, <1>5, <1>7, <1>8, <1>9 DEF Next, Supervisor

\* A recovery knows every measurement and field of its window: the schema is read
\* after the window has ended, so that what is new in it is known.
THEOREM SchemaComplete == Spec => []SchemaCovers
<1>1. Init => SchemaCovers
  BY DEF Init, SchemaCovers
<1>2. (IInv /\ SchemaCovers) /\ [Next]_vars => (IInv /\ SchemaCovers)'
  BY Inductive, SchemaStep
<1>3. Init => IInv
  BY InitInv
<1> QED BY <1>1, <1>2, <1>3, PTL DEF Spec

-----------------------------------------------------------------------------
\* The supervisor implements the abstract cycle.

LEMMA CycleInitially == Init => Cycle!CycleInit
BY DEF Init, Cycle!CycleInit, Started, Never, Cycle!Unknown

LEMMA CycleStep == IInv /\ IInv' /\ [Next]_vars => [Cycle!CycleNext]_(Cycle!cycleVars)
<1> SUFFICES ASSUME IInv, IInv', [Next]_vars
             PROVE  [Cycle!CycleNext]_(Cycle!cycleVars)
  OBVIOUS
<1> USE Types DEF Goto, Cycle!cycleVars, Cycle!CycleNext
<1>t. TypeOK /\ TypeOK'
  BY DEF IInv
<1>0. /\ stateLastOK[Slave] \in Times \cup {Never}
      /\ stateLastOK'[Slave] \in Times \cup {Never}
      /\ Times \subseteq Nat /\ Never = Cycle!Unknown
  BY <1>t, BoundsAssumption DEF TypeOK, Times, Never, Cycle!Unknown
\* A step between two positions of a running supervisor, which changes nothing of
\* what the cycle shows.
<1>1. ASSUME Started, Started', clusterState' = clusterState,
             numRecovers' = numRecovers, stateLastOK'[Slave] = stateLastOK[Slave],
             window' = window
      PROVE  UNCHANGED Cycle!cycleVars
  BY <1>1 DEF Started
\* A step while no supervisor runs.
<1>2. ASSUME ~Started, ~Started', window' = window
      PROVE  UNCHANGED Cycle!cycleVars
  BY <1>2 DEF Started
\* The process ends.
<1>e. ASSUME Started, ~Started', window' = window
      PROVE  Cycle!Stop
  BY <1>0, <1>e DEF Cycle!Stop
<1>3. CASE Environment \/ (\E d \in Servers : MonitorGo(d)) \/ Replicate \/ UNCHANGED vars
  <2>1. hacVars' = hacVars
    BY <1>3 DEF Environment, MonitorGo, Replicate, vars
  <2> QED BY <2>1 DEF hacVars, Started
<1>4. CASE StartMaster
  BY <1>2, <1>4 DEF StartMaster, StartRead, Started
\* The first read may find that nothing is known of the slave.
<1>5. CASE StartSlave
  <2>1. /\ clusterState = "OK" /\ numRecovers = 0 /\ ~Started /\ Started'
        /\ clusterState' = clusterState /\ numRecovers' = numRecovers /\ window' = window
    BY <1>5 DEF StartSlave, StartRead, IInv, StateInv, Started
  <2>2. Cycle!Start
    BY <1>0, <2>1 DEF Cycle!Start, Cycle!Times
  <2> QED BY <2>2
<1>6. CASE ReadMaster
  BY <1>1, <1>6 DEF ReadMaster, Started
<1>7. CASE CheckCluster
  <2> DEFINE slave == GetState(Slave)
  <2>1. sup = "readSlave"
    BY <1>7 DEF CheckCluster
  <2>2. /\ slave.ok = statusOK[Slave] /\ slave.last = lastOK[Slave]
        /\ stateLastOK[Slave] <= lastOK[Slave]
        /\ stateOK[Slave] => stateLastOK[Slave] \in Nat
        /\ clusterState = "CHECK_SLAVE_DOWN" => stateLastOK[Slave] \in Nat
        /\ lastOK[Slave] \in Nat \/ lastOK[Slave] = -1
    <3>1. Times \subseteq Nat
      BY <1>0
    <3>2. lastOK[Slave] \in Nat \/ lastOK[Slave] = -1
      BY <1>t, BoundsAssumption DEF Times, Never
    <3> QED BY <1>t, <2>1, <3>1, <3>2
       DEF GetState, IInv, TimeInv, Started, DownSlaveKnown, TypeOK, MonTypeOK
  <2> HIDE DEF slave
  <2>3. ASSUME RecordBoth(slave) PROVE stateLastOK'[Slave] = lastOK[Slave]
    BY <1>t, <2>2, <2>3, ServersAssumption DEF RecordBoth, TypeOK
  <2>4. CASE DetectedDown(slave)
    <3>1. /\ clusterState = "OK"
          /\ stateOK[Slave]
      BY <2>1, <2>4, <1>t
         DEF DetectedDown, TypeOK, IInv, StateInv, NeverFoundRecovering, Recovery,
             TimeInv, DownSlaveKnown
    <3>2. stateLastOK'[Slave] = lastOK[Slave] /\ lastOK[Slave] \in Nat
      BY <1>t, <2>2, <2>3, <2>4, <3>1 DEF DetectedDown
    <3>3. Cycle!Down
      BY <2>1, <2>2, <2>4, <3>1, <3>2 DEF Cycle!Down, DetectedDown, CheckEnds, Started
    <3> QED BY <3>3
  <2>5. CASE StillDown(slave)
    BY <1>1, <1>t, <2>1, <2>5, ServersAssumption
       DEF StillDown, RecordMaster, CheckEnds, TypeOK, Started
  <2>6. CASE DetectedUp(slave)
    <3>1. stateLastOK'[Slave] = lastOK[Slave] /\ stateLastOK[Slave] \in Nat
      BY <2>2, <2>3, <2>6 DEF DetectedUp, BeginRecovery
    <3>2. lastOK[Slave] \in Nat
      BY <1>t, <2>2, <3>1
    <3>3. window' = [start |-> stateLastOK[Slave] - CheckInterval,
                     end |-> stateLastOK'[Slave]]
      BY <2>2, <2>6, <3>1 DEF DetectedUp, BeginRecovery
    <3>4. /\ clusterState = "CHECK_SLAVE_DOWN" /\ clusterState' = "RECOVERING"
          /\ sup' = "update" /\ numRecovers' = numRecovers
      BY <2>6 DEF DetectedUp, BeginRecovery
    <3>5. Cycle!Recover
      BY <2>1, <2>2, <3>1, <3>2, <3>3, <3>4 DEF Cycle!Recover, Started
    <3> QED BY <3>5
  <2>7. CASE StillOK(slave)
    <3>1. stateLastOK'[Slave] = lastOK[Slave]
      BY <2>3, <2>7 DEF StillOK
    <3>2. stateLastOK'[Slave] \in Cycle!Times
      BY <1>0 DEF Cycle!Times
    <3>3. /\ clusterState = "OK" /\ clusterState' = "OK" /\ sup' = "readMaster"
          /\ numRecovers' = numRecovers /\ window' = window
      BY <2>7 DEF StillOK, CheckEnds
    <3>4. Cycle!Alive
      BY <2>1, <2>2, <3>1, <3>2, <3>3 DEF Cycle!Alive, Started
    <3> QED BY <3>4
  <2>8. CASE Unhandled(slave)
    BY <1>1, <2>1, <2>8 DEF Unhandled, CheckEnds, Started
  <2> QED BY <1>7, <2>4, <2>5, <2>6, <2>7, <2>8 DEF CheckCluster, slave
<1>8. CASE UpdateSlaveCli
  BY <1>1, <1>8 DEF UpdateSlaveCli, Started
\* The end of a recovery.
<1>9. ASSUME sup \in Recovery, Finish, window' = window, stateLastOK' = stateLastOK
      PROVE  Cycle!Recovered
  <2>1. clusterState = "RECOVERING"
    BY <1>9 DEF IInv, StateInv, NeverFoundRecovering
  <2> QED BY <1>9, <2>1 DEF Cycle!Recovered, Finish, Recovery, Started
<1>10. CASE ListDatabases
  BY <1>1, <1>9, <1>10 DEF ListDatabases, Recovery, Started
<1>11. CASE ReadSchema
  BY <1>1, <1>9, <1>11, <1>e DEF ReadSchema, Recovery, Started
<1>12. CASE Recovered
  BY <1>9, <1>12 DEF Recovered, Recovery
<1>13. CASE Kill \/ Restart
  BY <1>2, <1>13, <1>e DEF Kill, Restart, Started
<1> QED
  BY <1>3, <1>4, <1>5, <1>6, <1>7, <1>8, <1>10, <1>11, <1>12, <1>13 DEF Next, Supervisor

\* Every behaviour of the cluster is one of the cycle that the comment above
\* checkCluster names, with the windows that ClusterCycle promises: from the first
\* reads of a supervisor to the end of its process, a slave found down comes back to
\* OK through a recovery only, which is counted.
THEOREM CycleImplemented == Spec => ImplementsCycle
<1>1. Init => Cycle!CycleInit
  BY CycleInitially
<1>2. IInv /\ IInv' /\ [Next]_vars => [Cycle!CycleNext]_(Cycle!cycleVars)
  BY CycleStep
<1> QED BY <1>1, <1>2, Invariance, PTL DEF Spec, ImplementsCycle, Cycle!CycleSpec

=============================================================================
