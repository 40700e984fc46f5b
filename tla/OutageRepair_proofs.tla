------------------------ MODULE OutageRepair_proofs -------------------------
(***************************************************************************)
(* The end-to-end theorem: what the slave missed while it was down is      *)
(* copied when it is back, for every number of servers' points, outages    *)
(* and checks, under LongOutages and for a process that lives.             *)
(***************************************************************************)
EXTENDS OutageRepair, HACluster_proofs

USE DEF Servers

-----------------------------------------------------------------------------
\* What the theorem assumes

\* The process is not killed; the chunks of both passes are whole seconds; an answer
\* to a ping is recorded within the margin that is taken from the last good time (and
\* a tick: a point that is lost is later than the answer).
RepairAssumed ==
  /\ MaxRestarts = 0
  /\ WholeChunks
  /\ MaxLag <= CheckInterval + 1

-----------------------------------------------------------------------------
\* The inductive invariant

\* What no recovery has brought yet, or left out.
Lost == Missing \ gaps

\* Nothing is stamped with a time to come, and no answer is too old.
ClockInv ==
  /\ LagBounded
  /\ probe[Slave].at <= now
  /\ \A d \in Servers : \A p \in data[d] : p[2] <= now

\* The slave's monitor and the cluster agree on whether it is down: an outage begins
\* when both hold it for good, and ends when the cluster knows of it, so that a good
\* record is never one from before the outage.
AwareInv ==
  /\ clusterState = "OK" /\ ~up[Slave] => Started /\ stateOK[Slave]
  /\ clusterState = "OK" /\ up[Slave] /\ Started /\ stateOK[Slave] => statusOK[Slave]
  /\ clusterState # "CHECK_SLAVE_DOWN" /\ up[Slave] => probe[Slave].state # "failed"
  /\ ~up[Slave] /\ ~statusOK[Slave] => probe[Slave].state # "answered"
  /\ clusterState = "CHECK_SLAVE_DOWN" /\ statusOK[Slave] =>
       up[Slave] /\ probe[Slave].state # "failed"
  /\ clusterState = "RECOVERING" => up[Master] /\ up[Slave] /\ statusOK[Slave]

\* No point was lost before the last answer of the slave, which was recorded MaxLag
\* ticks later at most, and none after the first answer since.
LostInv ==
  /\ OutageRepaired
  /\ clusterState = "OK" /\ ~up[Slave] =>
       \A p \in Lost : /\ lastOK[Slave] < p[2] + MaxLag
                       /\ probe[Slave].state = "answered" => probe[Slave].at < p[2]
  /\ clusterState = "CHECK_SLAVE_DOWN" =>
       \A p \in Lost : /\ stateLastOK[Slave] < p[2] + MaxLag
                       /\ statusOK[Slave] => p[2] <= lastOK[Slave]
  /\ clusterState = "RECOVERING" =>
       \A p \in Lost : window.start <= p[2] /\ p[2] <= window.end

\* The copy has met no error, and its chunks that are left have all that is lost.
CopyInv ==
  sup = "sync" =>
    /\ job.pass = "first" /\ job.start = window.start /\ job.end = window.end
    /\ bad = << >>
    /\ Lost \subseteq Rest(Points) \cup LeftOut

RInv ==
  /\ sup # "crashed"
  /\ ClockInv /\ AwareInv /\ LostInv /\ CopyInv

-----------------------------------------------------------------------------
\* What LongOutages leaves possible

\* No request is lost on the way: one without an answer went to a server that is down.
LEMMA OnlyOutages ==
  ASSUME TypeOK, LongOutages, NEW d \in Servers, NoAnswer(d)
  PROVE  ~up[d] /\ up' = up /\ outages' = outages /\ now' = now
<1>1. ~(up[d] /\ outages' = [outages EXCEPT ![d] = @ + 1])
  BY DEF LongOutages, NoAnswer, TypeOK, EnvTypeOK
<1> QED BY <1>1 DEF NoAnswer

\* A server goes down in these states only.
LEMMA FailWhen ==
  ASSUME TypeOK, LongOutages, NEW d \in Servers, DbFail(d)
  PROVE  /\ sup \in {"readMaster", "readSlave"}
         /\ clusterState = "OK" \/ (clusterState = "CHECK_SLAVE_DOWN" /\ d # Slave)
         /\ ~up'[Slave] => stateOK[Slave]
<1>1. outages' # outages
  BY DEF DbFail, TypeOK, EnvTypeOK
<1>2. d = Slave => up'[Slave] # up[Slave]
  BY DEF DbFail, TypeOK, EnvTypeOK
<1> QED BY <1>1, <1>2 DEF LongOutages

\* The process lives.
LEMMA NoRestarts ==
  ASSUME TypeOK, RepairAssumed PROVE ~Kill /\ ~Restart
BY DEF TypeOK, RepairAssumed, Kill, Restart

-----------------------------------------------------------------------------
\* What is lost

\* A step that takes no point from the slave, and gives none to the master.
LEMMA LostShrinks ==
  ASSUME data'[Master] \subseteq data[Master], data[Slave] \subseteq data'[Slave],
         gaps \subseteq gaps'
  PROVE  Lost' \subseteq Lost
BY DEF Lost, Missing

LEMMA GapsGrow ==
  ASSUME TypeOK, RepairNext
  PROVE  /\ gaps \subseteq gaps'
         /\ numRecovers' = numRecovers => gaps' = gaps
         /\ numRecovers' = numRecovers + 1 => gaps' = gaps \cup LeftOut
<1>1. numRecovers \in Nat
  BY DEF TypeOK
<1> QED BY <1>1 DEF RepairNext

\* Time passes: the points that are lost then are those of the new tick.
LEMMA LostByTick ==
  ASSUME TypeOK, Tick, gaps' = gaps
  PROVE  /\ \A p \in Lost' : p \in Lost \/ p[2] = now + 1
         /\ up[Slave] => Lost' \subseteq Lost
<1> DEFINE new == {m \in Measurements : Born[m] <= now + 1} \X {now + 1}
<1>1. /\ data'[Master] \subseteq data[Master] \cup new
      /\ data[Slave] \subseteq data'[Slave]
      /\ up[Slave] => data'[Slave] = data[Slave] \cup new
  BY DEF Tick, TypeOK, EnvTypeOK
<1>2. \A p \in new : p[2] = now + 1
  OBVIOUS
<1> HIDE DEF new
<1> QED BY <1>1, <1>2 DEF Lost, Missing

LEMMA LostType ==
  ASSUME TypeOK
  PROVE  \A p \in Lost : p \in data[Master] /\ p \in Points /\ p[2] \in Times /\ p[2] \in Int
BY BoundsAssumption DEF TypeOK, EnvTypeOK, Lost, Missing, Points, Times

-----------------------------------------------------------------------------
\* The steps of the supervisor, as they are under LongOutages

\* What the cluster knows when the supervisor is in each of its stages.
LEMMA Known ==
  ASSUME IInv, sup # "crashed"
  PROVE  /\ sup \in {"startMaster", "startSlave"} => clusterState = "OK"
         /\ clusterState = "CHECK_SLAVE_DOWN" => Started /\ ~stateOK[Slave]
         /\ clusterState = "RECOVERING" <=> sup \in Recovery
         /\ sup \in {"readMaster", "readSlave"} => clusterState \in {"OK", "CHECK_SLAVE_DOWN"}
BY DEF IInv, TypeOK, StateInv, NeverFoundRecovering, TimeInv, DownSlaveKnown, Started,
       Recovery

\* The copy meets no error.
LEMMA NoError ==
  ASSUME TypeOK, LongOutages, AwareInv, CopyInv, clusterState = "RECOVERING"
  PROVE  /\ \A d \in Servers : ~NoAnswer(d)
         /\ Replicate => CopyChunk
<1>1. up[Master] /\ up[Slave]
  BY DEF AwareInv
<1>2. \A d \in Servers : ~NoAnswer(d)
  BY <1>1, OnlyOutages
<1>3. ~BadChunk
  BY <1>2 DEF BadChunk
<1>4. Replicate => ~RepeatBadChunk
  BY DEF Replicate, CopyInv, RepeatBadChunk
<1> QED BY <1>2, <1>3, <1>4 DEF Replicate, SyncStep

\* The slave is found down only if it is, when a good one is recorded.
LEMMA FoundDown ==
  ASSUME IInv, AwareInv, sup = "readSlave", DetectedDown(GetState(Slave))
  PROVE  clusterState = "OK" /\ ~up[Slave] /\ ~statusOK[Slave] /\ stateOK[Slave]
<1>1. stateOK[Slave] /\ ~statusOK[Slave]
  BY DEF DetectedDown, GetState
<1>2. clusterState = "OK"
  BY <1>1, Known
<1> QED BY <1>1, <1>2 DEF AwareInv, Started

-----------------------------------------------------------------------------
\* The clocks

\* The copy takes points of the master to the slave, and nothing else.
LEMMA OnlyCopies ==
  ASSUME TypeOK, Replicate
  PROVE  /\ data'[Master] = data[Master]
         /\ data[Slave] \subseteq data'[Slave]
         /\ data'[Slave] \subseteq data[Slave] \cup data[Master]
<1>1. ASSUME NEW P \in SUBSET Wanted, CopyPoints(P)
      PROVE  /\ data'[Master] = data[Master]
             /\ data[Slave] \subseteq data'[Slave]
             /\ data'[Slave] \subseteq data[Slave] \cup data[Master]
  BY <1>1, ServersAssumption DEF CopyPoints, Wanted, TypeOK, EnvTypeOK
<1>2. CASE CopyChunk
  <2>1. CopyPoints(Wanted)
    BY <1>2 DEF CopyChunk
  <2> QED BY <1>1, <2>1
<1>3. CASE BadChunk
  <2>1. PICK P \in SUBSET Wanted : CopyPoints(P)
    BY <1>3 DEF BadChunk
  <2> QED BY <1>1, <2>1
<1>4. CASE RepeatBadChunk
  BY <1>4 DEF RepeatBadChunk, envVars
<1> QED BY <1>2, <1>3, <1>4 DEF Replicate, SyncStep

LEMMA ClockStep ==
  ASSUME IInv, RepairAssumed, sup # "crashed", ClockInv, RepairNext
  PROVE  ClockInv'
<1> USE DEF ClockInv, LagBounded
<1>t. TypeOK /\ now \in Nat /\ MaxLag \in Nat
  BY Types, LagAssumption DEF IInv
<1>p. \A d \in Servers : probe[d].at \in Times /\ probe[d].at \in Int
  BY <1>t, BoundsAssumption DEF TypeOK, MonTypeOK, Times
\* No clock moves, and points only go from one server to the other.
<1>1. ASSUME now' = now, probe' = probe,
             \A d \in Servers : \A p \in data'[d] : \E e \in Servers : p \in data[e]
      PROVE  ClockInv'
  BY <1>1
<1>2. ASSUME data' = data, now' = now, probe' = probe PROVE ClockInv'
  BY <1>1, <1>2
<1>3. CASE Environment
  <2>1. CASE Tick
    <3>1. LagBounded'
      BY <1>3, <2>1 DEF Environment, Tick, DbFail, DbReturn
    <3>2. probe' = probe /\ now' = now + 1
      BY <1>3, <2>1 DEF Environment, Tick, monVars
    <3>3. \A d \in Servers : \A p \in data'[d] : p \in data[d] \/ p[2] = now + 1
      BY <2>1, <1>t DEF Tick, TypeOK, EnvTypeOK
    <3>4. \A d \in Servers : \A p \in data[d] : p[2] \in Int
      <4>1. \A p \in Points : p[2] \in Int
        BY BoundsAssumption DEF Points, Times
      <4>2. \A d \in Servers : data[d] \subseteq Points
        BY <1>t DEF TypeOK, EnvTypeOK
      <4> QED BY <4>1, <4>2
    <3>5. \A d \in Servers : \A p \in data'[d] : p[2] <= now'
      BY <1>t, <3>2, <3>3, <3>4
    <3>6. probe'[Slave].at <= now'
      BY <1>p, <1>t, <3>2
    <3> QED BY <3>1, <3>5, <3>6
  <2>2. CASE ~Tick
    BY <1>2, <1>3, <2>2 DEF Environment, DbFail, DbReturn, monVars
  <2> QED BY <2>1, <2>2
<1>4. ASSUME NEW d \in Servers, MonitorGo(d) PROVE ClockInv'
  <2>1. now' = now /\ data' = data
    BY <1>4, <1>t DEF MonitorGo, Monitor, InitPing, InitPingError, SetStatOK, SetStatError,
                      NoAnswer, envVars
  <2>2. \A e \in Servers : probe'[e] = probe[e] \/ probe'[e].at = now \/ probe'[e].at = 0
    BY <1>4, <1>t DEF MonitorGo, Monitor, InitPing, InitPingError, SetStatOK, SetStatError,
                      Idle, TypeOK, MonTypeOK
  <2>3. \A e \in Servers : probe'[e] = probe[e] \/ probe'[e].at = now
                             \/ probe'[e].state # "answered"
    BY <1>4, <1>t DEF MonitorGo, Monitor, InitPing, InitPingError, SetStatOK, SetStatError,
                      Idle, TypeOK, MonTypeOK
  <2>4. LagBounded'
    BY <1>t, <2>1, <2>3
  <2>5. probe'[Slave].at <= now'
    BY <1>t, <2>1, <2>2
  <2> QED BY <2>1, <2>4, <2>5
<1>5. CASE Supervisor
  <2>1. CASE Replicate
    <3>1. now' = now /\ probe' = probe
      BY <2>1 DEF Replicate, SyncStep, CopyChunk, BadChunk, RepeatBadChunk, NoAnswer,
                  envVars, monVars
    <3>2. \A d \in Servers : \A p \in data'[d] : p \in data[d] \/ p \in data[Master]
      BY <2>1, <1>t, OnlyCopies
    <3> QED BY <1>1, <3>1, <3>2
  <2>2. CASE ~Replicate
    BY <1>2, <1>5, <2>2
    DEF Supervisor, StartMaster, StartSlave, StartRead, ReadMaster, CheckCluster,
        UpdateSlaveCli, ListDatabases, ReadSchema, Recovered, NoAnswer, envVars, monVars
  <2> QED BY <2>1, <2>2
<1> QED
  BY <1>3, <1>4, <1>5, <1>t, NoRestarts DEF RepairNext, Next

-----------------------------------------------------------------------------
\* Monitor and cluster agree

LEMMA AwareStep ==
  ASSUME IInv, RepairAssumed, sup # "crashed", AwareInv, CopyInv, RepairNext
  PROVE  AwareInv' /\ sup' # "crashed"
<1> USE DEF Goto
<1>t. TypeOK /\ LongOutages
  BY DEF IInv, RepairNext
<1>k. /\ sup \in {"startMaster", "startSlave"} => clusterState = "OK"
      /\ clusterState = "CHECK_SLAVE_DOWN" => Started /\ ~stateOK[Slave]
      /\ clusterState = "RECOVERING" <=> sup \in Recovery
      /\ sup \in {"readMaster", "readSlave"} => clusterState \in {"OK", "CHECK_SLAVE_DOWN"}
  BY Known
<1> DEFINE Servers2 == up'[Master] = up[Master] /\ up'[Slave] = up[Slave]
           MonFrame == statusOK'[Slave] = statusOK[Slave] /\ probe'[Slave] = probe[Slave]
           HacFrame == /\ clusterState' = clusterState /\ stateOK'[Slave] = stateOK[Slave]
                       /\ Started' = Started /\ sup' # "crashed"
<1>1. ASSUME Servers2, MonFrame, HacFrame PROVE AwareInv' /\ sup' # "crashed"
  BY <1>1 DEF AwareInv
<1>2. CASE Environment
  <2>1. MonFrame /\ HacFrame
    BY <1>2 DEF Environment, monVars, hacVars, Started
  <2>2. CASE Tick
    BY <1>1, <2>1, <2>2 DEF Tick
  <2>3. ASSUME NEW d \in Servers, DbFail(d) PROVE AwareInv'
    <3>1. /\ sup \in {"readMaster", "readSlave"}
          /\ clusterState = "OK" \/ (clusterState = "CHECK_SLAVE_DOWN" /\ d # Slave)
          /\ ~up'[Slave] => stateOK[Slave]
      BY <1>t, <2>3, FailWhen
    <3>2. up[d] /\ ~up'[d] /\ \A e \in Servers : e # d => up'[e] = up[e]
      BY <1>t, <2>3 DEF DbFail, TypeOK, EnvTypeOK
    <3>3. Started
      BY <3>1 DEF Started
    <3>4. CASE d = Slave
      <4>1. clusterState = "OK" /\ up[Slave] /\ ~up'[Slave] /\ stateOK[Slave]
        BY <3>1, <3>2, <3>4
      <4>2. statusOK[Slave]
        BY <3>3, <4>1 DEF AwareInv
      <4> QED BY <2>1, <3>3, <4>1, <4>2 DEF AwareInv
    <3>5. CASE d # Slave
      <4>1. up'[Slave] = up[Slave] /\ clusterState # "RECOVERING"
        BY <3>1, <3>2, <3>5
      <4> QED BY <2>1, <4>1 DEF AwareInv
    <3> QED BY <3>4, <3>5
  <2>4. ASSUME NEW d \in Servers, DbReturn(d) PROVE AwareInv'
    <3>1. up'[d] /\ \A e \in Servers : e # d => up'[e] = up[e]
      BY <1>t, <2>4 DEF DbReturn, TypeOK, EnvTypeOK
    <3>2. up'[Slave] = up[Slave] \/ (up'[Slave] /\ clusterState = "CHECK_SLAVE_DOWN")
      BY <1>t, <2>4, <3>1 DEF LongOutages, DbReturn
    <3>3. clusterState = "RECOVERING" => up'[Master] /\ up'[Slave]
      BY <3>1, <3>2 DEF AwareInv
    <3> QED BY <2>1, <3>2, <3>3 DEF AwareInv
  <2> QED BY <1>2, <2>1, <2>2, <2>3, <2>4 DEF Environment
<1>3. ASSUME NEW d \in Servers, MonitorGo(d) PROVE AwareInv' /\ sup' # "crashed"
  <2>1. HacFrame
    BY <1>3 DEF MonitorGo, hacVars, Started
  <2>2. Servers2
    BY <1>3 DEF MonitorGo, Monitor, InitPing, InitPingError, SetStatOK, SetStatError,
                NoAnswer, envVars
  <2>3. CASE d # Slave
    <3>1. MonFrame
      BY <1>3, <1>t, <2>3 DEF MonitorGo, Monitor, InitPing, InitPingError, SetStatOK,
                              SetStatError, TypeOK, MonTypeOK
    <3> QED BY <1>1, <2>1, <2>2, <3>1
  <2>4. CASE d = Slave
    <3>1. CASE InitPing(Slave)
      <4>1. up[Slave] /\ probe'[Slave].state = "answered" /\ statusOK' = statusOK
        BY <1>t, <3>1 DEF InitPing, TypeOK, MonTypeOK
      <4> QED BY <2>1, <2>2, <4>1 DEF AwareInv
    <3>2. CASE InitPingError(Slave)
      <4>1. NoAnswer(Slave) /\ probe'[Slave].state = "failed" /\ statusOK' = statusOK
        BY <1>t, <3>2 DEF InitPingError, TypeOK, MonTypeOK
      <4>2. ~up[Slave]
        BY <1>t, <4>1, OnlyOutages
      <4> QED BY <2>1, <2>2, <4>1, <4>2 DEF AwareInv
    <3>3. CASE SetStatOK(Slave)
      <4>1. /\ probe[Slave].state = "answered" /\ probe'[Slave].state = "idle"
            /\ statusOK'[Slave]
        BY <1>t, <3>3 DEF SetStatOK, Idle, TypeOK, MonTypeOK
      <4>2. clusterState = "CHECK_SLAVE_DOWN" => up[Slave]
        BY <4>1 DEF AwareInv
      <4> QED BY <2>1, <2>2, <4>1, <4>2 DEF AwareInv
    <3>4. CASE SetStatError(Slave)
      <4>1. /\ probe[Slave].state = "failed" /\ probe'[Slave].state = "idle"
            /\ ~statusOK'[Slave]
        BY <1>t, <3>4 DEF SetStatError, Idle, TypeOK, MonTypeOK
      <4>2. clusterState # "RECOVERING" /\ ~(clusterState = "OK" /\ up[Slave])
        BY <4>1 DEF AwareInv
      <4> QED BY <2>1, <2>2, <4>1, <4>2 DEF AwareInv
    <3> QED BY <1>3, <2>4, <3>1, <3>2, <3>3, <3>4 DEF MonitorGo, Monitor
  <2> QED BY <2>3, <2>4
<1>4. CASE StartMaster
  <2>1. Servers2 /\ MonFrame
    BY <1>4 DEF StartMaster, StartRead, envVars, monVars
  <2>2. HacFrame
    BY <1>4, <1>t, ServersAssumption DEF StartMaster, StartRead, Started, TypeOK
  <2> QED BY <1>1, <2>1, <2>2
<1>5. CASE StartSlave
  <2>1. Servers2 /\ MonFrame
    BY <1>5 DEF StartSlave, StartRead, envVars, monVars
  <2>2. /\ clusterState = "OK" /\ clusterState' = "OK" /\ ~Started
        /\ sup' = "readMaster" /\ stateOK'[Slave] = statusOK[Slave]
    BY <1>5, <1>k, <1>t DEF StartSlave, StartRead, GetState, Started, TypeOK
  <2>3. up[Slave]
    BY <2>2 DEF AwareInv
  <2> QED BY <2>1, <2>2, <2>3 DEF AwareInv
<1>6. CASE ReadMaster
  BY <1>1, <1>6 DEF ReadMaster, envVars, monVars, Started
<1>7. CASE CheckCluster
  <2> DEFINE slave == GetState(Slave)
  <2>1. Servers2 /\ MonFrame /\ sup = "readSlave"
    BY <1>7 DEF CheckCluster, envVars, monVars
  <2>2. slave.ok = statusOK[Slave]
    BY DEF GetState
  <2>3. ASSUME DetectedDown(slave) PROVE clusterState = "OK" /\ ~up[Slave] /\ ~statusOK[Slave]
    BY <2>1, <2>3, FoundDown
  <2> HIDE DEF slave
  <2>4. ASSUME RecordBoth(slave) PROVE stateOK'[Slave] = statusOK[Slave]
    BY <1>t, <2>2, <2>4, ServersAssumption DEF RecordBoth, TypeOK
  <2>5. Started
    BY <2>1 DEF Started
  <2>6. CASE DetectedDown(slave)
    <3>1. clusterState' = "CHECK_SLAVE_DOWN" /\ sup' = "readMaster"
      BY <2>6 DEF DetectedDown, CheckEnds
    <3> QED BY <2>1, <2>3, <2>6, <3>1 DEF AwareInv
  <2>7. CASE StillDown(slave)
    <3>1. stateOK'[Slave] = stateOK[Slave]
      BY <1>t, <2>7, ServersAssumption DEF StillDown, RecordMaster, TypeOK
    <3>2. clusterState' = clusterState /\ sup' = "readMaster"
      BY <2>7 DEF StillDown, CheckEnds
    <3> QED BY <1>1, <2>1, <2>5, <3>1, <3>2 DEF Started
  <2>8. CASE DetectedUp(slave)
    <3>1. /\ clusterState = "CHECK_SLAVE_DOWN" /\ statusOK[Slave]
          /\ clusterState' = "RECOVERING" /\ sup' = "update"
      BY <2>2, <2>8 DEF DetectedUp, BeginRecovery
    <3>2. up[Master]
      BY <1>t, <3>1 DEF LongOutages
    <3>3. up[Slave] /\ probe[Slave].state # "failed"
      BY <3>1 DEF AwareInv
    <3> QED BY <2>1, <3>1, <3>2, <3>3 DEF AwareInv
  <2>9. CASE StillOK(slave)
    <3>1. /\ clusterState = "OK" /\ clusterState' = "OK" /\ statusOK[Slave]
          /\ sup' = "readMaster" /\ stateOK'[Slave]
      BY <2>2, <2>4, <2>9 DEF StillOK, CheckEnds
    <3> QED BY <2>1, <3>1 DEF AwareInv, Started
  <2>10. CASE Unhandled(slave)
    <3>1. clusterState' = clusterState /\ stateOK' = stateOK /\ sup' = "readMaster"
      BY <2>10 DEF Unhandled, CheckEnds
    <3> QED BY <1>1, <2>1, <2>5, <3>1 DEF Started
  <2> QED BY <1>7, <2>6, <2>7, <2>8, <2>9, <2>10 DEF CheckCluster, slave
\* A recovery goes on, or ends with both servers up.
<1>8. ASSUME sup \in Recovery, Servers2, MonFrame,
             \/ sup' \in Recovery /\ clusterState' = "RECOVERING"
             \/ Finish
      PROVE  AwareInv' /\ sup' # "crashed"
  <2>1. up[Master] /\ up[Slave] /\ statusOK[Slave] /\ probe[Slave].state # "failed"
    BY <1>8, <1>k DEF AwareInv
  <2> QED BY <1>8, <2>1 DEF AwareInv, Finish, Recovery
<1>9. sup \in Recovery => clusterState = "RECOVERING" /\ ~NoAnswer(Master)
  BY <1>k, <1>t, NoError
<1>10. CASE UpdateSlaveCli
  BY <1>8, <1>9, <1>10 DEF UpdateSlaveCli, envVars, Recovery
<1>11. CASE ListDatabases \/ ReadSchema
  BY <1>8, <1>9, <1>11 DEF ListDatabases, ReadSchema, envVars, monVars, Recovery
<1>12. CASE Replicate
  <2>1. CopyChunk /\ sup = "sync"
    BY <1>9, <1>12, <1>t, NoError DEF Replicate, Recovery
  <2> QED BY <1>8, <1>9, <1>12, <2>1 DEF Replicate, CopyChunk, monVars, hacVars, Recovery
<1>13. CASE Recovered
  BY <1>8, <1>13 DEF Recovered, envVars, monVars, Recovery
<1> QED
  BY <1>2, <1>3, <1>4, <1>5, <1>6, <1>7, <1>10, <1>11, <1>12, <1>13, <1>t, NoRestarts
     DEF RepairNext, Next, Supervisor

-----------------------------------------------------------------------------
\* What is lost lies in the window

\* At the end of the copy nothing is lost but what its queries left out.
LEMMA NothingLost ==
  ASSUME TypeOK, RepairAssumed, CopyInv, sup = "sync", SyncDone
  PROVE  Lost \subseteq LeftOut
<1>1. WholeChunks /\ SyncTypeOK
  BY DEF RepairAssumed, TypeOK
<1>2. Rest(Points) = {}
  BY <1>1, NoRest DEF SyncDone
<1> QED BY <1>2 DEF CopyInv

LEMMA LostStep ==
  ASSUME IInv, RepairAssumed, sup # "crashed", ClockInv, AwareInv, LostInv, CopyInv,
         RepairNext
  PROVE  LostInv'
<1> USE DEF Goto
<1>t. TypeOK /\ LongOutages
  BY DEF IInv, RepairNext
<1>n. /\ now \in Nat /\ MaxLag \in Nat /\ CheckInterval \in Nat
      /\ lastOK[Slave] \in Int /\ stateLastOK[Slave] \in Int
      /\ lastOK[Slave] <= now
      /\ Started => stateLastOK[Slave] <= lastOK[Slave]
      /\ probe[Slave].at \in Int /\ probe[Slave].at <= now
  BY <1>t, Types, LagAssumption, IntervalAssumption, BoundsAssumption
     DEF IInv, TimeInv, ClockInv, TypeOK, MonTypeOK, Times
<1>k. /\ sup \in {"startMaster", "startSlave"} => clusterState = "OK"
      /\ clusterState = "CHECK_SLAVE_DOWN" => Started /\ ~stateOK[Slave]
      /\ clusterState = "RECOVERING" <=> sup \in Recovery
      /\ sup \in {"readMaster", "readSlave"} => clusterState \in {"OK", "CHECK_SLAVE_DOWN"}
  BY Known
<1>p. \A p \in Lost : p \in data[Master] /\ p[2] \in Int /\ p[2] <= now
  BY <1>t, LostType DEF ClockInv
<1>g. /\ gaps \subseteq gaps'
      /\ numRecovers' = numRecovers => gaps' = gaps
      /\ numRecovers' = numRecovers + 1 => gaps' = gaps \cup LeftOut
  BY <1>t, GapsGrow
<1>r. OutageRepaired <=> (clusterState = "OK" /\ up[Slave] => Lost = {})
  BY DEF OutageRepaired, Lost
<1>s. OutageRepaired' <=> (clusterState' = "OK" /\ up'[Slave] => Lost' = {})
  BY DEF OutageRepaired, Lost
<1> DEFINE MonFrame == /\ lastOK'[Slave] = lastOK[Slave] /\ probe'[Slave] = probe[Slave]
                       /\ statusOK'[Slave] = statusOK[Slave]
           HacFrame == /\ clusterState' = clusterState /\ window' = window
                       /\ stateLastOK'[Slave] = stateLastOK[Slave]
\* The slave and what is known of it stay as they are, and no more is lost.
<1>1. ASSUME Lost' \subseteq Lost, up'[Slave] = up[Slave], MonFrame, HacFrame
      PROVE  LostInv'
  BY <1>1, <1>r, <1>s DEF LostInv
<1>2. CASE Environment
  <2>1. MonFrame /\ HacFrame /\ gaps' = gaps
    BY <1>2, <1>g DEF Environment, monVars, hacVars
  <2>2. CASE Tick
    <3>1. up' = up /\ \A p \in Lost' : p \in Lost \/ p[2] = now + 1
      BY <1>t, <2>1, <2>2, LostByTick DEF Tick
    <3>2. CASE up[Slave]
      <4>1. Lost' \subseteq Lost
        BY <1>t, <2>1, <2>2, <3>2, LostByTick
      <4> QED BY <1>1, <2>1, <3>1, <4>1
    <3>3. CASE ~up[Slave]
      <4>1. clusterState # "RECOVERING"
        BY <3>3 DEF AwareInv
      <4>2. CASE clusterState = "OK"
        <5>1. \A p \in Lost' : /\ lastOK[Slave] < p[2] + MaxLag
                               /\ probe[Slave].state = "answered" => probe[Slave].at < p[2]
          BY <1>n, <3>1, <3>3, <4>2 DEF LostInv
        <5> QED BY <1>s, <2>1, <3>1, <3>3, <4>2, <5>1 DEF LostInv
      <4>3. CASE clusterState = "CHECK_SLAVE_DOWN"
        <5>1. ~statusOK[Slave]
          BY <3>3, <4>3 DEF AwareInv
        <5>2. stateLastOK[Slave] <= now
          BY <1>k, <1>n, <4>3
        <5>3. \A p \in Lost' : stateLastOK[Slave] < p[2] + MaxLag
          BY <1>n, <3>1, <4>3, <5>2 DEF LostInv
        <5> QED BY <1>s, <2>1, <3>1, <4>3, <5>1, <5>3 DEF LostInv
      <4> QED BY <1>t, <4>1, <4>2, <4>3 DEF TypeOK
    <3> QED BY <3>2, <3>3
  <2>3. ASSUME data' = data PROVE Lost' \subseteq Lost
    BY <2>1, <2>3 DEF Lost, Missing
  <2>4. ASSUME NEW d \in Servers, DbFail(d) PROVE LostInv'
    <3>1. Lost' \subseteq Lost
      BY <2>3, <2>4 DEF DbFail
    <3>2. CASE d = Slave
      <4>1. clusterState = "OK" /\ up[Slave]
        BY <1>t, <2>4, <3>2, FailWhen DEF DbFail
      <4>2. Lost' = {}
        BY <1>r, <3>1, <4>1 DEF LostInv
      <4> QED BY <1>s, <2>1, <4>1, <4>2 DEF LostInv
    <3>3. CASE d # Slave
      <4>1. up'[Slave] = up[Slave]
        BY <1>t, <2>4, <3>3 DEF DbFail, TypeOK, EnvTypeOK
      <4> QED BY <1>1, <2>1, <3>1, <4>1
    <3> QED BY <3>2, <3>3
  <2>5. ASSUME NEW d \in Servers, DbReturn(d) PROVE LostInv'
    <3>1. Lost' \subseteq Lost
      BY <2>3, <2>5 DEF DbReturn
    <3>2. CASE d = Slave
      <4>1. clusterState = "CHECK_SLAVE_DOWN"
        BY <1>t, <2>5, <3>2 DEF LongOutages, DbReturn, TypeOK, EnvTypeOK
      <4> QED BY <1>s, <2>1, <3>1, <4>1 DEF LostInv
    <3>3. CASE d # Slave
      <4>1. up'[Slave] = up[Slave]
        BY <1>t, <2>5, <3>3 DEF DbReturn, TypeOK, EnvTypeOK
      <4> QED BY <1>1, <2>1, <3>1, <4>1
    <3> QED BY <3>2, <3>3
  <2> QED BY <1>2, <2>2, <2>4, <2>5 DEF Environment
<1>3. ASSUME NEW d \in Servers, MonitorGo(d) PROVE LostInv'
  <2>1. HacFrame /\ gaps' = gaps
    BY <1>3, <1>g DEF MonitorGo, hacVars
  <2>2. up'[Slave] = up[Slave] /\ data' = data /\ now' = now
    BY <1>3 DEF MonitorGo, Monitor, InitPing, InitPingError, SetStatOK, SetStatError,
                NoAnswer, envVars
  <2>3. Lost' = Lost
    BY <2>1, <2>2 DEF Lost, Missing
  <2>4. CASE d # Slave
    <3>1. MonFrame
      BY <1>3, <1>t, <2>4 DEF MonitorGo, Monitor, InitPing, InitPingError, SetStatOK,
                              SetStatError, TypeOK, MonTypeOK
    <3> QED BY <1>1, <2>1, <2>2, <2>3, <3>1
  <2>5. CASE d = Slave
    <3>1. CASE InitPing(Slave)
      <4>1. up[Slave] /\ statusOK' = statusOK /\ lastOK' = lastOK
        BY <3>1 DEF InitPing
      <4> QED BY <1>r, <1>s, <2>1, <2>2, <2>3, <4>1 DEF LostInv
    <3>2. CASE InitPingError(Slave)
      <4>1. probe'[Slave].state = "failed" /\ statusOK' = statusOK /\ lastOK' = lastOK
        BY <1>t, <3>2 DEF InitPingError, TypeOK, MonTypeOK
      <4> QED BY <1>r, <1>s, <2>1, <2>2, <2>3, <4>1 DEF LostInv
    <3>3. CASE SetStatOK(Slave)
      <4>1. /\ probe[Slave].state = "answered" /\ probe'[Slave].state = "idle"
            /\ lastOK'[Slave] = now
        BY <1>t, <3>3 DEF SetStatOK, Idle, TypeOK, MonTypeOK
      <4>2. now - probe[Slave].at <= MaxLag
        BY <4>1 DEF ClockInv, LagBounded
      <4>3. clusterState = "OK" /\ ~up[Slave] => \A p \in Lost : now < p[2] + MaxLag
        BY <1>n, <1>p, <4>1, <4>2 DEF LostInv
      <4> QED BY <1>p, <1>r, <1>s, <2>1, <2>2, <2>3, <4>1, <4>3 DEF LostInv
    <3>4. CASE SetStatError(Slave)
      <4>1. probe'[Slave].state = "idle" /\ lastOK' = lastOK /\ ~statusOK'[Slave]
        BY <1>t, <3>4 DEF SetStatError, Idle, TypeOK, MonTypeOK
      <4> QED BY <1>r, <1>s, <2>1, <2>2, <2>3, <4>1 DEF LostInv
    <3> QED BY <1>3, <2>5, <3>1, <3>2, <3>3, <3>4 DEF MonitorGo, Monitor
  <2> QED BY <2>4, <2>5
\* The steps of the supervisor that move no point.
<1>4. ASSUME data' = data PROVE Lost' \subseteq Lost
  BY <1>4, <1>g DEF Lost, Missing
<1>5. CASE StartMaster \/ StartSlave
  <2>1. /\ clusterState = "OK" /\ clusterState' = "OK" /\ up' = up /\ data' = data /\ ~Started
    BY <1>5, <1>k DEF StartMaster, StartSlave, StartRead, envVars, Started
  <2>2. up[Slave]
    BY <2>1 DEF AwareInv
  <2> QED BY <1>4, <1>r, <1>s, <2>1, <2>2 DEF LostInv
<1>6. CASE ReadMaster
  BY <1>1, <1>4, <1>6 DEF ReadMaster, envVars, monVars
<1>7. CASE CheckCluster
  <2> DEFINE slave == GetState(Slave)
  <2>1. /\ MonFrame /\ up' = up /\ sup = "readSlave"
        /\ Lost' \subseteq Lost
    BY <1>4, <1>7 DEF CheckCluster, envVars, monVars
  <2>2. slave.ok = statusOK[Slave] /\ slave.last = lastOK[Slave]
    BY DEF GetState
  <2>3. ASSUME DetectedDown(slave) PROVE clusterState = "OK" /\ ~up[Slave] /\ ~statusOK[Slave]
    BY <2>1, <2>3, FoundDown
  <2> HIDE DEF slave
  <2>4. ASSUME RecordBoth(slave) PROVE stateLastOK'[Slave] = lastOK[Slave]
    BY <1>t, <2>2, <2>4, ServersAssumption DEF RecordBoth, TypeOK
  <2>5. CASE DetectedDown(slave)
    <3>1. clusterState' = "CHECK_SLAVE_DOWN" /\ stateLastOK'[Slave] = lastOK[Slave]
      BY <2>4, <2>5 DEF DetectedDown
    <3>2. \A p \in Lost : lastOK[Slave] < p[2] + MaxLag
      BY <2>3, <2>5 DEF LostInv
    <3> QED BY <1>s, <2>1, <2>3, <2>5, <3>1, <3>2 DEF LostInv
  <2>6. CASE StillDown(slave)
    <3>1. stateLastOK'[Slave] = stateLastOK[Slave]
      BY <1>t, <2>6, ServersAssumption DEF StillDown, RecordMaster, TypeOK
    <3> QED BY <1>1, <2>1, <2>6, <3>1 DEF StillDown, CheckEnds
  <2>7. CASE DetectedUp(slave)
    <3>1. /\ clusterState = "CHECK_SLAVE_DOWN" /\ clusterState' = "RECOVERING"
          /\ statusOK[Slave]
          /\ window' = [start |-> stateLastOK[Slave] - CheckInterval, end |-> lastOK[Slave]]
      BY <2>2, <2>7 DEF DetectedUp, BeginRecovery
    <3>2. \A p \in Lost : stateLastOK[Slave] < p[2] + MaxLag /\ p[2] <= lastOK[Slave]
      BY <3>1 DEF LostInv
    <3>3. \A p \in Lost : stateLastOK[Slave] - CheckInterval <= p[2]
      BY <1>n, <1>p, <3>2 DEF RepairAssumed
    <3> QED BY <1>s, <2>1, <3>1, <3>2, <3>3 DEF LostInv
  <2>8. CASE StillOK(slave)
    <3>1. clusterState = "OK" /\ clusterState' = "OK"
      BY <2>8 DEF StillOK
    <3> QED BY <1>r, <1>s, <2>1, <3>1 DEF LostInv
  <2>9. CASE Unhandled(slave)
    BY <1>1, <2>1, <2>9 DEF Unhandled, CheckEnds
  <2> QED BY <1>7, <2>5, <2>6, <2>7, <2>8, <2>9 DEF CheckCluster, slave
<1>8. sup \in Recovery => clusterState = "RECOVERING" /\ ~NoAnswer(Master)
  BY <1>k, <1>t, NoError
<1>9. CASE UpdateSlaveCli
  BY <1>1, <1>4, <1>9 DEF UpdateSlaveCli, envVars
<1>10. CASE ListDatabases \/ ReadSchema
  BY <1>1, <1>4, <1>8, <1>10 DEF ListDatabases, ReadSchema, envVars, monVars, Recovery
<1>11. CASE Replicate
  <2>1. Lost' \subseteq Lost
    BY <1>11, <1>g, <1>t, LostShrinks, OnlyCopies
  <2>2. CopyChunk
    BY <1>8, <1>11, <1>t, NoError DEF Replicate, Recovery
  <2> QED BY <1>1, <1>11, <2>1, <2>2 DEF Replicate, CopyChunk, monVars, hacVars
<1>12. CASE Recovered
  <2>1. clusterState' = "OK" /\ data' = data /\ gaps' = gaps \cup LeftOut
    BY <1>12, <1>g DEF Recovered, Finish, envVars
  <2>2. Lost \subseteq LeftOut
    BY <1>12, <1>t, NothingLost DEF Recovered
  <2>3. Lost' = {}
    BY <2>1, <2>2 DEF Lost, Missing
  <2> QED BY <1>s, <2>1, <2>3 DEF LostInv
<1> QED
  BY <1>2, <1>3, <1>5, <1>6, <1>7, <1>9, <1>10, <1>11, <1>12, <1>t, NoRestarts
     DEF RepairNext, Next, Supervisor

-----------------------------------------------------------------------------
\* What is lost lies in the chunks that are left

\* The chunks of a recovery ask for all that is lost but LeftOut.
LEMMA ChunksFind ==
  ASSUME TypeOK, RepairAssumed, clusterState = "RECOVERING", WindowSound, LostInv,
         BeginSync(window.start, window.end), data' = data, gaps' = gaps, window' = window
  PROVE  Lost' \subseteq Rest(Points)' \cup LeftOut'
<1>1. /\ window.start \in Int /\ window.end \in Int /\ window.start <= window.end
      /\ MaxRet \in Nat /\ Chunk \in Nat \ {0} /\ Whole(Chunk)
  <2>1. window.start + CheckInterval <= window.end /\ CheckInterval \in Nat
    BY IntervalAssumption DEF WindowSound
  <2>2. window.start \in Int /\ window.end \in Int
    BY Types
  <2> QED BY <2>1, <2>2, Lengths, ChunkAssumption DEF RepairAssumed
<1>2. Lost' = Lost /\ LeftOut' = LeftOut
  BY DEF Lost, Missing, LeftOut
<1>3. /\ job'.pass = "first" /\ job'.start = window.start /\ job'.end = window.end
      /\ job'.i = 0
  BY DEF BeginSync
<1>4. ChunkLength' = Chunk
  BY <1>3 DEF ChunkLength
<1>5. Rest(Points)' =
        {p \in Points :
           /\ window.start <= p[2] /\ p[2] < window.end
           /\ \E k \in 0 .. NumChunks(window.start, window.end, Chunk, MaxRet) - 1 :
                InChunk(p[2], window.end, Chunk, k)}
  BY <1>3, <1>4 DEF Rest
<1> SUFFICES ASSUME NEW p \in Lost, p \notin LeftOut PROVE p \in Rest(Points)'
  BY <1>2
<1>6. p \in Points /\ p[2] \in Int /\ window.start <= p[2] /\ p[2] <= window.end
  BY LostType DEF LostInv
<1>7. ~OnBoundary(p[2], window.end, Chunk) /\ ~(p[2] < Unix(window.end) * Second - MaxRet)
  BY <1>6 DEF LeftOut
<1>8. p[2] < window.end
  BY <1>1, <1>6, <1>7, UnixBounds DEF OnBoundary
<1>9. \E k \in 0 .. NumChunks(window.start, window.end, Chunk, MaxRet) - 1 :
        InChunk(p[2], window.end, Chunk, k)
  BY <1>1, <1>6, <1>7, ChunksCover
<1> QED BY <1>5, <1>6, <1>8, <1>9

\* A chunk that is through has brought what was lost of it.
LEMMA ChunkBrings ==
  ASSUME TypeOK, RepairAssumed, sup = "sync", SchemaCovers, CopyInv, CopyChunk,
         clusterState = "RECOVERING", LostInv, gaps' = gaps, window' = window
  PROVE  Lost' \subseteq Rest(Points)' \cup LeftOut'
<1>1. WholeChunks /\ SyncTypeOK /\ MoreChunks /\ job' = [job EXCEPT !.i = @ + 1]
  BY DEF RepairAssumed, TypeOK, CopyChunk
<1>2. Rest(Points)' = Rest(Points) \ Present(Points)
  <2>1. \A p \in Points : p[2] \in Int
    BY BoundsAssumption DEF Points, Times
  <2> QED BY <1>1, <2>1, RestStep
<1>3. /\ data'[Master] = data[Master]
      /\ data'[Slave] = data[Slave] \cup Wanted
  BY ServersAssumption DEF CopyChunk, CopyPoints, TypeOK, EnvTypeOK
<1>4. Lost' = Lost \ Wanted
  BY <1>3 DEF Lost, Missing
<1>5. LeftOut' = LeftOut
  BY DEF LeftOut
<1>6. ASSUME NEW p \in Lost, p \in Present(Points) PROVE p \in Wanted
  <2>1. p \in data[Master] /\ p[2] <= window.end
    BY LostType DEF LostInv
  <2>2. p[1] \in schema
    BY <2>1 DEF SchemaCovers, MeasurementsOf
  <2>3. p \in ChunkPoints
    BY <1>6 DEF Present, ThisChunk, ChunkPoints, InChunk
  <2> QED BY <2>1, <2>2, <2>3 DEF Wanted
<1> QED BY <1>2, <1>4, <1>5, <1>6 DEF CopyInv

LEMMA CopyStep ==
  ASSUME IInv, SchemaCovers, RepairAssumed, sup # "crashed", AwareInv, LostInv, CopyInv,
         RepairNext
  PROVE  CopyInv'
<1> USE DEF Goto
<1>t. TypeOK /\ LongOutages
  BY DEF IInv, RepairNext
<1>k. clusterState = "RECOVERING" <=> sup \in Recovery
  BY Known
<1>g. gaps \subseteq gaps' /\ (numRecovers' = numRecovers => gaps' = gaps)
  BY <1>t, GapsGrow
\* The copy rests, and no more is lost.
<1>1. ASSUME job' = job, bad' = bad, sup' = sup, window' = window, Lost' \subseteq Lost
      PROVE  CopyInv'
  <2>1. Rest(Points)' = Rest(Points)
    BY <1>1 DEF Rest, ChunkLength
  <2>2. LeftOut' = LeftOut
    BY <1>1 DEF LeftOut
  <2> QED BY <1>1, <2>1, <2>2 DEF CopyInv
<1>2. ASSUME sup' # "sync" PROVE CopyInv'
  BY <1>2 DEF CopyInv
<1>3. CASE Environment
  <2>1. /\ job' = job /\ bad' = bad /\ sup' = sup /\ window' = window /\ gaps' = gaps
    BY <1>3, <1>g DEF Environment, syncVars, hacVars
  <2>2. CASE sup # "sync"
    BY <1>2, <2>1, <2>2
  <2>3. CASE sup = "sync"
    <3>1. up[Slave]
      BY <1>k, <2>3 DEF AwareInv, Recovery
    <3>2. Lost' \subseteq Lost
      BY <1>3, <1>t, <2>1, <3>1, LostByTick
         DEF Environment, DbFail, DbReturn, Lost, Missing
    <3> QED BY <1>1, <2>1, <3>2
  <2> QED BY <2>2, <2>3
<1>4. ASSUME NEW d \in Servers, MonitorGo(d) PROVE CopyInv'
  <2>1. /\ job' = job /\ bad' = bad /\ sup' = sup /\ window' = window /\ gaps' = gaps
        /\ data' = data
    BY <1>4, <1>g DEF MonitorGo, Monitor, InitPing, InitPingError, SetStatOK, SetStatError,
                      NoAnswer, envVars, syncVars, hacVars
  <2> QED BY <1>1, <2>1 DEF Lost, Missing
<1>5. CASE ReadSchema
  <2>1. clusterState = "RECOVERING" /\ ~NoAnswer(Master)
    BY <1>5, <1>k, <1>t, NoError DEF ReadSchema, Recovery
  <2>2. /\ BeginSync(window.start, window.end) /\ data' = data /\ window' = window
        /\ numRecovers' = numRecovers
    BY <1>5, <2>1 DEF ReadSchema, envVars
  <2>3. WindowSound
    BY DEF IInv, TimeInv
  <2>4. Lost' \subseteq Rest(Points)' \cup LeftOut'
    BY <1>g, <1>t, <2>1, <2>2, <2>3, ChunksFind
  <2> QED BY <2>2, <2>4 DEF BeginSync, CopyInv
<1>6. CASE Replicate
  <2>1. sup = "sync" /\ clusterState = "RECOVERING"
    BY <1>6, <1>k DEF Replicate, Recovery
  <2>2. CopyChunk
    BY <1>6, <1>t, <2>1, NoError
  <2>3. window' = window /\ gaps' = gaps
    BY <1>6, <1>g DEF Replicate, hacVars
  <2>4. Lost' \subseteq Rest(Points)' \cup LeftOut'
    BY <1>t, <2>1, <2>2, <2>3, ChunkBrings
  <2>5. job'.pass = job.pass /\ job'.start = job.start /\ job'.end = job.end /\ bad' = bad
    BY <1>t, <2>2 DEF CopyChunk, TypeOK, SyncTypeOK
  <2> QED BY <2>1, <2>3, <2>4, <2>5 DEF CopyInv
<1>7. CASE StartMaster \/ StartSlave \/ ReadMaster \/ CheckCluster
  <2>1. sup' # "sync"
    BY <1>7
    DEF StartMaster, StartSlave, StartRead, ReadMaster, CheckCluster, DetectedDown,
        StillDown, DetectedUp, BeginRecovery, StillOK, Unhandled, CheckEnds
  <2> QED BY <1>2, <2>1
<1>8. CASE UpdateSlaveCli \/ ListDatabases \/ Recovered
  <2>1. sup' # "sync"
    BY <1>8 DEF UpdateSlaveCli, ListDatabases, Recovered, Finish
  <2> QED BY <1>2, <2>1
<1> QED
  BY <1>3, <1>4, <1>5, <1>6, <1>7, <1>8, <1>t, NoRestarts DEF RepairNext, Next, Supervisor

-----------------------------------------------------------------------------
\* The theorem

LEMMA RepairInitInv == RepairInit => IInv /\ SchemaCovers /\ RInv
<1> SUFFICES ASSUME RepairInit PROVE IInv /\ SchemaCovers /\ RInv
  OBVIOUS
<1> USE DEF RepairInit, Init, EnvInit, MonInit
<1>1. IInv /\ SchemaCovers
  BY InitInv DEF SchemaCovers
<1>2. ClockInv
  BY DEF ClockInv, LagBounded, Idle
<1>3. AwareInv /\ CopyInv
  BY DEF AwareInv, CopyInv, Started, Idle
<1>4. LostInv
  BY DEF LostInv, OutageRepaired, Missing, Lost
<1> QED BY <1>1, <1>2, <1>3, <1>4 DEF RInv

LEMMA RepairStep ==
  ASSUME RepairAssumed
  PROVE  (IInv /\ SchemaCovers /\ RInv) /\ [RepairNext]_<< vars, gaps >>
           => (IInv /\ SchemaCovers /\ RInv)'
<1> SUFFICES ASSUME IInv, SchemaCovers, RInv, [RepairNext]_<< vars, gaps >>
             PROVE  (IInv /\ SchemaCovers /\ RInv)'
  OBVIOUS
<1>1. CASE RepairNext
  <2>1. [Next]_vars
    BY <1>1 DEF RepairNext
  <2>2. (IInv /\ SchemaCovers)'
    BY <2>1, Inductive, SchemaStep
  <2>3. RInv'
    BY <1>1, ClockStep, AwareStep, LostStep, CopyStep DEF RInv
  <2> QED BY <2>2, <2>3
<1>2. CASE UNCHANGED << vars, gaps >>
  <2>1. (IInv /\ SchemaCovers)'
    BY <1>2, Inductive, SchemaStep
  <2>2. /\ envVars' = envVars /\ monVars' = monVars /\ syncVars' = syncVars
        /\ hacVars' = hacVars /\ gaps' = gaps
    BY <1>2 DEF vars
  <2>3. Lost' = Lost /\ Missing' = Missing
    BY <2>2 DEF Lost, Missing, envVars
  <2>4. (ClockInv /\ AwareInv /\ LostInv)' /\ sup' # "crashed"
    BY <2>2, <2>3
       DEF RInv, ClockInv, LagBounded, AwareInv, LostInv, OutageRepaired, Started, envVars,
           monVars, hacVars
  <2>5. CopyInv'
    <3>1. Rest(Points)' = Rest(Points) /\ LeftOut' = LeftOut
      BY <2>2 DEF Rest, ChunkLength, LeftOut, syncVars, hacVars
    <3> QED BY <2>2, <2>3, <3>1 DEF RInv, CopyInv, syncVars, hacVars
  <2> QED BY <2>1, <2>4, <2>5 DEF RInv
<1> QED BY <1>1, <1>2

\* The invariant holds of every behaviour with long outages.
THEOREM RepairInvariance == ASSUME RepairAssumed PROVE RepairSpec => []RInv
<1>1. RepairInit => IInv /\ SchemaCovers /\ RInv
  BY RepairInitInv
<1>2. (IInv /\ SchemaCovers /\ RInv) /\ [RepairNext]_<< vars, gaps >>
        => (IInv /\ SchemaCovers /\ RInv)'
  BY RepairStep
<1> QED BY <1>1, <1>2, PTL DEF RepairSpec

\* The end-to-end promise: whenever the cluster is OK and the slave up, the slave
\* misses no point but those that the queries of some recovery left out.  The margin
\* (CheckInterval) has to make up for the age of an answer (MaxLag): without it the
\* first points of an outage lie before the window.
THEOREM OutagesRepaired == ASSUME RepairAssumed PROVE RepairSpec => []OutageRepaired
<1>1. RInv => OutageRepaired
  BY DEF RInv, LostInv
<1> QED BY <1>1, RepairInvariance, PTL

=============================================================================
