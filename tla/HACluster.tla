------------------------------ MODULE HACluster ------------------------------
(***************************************************************************)
(* The high availability monitor of syncflux: HACluster and its supervisor *)
(* goroutine (pkg/agent/hacluster.go), running beside the two monitors     *)
(* (InfluxMonitor) and calling SyncDBRP for a recovery.                    *)
(*                                                                         *)
(* sup is the supervisor's program counter.  Each of its steps ends where  *)
(* another goroutine or a server can be observed: a GetState of one of the *)
(* monitors, UpdateCli, a request to the master, a chunk.  A read of a     *)
(* monitor and the local steps after it, up to the next such point, are    *)
(* one action.                                                             *)
(*                                                                         *)
(* One database with one retention policy stands for all: GetSchema and    *)
(* ReplicateData treat them one after the other, in the same way.          *)
(***************************************************************************)
EXTENDS InfluxMonitor, SyncDBRP

CONSTANTS
  CheckInterval,     \* HACluster.CheckInterval (min-sync-interval), in ticks
  MaxRestarts        \* bound: times the process is started again

ASSUME IntervalAssumption == CheckInterval \in Nat /\ MaxRestarts \in Nat

VARIABLES
  clusterState,      \* ClusterState
  stateOK,           \* MasterStateOK and SlaveStateOK
  stateLastOK,       \* MasterLastOK and SlaveLastOK
  numRecovers,       \* ClusterNumRecovers
  sup,               \* where the supervisor is
  seen,              \* lastMaster and lastmaOK, while the slave is read
  window,            \* startTime and endTime of the last recovery
  restarts           \* times the process was started again

hacVars == << clusterState, stateOK, stateLastOK, numRecovers, sup, seen, window >>
vars == << envVars, monVars, syncVars, hacVars, restarts >>

-----------------------------------------------------------------------------

Stages == {"startMaster", "startSlave",        \* startSupervisorGo, first reads
           "readMaster", "readSlave",          \* checkCluster
           "update", "databases", "schema",    \* a recovery before the copy
           "sync",                             \* ReplicateData
           "crashed"}                          \* the process is gone

Recovery == {"update", "databases", "schema", "sync"}

TypeOK ==
  /\ EnvTypeOK /\ MonTypeOK /\ SyncTypeOK
  /\ clusterState \in {"OK", "CHECK_SLAVE_DOWN", "RECOVERING"}
  /\ stateOK \in [Servers -> BOOLEAN]
  /\ stateLastOK \in [Servers -> Times \cup {Never}]
  /\ numRecovers \in Nat
  /\ sup \in Stages
  /\ seen \in [ok : BOOLEAN, last : Times \cup {Never}]
  /\ window \in Windows
  /\ restarts \in 0 .. MaxRestarts

NothingSeen == [ok |-> FALSE, last |-> Never]

\* initCluster has pinged both servers and made the cluster; HAMonitorStart is
\* about to start the monitors and, a check interval later, the supervisor.
Init ==
  /\ EnvInit /\ MonInit /\ SyncInit
  /\ clusterState = "OK"
  /\ stateOK = [d \in Servers |-> TRUE]
  /\ stateLastOK = [d \in Servers |-> 0]
  /\ numRecovers = 0
  /\ sup = "startMaster"
  /\ seen = NothingSeen
  /\ window = [start |-> 0, end |-> 0]
  /\ restarts = 0

Goto(stage) == sup' = stage

-----------------------------------------------------------------------------
\* startSupervisorGo

\* A mutant of StartRead: what initCluster put in the fields is kept.
StartUnread(d, stage, next) ==
  /\ sup = stage
  /\ Goto(next)
  /\ UNCHANGED << envVars, monVars, syncVars, clusterState, stateOK, stateLastOK,
                  numRecovers, seen, window, restarts >>

\* The fields of one server are overwritten with what its monitor recorded,
\* without statsData being held.
StartRead(d, stage, next) ==
  /\ sup = stage
  /\ stateOK' = [stateOK EXCEPT ![d] = GetState(d).ok]
  /\ stateLastOK' = [stateLastOK EXCEPT ![d] = GetState(d).last]
  /\ Goto(next)
  /\ UNCHANGED << envVars, monVars, syncVars, clusterState, numRecovers, seen,
                  window, restarts >>

StartMaster == StartRead(Master, "startMaster", "startSlave")
StartSlave  == StartRead(Slave, "startSlave", "readMaster")

-----------------------------------------------------------------------------
\* checkCluster

\* Each tick of the supervisor's ticker, the master's state is read, and then
\* the slave's, each under its monitor's lock.
ReadMaster ==
  /\ sup = "readMaster"
  /\ seen' = GetState(Master)
  /\ Goto("readSlave")
  /\ UNCHANGED << envVars, monVars, syncVars, clusterState, stateOK, stateLastOK,
                  numRecovers, window, restarts >>

\* The cluster's record of the master, or of both servers, is brought up to
\* date with what was read.
RecordMaster ==
  /\ stateOK' = [stateOK EXCEPT ![Master] = seen.ok]
  /\ stateLastOK' = [stateLastOK EXCEPT ![Master] = seen.last]

RecordBoth(slave) ==
  /\ stateOK' = [stateOK EXCEPT ![Master] = seen.ok, ![Slave] = slave.ok]
  /\ stateLastOK' = [stateLastOK EXCEPT ![Master] = seen.last, ![Slave] = slave.last]

\* The checks are over: back to the ticker.
CheckEnds ==
  /\ Goto("readMaster")
  /\ UNCHANGED << numRecovers, window >>

DetectedDown(slave) ==
  /\ stateOK[Slave] /\ ~slave.ok
  /\ clusterState' = "CHECK_SLAVE_DOWN"
  /\ RecordBoth(slave)
  /\ CheckEnds

StillDown(slave) ==
  /\ clusterState = "CHECK_SLAVE_DOWN" /\ ~slave.ok
  /\ ~stateOK[Slave]
  /\ RecordMaster
  /\ CheckEnds
  /\ UNCHANGED clusterState

BeginRecovery(slave, start, end) ==
  /\ clusterState = "CHECK_SLAVE_DOWN" /\ slave.ok
  /\ window' = [start |-> start, end |-> end]
  /\ clusterState' = "RECOVERING"
  /\ RecordBoth(slave)
  /\ Goto("update")
  /\ UNCHANGED numRecovers

\* Mutants of DetectedUp: no margin; the two times swapped.
UpWithoutMargin(slave) == BeginRecovery(slave, stateLastOK[Slave], slave.last)
UpSwapped(slave) == BeginRecovery(slave, slave.last - CheckInterval, stateLastOK[Slave])

\* Another: the state goes back to OK without a recovery.
UpUnrepaired(slave) ==
  /\ clusterState = "CHECK_SLAVE_DOWN" /\ slave.ok
  /\ clusterState' = "OK"
  /\ RecordBoth(slave)
  /\ CheckEnds

\* startTime is taken from SlaveLastOK before it is overwritten: it is the last
\* time the slave was good when it was found down, less the interval.
DetectedUp(slave) ==
  BeginRecovery(slave, stateLastOK[Slave] - CheckInterval, slave.last)

StillOK(slave) ==
  /\ clusterState = "OK" /\ slave.ok
  /\ RecordBoth(slave)
  /\ CheckEnds
  /\ UNCHANGED clusterState

\* The default case, with a warning: the slave was not good when the
\* supervisor began, and is not good now.
Unhandled(slave) ==
  /\ clusterState = "OK" /\ ~slave.ok
  /\ ~stateOK[Slave]
  /\ CheckEnds
  /\ UNCHANGED << clusterState, stateOK, stateLastOK >>

\* The slave's state is read and the switch is taken.  Its case for a
\* ClusterState of RECOVERING is not here: NeverFoundRecovering shows that the
\* switch is never reached in that state.
CheckCluster ==
  /\ sup = "readSlave"
  /\ LET slave == GetState(Slave)
     IN  \/ DetectedDown(slave) \/ StillDown(slave) \/ DetectedUp(slave)
         \/ StillOK(slave)      \/ Unhandled(slave)
  /\ seen' = NothingSeen
  /\ UNCHANGED << envVars, monVars, syncVars, restarts >>

-----------------------------------------------------------------------------
\* The recovery, in the same call of checkCluster

UpdateSlaveCli ==
  /\ sup = "update"
  /\ UpdateCli(Slave)
  /\ Goto("databases")
  /\ UNCHANGED << envVars, statusOK, lastOK, probe, lastcli, syncVars, clusterState,
                  stateOK, stateLastOK, numRecovers, seen, window, restarts >>

\* A mutant of Finish: the state is not set back.
FinishSilently ==
  /\ clusterState' = clusterState
  /\ numRecovers' = numRecovers + 1
  /\ Goto("readMaster")

\* The statements after ReplicateData.
Finish ==
  /\ clusterState' = "OK"
  /\ numRecovers' = numRecovers + 1
  /\ Goto("readMaster")

\* GetSchema asks for the databases of the master.  Its error is dropped: the
\* schema is empty, and ReplicateData has nothing to do.
ListDatabases ==
  /\ sup = "databases"
  /\ \/ /\ up[Master]
        /\ Goto("schema")
        /\ UNCHANGED << envVars, clusterState, numRecovers >>
     \/ /\ NoAnswer(Master)
        /\ Finish
        /\ UNCHANGED data
  /\ UNCHANGED << monVars, syncVars, stateOK, stateLastOK, seen, window, restarts >>

\* GetSchema asks for retention policies, measurements and fields.  Without an
\* answer to the first of these the database is left out; without an answer to
\* one of the others a nil response is dereferenced, and the process ends.
ReadSchema ==
  /\ sup = "schema"
  /\ \/ /\ up[Master]
        /\ BeginSync(window.start, window.end)
        /\ Goto("sync")
        /\ UNCHANGED << envVars, clusterState, numRecovers >>
     \/ /\ NoAnswer(Master)
        /\ \/ Finish
           \/ Goto("crashed") /\ UNCHANGED << clusterState, numRecovers >>
        /\ UNCHANGED << data, syncVars >>
  /\ UNCHANGED << monVars, stateOK, stateLastOK, seen, window, restarts >>

Replicate ==
  /\ sup = "sync"
  /\ SyncStep
  /\ UNCHANGED << monVars, hacVars, restarts >>

Recovered ==
  /\ sup = "sync"
  /\ SyncDone
  /\ job' = NoJob
  /\ Finish
  /\ UNCHANGED << envVars, monVars, schema, bad, newBad, stateOK, stateLastOK, seen, window,
                  restarts >>

Supervisor ==
  \/ StartMaster \/ StartSlave \/ ReadMaster \/ CheckCluster
  \/ UpdateSlaveCli \/ ListDatabases \/ ReadSchema \/ Replicate \/ Recovered

-----------------------------------------------------------------------------
\* The process and its surroundings

\* The goroutine of one monitor, in a living process.
MonitorGo(d) ==
  /\ sup # "crashed"
  /\ Monitor(d)
  /\ UNCHANGED << syncVars, hacVars, restarts >>

\* The process is killed, or its machine goes down.
Kill ==
  /\ sup # "crashed"
  /\ restarts < MaxRestarts
  /\ Goto("crashed")
  /\ UNCHANGED << envVars, monVars, syncVars, clusterState, stateOK, stateLastOK,
                  numRecovers, seen, window, restarts >>

\* The process is started again.  Nothing of the cluster is kept on disk, and
\* initCluster waits until both servers answer.
Restart ==
  /\ sup = "crashed"
  /\ restarts < MaxRestarts
  /\ up[Master] /\ up[Slave]
  /\ restarts' = restarts + 1
  /\ statusOK' = [d \in Servers |-> FALSE]
  /\ lastOK' = [d \in Servers |-> Never]
  /\ probe' = [d \in Servers |-> Idle]
  /\ lastcli' = outages
  /\ cli' = outages
  /\ schema' = MeasurementsOf(data[Master])
  /\ job' = NoJob /\ bad' = << >> /\ newBad' = << >>
  /\ clusterState' = "OK"
  /\ stateOK' = [d \in Servers |-> TRUE]
  /\ stateLastOK' = [d \in Servers |-> now]
  /\ numRecovers' = 0
  /\ Goto("startMaster")
  /\ seen' = NothingSeen
  /\ UNCHANGED << envVars, window >>

Environment ==
  /\ UNCHANGED << monVars, syncVars, hacVars, restarts >>
  /\ \/ Tick /\ (sup # "crashed" => LagBounded')
     \/ \E d \in Servers : DbFail(d) \/ DbReturn(d)

Next ==
  \/ Environment
  \/ \E d \in Servers : MonitorGo(d)
  \/ Supervisor
  \/ Kill \/ Restart

Spec == Init /\ [][Next]_vars

\* The goroutines keep running: each is driven by a ticker, waits for no other
\* goroutine, and its requests end by an answer or by the client's Timeout.
\* A process that ended is started again by its init system.
Fairness ==
  /\ \A d \in Servers : WF_vars(MonitorGo(d))
  /\ WF_vars(Supervisor)
  /\ WF_vars(Restart)

FairSpec == Spec /\ Fairness

-----------------------------------------------------------------------------
\* Safety

\* RECOVERING is what others see exactly while the supervisor recovers: no
\* check ever finds it (its case in checkCluster is dead code), and no step of
\* a recovery is reported under another state.
NeverFoundRecovering ==
  /\ sup \in Recovery => clusterState = "RECOVERING"
  /\ clusterState = "RECOVERING" => sup \in Recovery \cup {"crashed"}

\* While a recovery runs, the slave's client is one made after the outage: each
\* counted recovery was preceded by an outage of its own, so its client is of
\* a later life of the server than the recoveries counted so far.
FreshClient ==
  sup \in Recovery \ {"update"} => cli[Slave] > numRecovers

\* A slave found down is not reported as good, and the time from which it has to
\* be repaired is a time at which it really answered, never the zero time.
DownSlaveKnown ==
  clusterState = "CHECK_SLAVE_DOWN" => ~stateOK[Slave] /\ stateLastOK[Slave] \in Times

\* The window of a recovery is never reversed (Sync would make a slice of
\* negative length) and never reaches into the future, where points would be
\* taken as copied that are not written yet.
WindowSound ==
  clusterState = "RECOVERING" =>
    /\ window.start + CheckInterval <= window.end
    /\ window.end <= now

\* While a recovery copies, the schema it read has each measurement, and each
\* field, that a point of its window on the master has: it was read when the window
\* had ended.  ReadDB takes the type of a field from it, and dereferences nil for a
\* field that it has not.
SchemaCovers ==
  sup = "sync" =>
    MeasurementsOf({p \in data[Master] : p[2] <= window.end}) \subseteq schema

\* The supervisor of a living process has made its first reads.
Started == sup \notin {"startMaster", "startSlave", "crashed"}

\* The cycle of the comment above checkCluster, from the supervisor's first reads
\* to the end of its process: a slave found down is repaired before the cluster
\* is OK again, with the window that a recovery promises, and the recovery counts.
Cycle == INSTANCE ClusterCycle WITH
           Margin <- CheckInterval,
           running <- Started,
           mode <- IF Started THEN clusterState ELSE "OK",
           recovers <- IF Started THEN numRecovers ELSE 0,
           since <- IF Started THEN stateLastOK[Slave] ELSE Never

ImplementsCycle == Cycle!CycleSpec

-----------------------------------------------------------------------------
\* Why the safety properties hold: an inductive invariant, in three parts.

\* Where the supervisor is, and the state it shows.
StateInv ==
  /\ NeverFoundRecovering
  /\ sup \in {"startMaster", "startSlave"} => clusterState = "OK" /\ numRecovers = 0

\* The cluster's record of the slave is never ahead of the monitor's, nor that
\* one of the clock.
TimeInv ==
  /\ lastOK[Slave] <= now
  /\ statusOK[Slave] => lastOK[Slave] \in Times
  /\ Started => stateLastOK[Slave] <= lastOK[Slave]
  /\ Started /\ stateOK[Slave] => stateLastOK[Slave] \in Times
  /\ DownSlaveKnown
  /\ WindowSound

\* The recoveries counted, with the running one.
Recoveries == IF sup \in Recovery THEN numRecovers + 1 ELSE numRecovers

\* The slave had more than n outages, and the monitor has a client from after
\* them, or has yet to notice that the slave is back.
NewLife(n) ==
  \/ lastcli[Slave] > n
  \/ ~statusOK[Slave] /\ probe[Slave].state # "answered" /\ outages[Slave] > n

\* Between two recoveries the monitor has met an outage of its own.
ClientInv ==
  /\ lastcli[Slave] <= outages[Slave]
  /\ ~up[Slave] \/ probe[Slave].state = "failed" => lastcli[Slave] < outages[Slave]
  /\ Recoveries <= lastcli[Slave]
  /\ ~statusOK[Slave] /\ lastOK[Slave] # Never => NewLife(Recoveries)
  /\ clusterState = "CHECK_SLAVE_DOWN" => NewLife(numRecovers)
  /\ FreshClient

\* The inductive invariant: what a step of any of the goroutines preserves.
IInv == TypeOK /\ StateInv /\ TimeInv /\ ClientInv

-----------------------------------------------------------------------------
\* Liveness

\* A recovery ends, whatever the servers do meanwhile: the supervisor does not
\* hang in it, since nothing else would notice.
RecoveryEnds ==
  clusterState = "RECOVERING" ~> clusterState # "RECOVERING" \/ sup = "crashed"

\* If both servers stay up from some time on, the cluster reports OK with a good
\* slave from some time on, unless the process is gone for good.
Converges ==
  <>[](up[Master] /\ up[Slave]) =>
    <>[](sup = "crashed" \/ (clusterState = "OK" /\ stateOK[Slave]))

\* README.md: "CHECK_SLAVE_DOWN: current slave is down".  A slave that is down
\* for good is reported as down in the end.
DownIsReported ==
  <>[](~up[Slave]) => <>[](sup = "crashed" \/ clusterState = "CHECK_SLAVE_DOWN")

=============================================================================
