---------------------------- MODULE OutageRepair ----------------------------
(***************************************************************************)
(* The end-to-end promise of the high availability monitor: what the slave *)
(* missed while it was down is copied when it is back.                     *)
(*                                                                         *)
(* The code cannot keep it for each behaviour of the servers (README.md,   *)
(* "Hazards", lists which outages it misses).  LongOutages is what it      *)
(* relies on: the slave goes down when the supervisor holds it for good,   *)
(* stays down until the supervisor found out, and both servers answer      *)
(* while a recovery runs.                                                  *)
(***************************************************************************)
EXTENDS HACluster

VARIABLE gaps        \* history: points that the recoveries did not ask for

LongOutages ==
  \* Only real outages, and none while a recovery runs.
  /\ outages' # outages =>
       /\ up' # up
       /\ clusterState = "OK" \/ (clusterState = "CHECK_SLAVE_DOWN" /\ up'[Slave] = up[Slave])
       /\ sup \in {"readMaster", "readSlave"}
       /\ ~up'[Slave] => stateOK[Slave]
  \* The slave returns when the cluster knows it was away.
  /\ ~up[Slave] /\ up'[Slave] => clusterState = "CHECK_SLAVE_DOWN"
  \* A recovery begins when the master is up.
  /\ clusterState' = "RECOVERING" => up[Master]

\* The points of a recovered window that its queries leave out: where chunks
\* meet, in the last second, and before the maximum retention interval.
LeftOut ==
  {p \in Points :
     /\ window.start <= p[2] /\ p[2] <= window.end
     /\ \/ OnBoundary(p[2], window.end, Chunk)
        \/ p[2] < Unix(window.end) * Second - MaxRet}

RepairInit == Init /\ gaps = {}

RepairNext ==
  /\ Next
  /\ LongOutages
  /\ gaps' = IF numRecovers' > numRecovers THEN gaps \cup LeftOut ELSE gaps

RepairSpec == RepairInit /\ [][RepairNext]_<< vars, gaps >>

\* When the cluster is OK and the slave up, the slave misses no point but those
\* that the chunks of some recovery left out.  The outage began after the last
\* answer to a ping and was noticed two goroutines later: the window has to
\* reach back far enough, with a client that works, a schema that is complete
\* and no chunk forgotten.
OutageRepaired == clusterState = "OK" /\ up[Slave] => Missing \subseteq gaps

=============================================================================
