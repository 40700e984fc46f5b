------------------------------ MODULE InfluxDB ------------------------------
(***************************************************************************)
(* What surrounds syncflux: the two influxdb servers, the relay that sends *)
(* every point to both of them, and the clock.  None of this is in the     *)
(* repository; it is modelled from how pkg/agent uses the servers (a ping, *)
(* a query and a write succeed or fail) and from the architecture in       *)
(* README.md, where an influxdb-relay writes to both nodes.                *)
(*                                                                         *)
(* A point is a measurement and the time it is stamped with.  The relay    *)
(* writes one point of each measurement per tick, from the measurement's   *)
(* first one on, and does not repeat a write that a server missed: that    *)
(* loss is what syncflux repairs.                                          *)
(***************************************************************************)
EXTENDS Integers

CONSTANTS
  Master, Slave,      \* the two servers
  Measurements,       \* the measurements the relay writes
  Born,               \* Born[m]: the tick of the first point of measurement m
  MaxTime,            \* bound: last tick of the clock
  MaxOutages,         \* bound: MaxOutages[d] losses of contact with server d
  MaxLosses           \* bound: losses of contact with both servers together

ASSUME ServersAssumption == Master # Slave
ASSUME BoundsAssumption  ==
  MaxTime \in Nat /\ MaxOutages \in [{Master, Slave} -> Nat] /\ MaxLosses \in Nat
ASSUME BornAssumption    == Born \in [Measurements -> Nat]

VARIABLES
  now,                \* the clock
  up,                 \* up[d]: server d answers
  outages,            \* outages[d]: how often contact with d was lost
  data                \* data[d]: the points server d holds

envVars == << now, up, outages, data >>

Servers == {Master, Slave}
Times   == 0 .. MaxTime
Points  == Measurements \X Times

EnvTypeOK ==
  /\ now \in Times
  /\ up \in [Servers -> BOOLEAN]
  /\ outages \in [Servers -> Nat]
  /\ \A d \in Servers : outages[d] <= MaxOutages[d]
  /\ data \in [Servers -> SUBSET Points]

\* syncflux waits at its start until both servers answer, and the two hold the
\* same points then.
EnvInit ==
  /\ now = 0
  /\ up = [d \in Servers |-> TRUE]
  /\ outages = [d \in Servers |-> 0]
  /\ data = [d \in Servers |-> {}]

\* Time passes and the relay writes the points of the new tick to the servers
\* that are up.
Tick ==
  /\ now < MaxTime
  /\ now' = now + 1
  /\ data' = [d \in Servers |->
                IF up[d] THEN data[d] \cup ({m \in Measurements : Born[m] <= now + 1} \X {now + 1})
                ELSE data[d]]
  /\ UNCHANGED << up, outages >>

DbFail(d) ==
  /\ up[d]
  /\ outages[d] < MaxOutages[d] /\ outages[Master] + outages[Slave] < MaxLosses
  /\ up' = [up EXCEPT ![d] = FALSE]
  /\ outages' = [outages EXCEPT ![d] = @ + 1]
  /\ UNCHANGED << now, data >>

DbReturn(d) ==
  /\ ~up[d]
  /\ up' = [up EXCEPT ![d] = TRUE]
  /\ UNCHANGED << now, outages, data >>

\* A request that server d does not answer: it is down, or it is up and the
\* connection between syncflux and it is lost for the time of the request.
NoAnswer(d) ==
  /\ \/ ~up[d] /\ UNCHANGED outages
     \/ /\ up[d]
        /\ outages[d] < MaxOutages[d] /\ outages[Master] + outages[Slave] < MaxLosses
        /\ outages' = [outages EXCEPT ![d] = @ + 1]
  /\ UNCHANGED << now, up >>

\* SHOW MEASUREMENTS on the master.
MeasurementsOf(P) == {p[1] : p \in P}

\* Points that the master holds and the slave does not.
Missing == data[Master] \ data[Slave]

=============================================================================
