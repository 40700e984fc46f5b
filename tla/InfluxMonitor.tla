---------------------------- MODULE InfluxMonitor ----------------------------
(***************************************************************************)
(* The monitor of each server, pkg/agent/influxmonitor.go: a goroutine per *)
(* server (startMonitorGo) that pings it each CheckInterval and records    *)
(* the outcome for the supervisor to read.                                 *)
(*                                                                         *)
(* A round of GetStat has three moments that others interleave with: the   *)
(* server answers the ping (or not); InitPing stores the client it made in *)
(* lastcli; setStatOK or setStatError records the outcome under the lock.  *)
(* The first two are one action here, since nothing but lastcli changes    *)
(* between them.  The answer may be up to MaxLag ticks old when it is      *)
(* recorded: the http client gives up after its Timeout.                   *)
(*                                                                         *)
(* A client is represented by the number of outages of its server before   *)
(* it was made.                                                            *)
(***************************************************************************)
EXTENDS InfluxDB

CONSTANT MaxLag      \* ticks between an answer and setStatOK, at most

ASSUME LagAssumption == MaxLag \in Nat

VARIABLES
  statusOK, lastOK,  \* the monitor's record of each server
  probe,             \* where its round of GetStat is, and when that began
  lastcli,           \* the client of the last ping that succeeded
  cli                \* the client that queries and writes go through

monVars == << statusOK, lastOK, probe, lastcli, cli >>

Never == -1          \* the zero time.Time

Idle == [state |-> "idle", at |-> 0]

MonTypeOK ==
  /\ statusOK \in [Servers -> BOOLEAN]
  /\ lastOK \in [Servers -> Times \cup {Never}]
  /\ probe \in [Servers -> [state : {"idle", "answered", "failed"}, at : Times]]
  /\ lastcli \in [Servers -> Nat]
  /\ cli \in [Servers -> Nat]

\* initCluster made both monitors, pinged both servers and kept the clients.
MonInit ==
  /\ statusOK = [d \in Servers |-> FALSE]
  /\ lastOK = [d \in Servers |-> Never]
  /\ probe = [d \in Servers |-> Idle]
  /\ lastcli = [d \in Servers |-> 0]
  /\ cli = [d \in Servers |-> 0]

\* InitPing succeeds: a new client reaches the server.
InitPing(d) ==
  /\ probe[d].state = "idle"
  /\ up[d]
  /\ probe' = [probe EXCEPT ![d] = [state |-> "answered", at |-> now]]
  /\ lastcli' = [lastcli EXCEPT ![d] = outages[d]]
  /\ UNCHANGED << envVars, statusOK, lastOK, cli >>

\* InitPing gets no answer: an error, or the Timeout of the client.
InitPingError(d) ==
  /\ probe[d].state = "idle"
  /\ NoAnswer(d)
  /\ probe' = [probe EXCEPT ![d] = [state |-> "failed", at |-> 0]]
  /\ UNCHANGED << data, statusOK, lastOK, lastcli, cli >>

SetStatOK(d) ==
  /\ probe[d].state = "answered"
  /\ statusOK' = [statusOK EXCEPT ![d] = TRUE]
  /\ lastOK' = [lastOK EXCEPT ![d] = now]
  /\ probe' = [probe EXCEPT ![d] = Idle]
  /\ UNCHANGED << envVars, lastcli, cli >>

\* A mutant of SetStatError: the time of the last good ping is reset.
SetStatErrorAndReset(d) ==
  /\ probe[d].state = "failed"
  /\ statusOK' = [statusOK EXCEPT ![d] = FALSE]
  /\ lastOK' = [lastOK EXCEPT ![d] = Never]
  /\ probe' = [probe EXCEPT ![d] = Idle]
  /\ UNCHANGED << envVars, lastcli, cli >>

SetStatError(d) ==
  /\ probe[d].state = "failed"
  /\ statusOK' = [statusOK EXCEPT ![d] = FALSE]
  /\ probe' = [probe EXCEPT ![d] = Idle]
  /\ UNCHANGED << envVars, lastOK, lastcli, cli >>

Monitor(d) ==
  \/ InitPing(d)  \/ InitPingError(d)
  \/ SetStatOK(d) \/ SetStatError(d)

\* No answer is older than MaxLag when it is recorded.
LagBounded ==
  \A d \in Servers : probe[d].state = "answered" => now - probe[d].at <= MaxLag

\* GetState: what the supervisor reads under the lock.
GetState(d) == [ok |-> statusOK[d], last |-> lastOK[d]]

\* Mutants of UpdateCli: the client is not renewed, or lost.
KeepCli(d) == cli' = cli
DropCli(d) == cli' = [cli EXCEPT ![d] = Never]

\* UpdateCli: writes go through the client of the last good ping from now on.
UpdateCli(d) == cli' = [cli EXCEPT ![d] = lastcli[d]]

=============================================================================
