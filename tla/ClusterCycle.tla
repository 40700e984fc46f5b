---------------------------- MODULE ClusterCycle ----------------------------
(***************************************************************************)
(* What the supervisor promises, without servers, monitors, reads or       *)
(* copies: the cycle of the comment above checkCluster in hacluster.go,    *)
(*                                                                         *)
(*     OK -> CHECK_SLAVE_DOWN -> RECOVERING -> OK                          *)
(*                                                                         *)
(* that CHECK_SLAVE_DOWN is left by a recovery only, that each recovery is *)
(* counted and copies a window which starts a margin before the last time  *)
(* the slave was known to be up and ends when it is up again, and that the *)
(* record of that time never goes back.  Only the end of the process leads *)
(* out of the cycle: the next supervisor knows nothing of the last one.    *)
(***************************************************************************)
EXTENDS Integers

CONSTANT Margin      \* how long before the last good time a recovery starts

VARIABLES
  running,           \* a supervisor runs and has read the state of the slave
  mode,              \* ClusterState
  recovers,          \* ClusterNumRecovers
  since,             \* the last time at which the slave is known to be up
  window             \* what the last recovery copies

cycleVars == << running, mode, recovers, since, window >>

Unknown == -1        \* no time is known

Times == Nat \cup {Unknown}

CycleInit ==
  /\ ~running
  /\ mode = "OK"
  /\ recovers = 0
  /\ since = Unknown
  /\ window = [start |-> 0, end |-> 0]

\* The supervisor begins with what is known of the slave, if anything is.
Start ==
  /\ ~running /\ running'
  /\ since' \in Times
  /\ UNCHANGED << mode, recovers, window >>

\* The slave answers, and a later time is known.
Alive ==
  /\ running /\ mode = "OK"
  /\ since' \in Times /\ since' >= since
  /\ UNCHANGED << running, mode, recovers, window >>

\* The slave, known to have been up at some time, no longer answers.
Down ==
  /\ running /\ mode = "OK"
  /\ since' \in Nat /\ since' >= since
  /\ mode' = "CHECK_SLAVE_DOWN"
  /\ UNCHANGED << running, recovers, window >>

\* The slave answers again: what it missed is to be copied.
Recover ==
  /\ running /\ mode = "CHECK_SLAVE_DOWN"
  /\ since' \in Nat /\ since' >= since
  /\ window' = [start |-> since - Margin, end |-> since']
  /\ mode' = "RECOVERING"
  /\ UNCHANGED << running, recovers >>

Recovered ==
  /\ running /\ mode = "RECOVERING"
  /\ mode' = "OK"
  /\ recovers' = recovers + 1
  /\ UNCHANGED << running, since, window >>

\* The process ends, wherever the supervisor is, and with it what it knew.
Stop ==
  /\ running /\ ~running'
  /\ mode' = "OK"
  /\ recovers' = 0
  /\ since' = Unknown
  /\ UNCHANGED window

CycleNext == Start \/ Alive \/ Down \/ Recover \/ Recovered \/ Stop

CycleSpec == CycleInit /\ [][CycleNext]_cycleVars

=============================================================================
