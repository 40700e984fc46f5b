----------------------------- MODULE MCHACluster -----------------------------
(***************************************************************************)
(* The instance of HACluster for model checking.                           *)
(***************************************************************************)
EXTENDS HACluster

CONSTANTS
  m1,                              \* a measurement
  MasterOutages, SlaveOutages      \* how often contact with each server is lost

OneMeasurement == {m1}
NoMeasurement  == {}

Births == [m \in Measurements |-> 0]

Outages == [d \in Servers |-> IF d = Master THEN MasterOutages ELSE SlaveOutages]

=============================================================================
