--------------------------- MODULE MCOutageRepair ---------------------------
(***************************************************************************)
(* The instance of OutageRepair for model checking.                        *)
(***************************************************************************)
EXTENDS OutageRepair

CONSTANTS m1, BornAt, MasterOutages, SlaveOutages

OneMeasurement == {m1}

\* The measurement has its first point after the schema was read at the start.
Births == [m \in Measurements |-> BornAt]

Outages == [d \in Servers |-> IF d = Master THEN MasterOutages ELSE SlaveOutages]

=============================================================================
