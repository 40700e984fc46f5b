------------------------------- MODULE MCSync -------------------------------
(***************************************************************************)
(* The instance of Sync for model checking.                                *)
(***************************************************************************)
EXTENDS Sync

CONSTANTS m1, m2, MasterOutages, SlaveOutages

OneMeasurement  == {m1}
TwoMeasurements == {m1, m2}

\* The second measurement has fewer points in a chunk: one piece of them, and one
\* without points.
Births == [m \in Measurements |-> IF m = m1 THEN 0 ELSE 3]

Outages == [d \in Servers |-> IF d = Master THEN MasterOutages ELSE SlaveOutages]

=============================================================================
