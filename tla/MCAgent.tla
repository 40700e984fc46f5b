------------------------------ MODULE MCAgent ------------------------------
(***************************************************************************)
(* The instance of Agent for model checking: a master with two databases,  *)
(* one of them with any schema, and the commands an operator may give.     *)
(***************************************************************************)
EXTENDS Agent

CONSTANTS db1, db2, db3, rp1, rp2, rp3,
          MasterOutages, SlaveOutages

ThreeDatabases == {db1, db2, db3}
ThreePolicies  == {rp1, rp2, rp3}

Outages == [d \in Servers |-> IF d = Master THEN MasterOutages ELSE SlaveOutages]

NoMeasurement == {}

Births == [m \in Measurements |-> 0]

\* db1 has rp1, alone or with rp2, and any default or none; db2 has rp2 as its
\* default.
SomeSchemas ==
  {[d \in {db1, db2} |-> IF d = db1 THEN s ELSE [rps |-> {rp1, rp2}, def |-> rp2]] :
     s \in {x \in DbSchemas : x.rps \in {{rp1}, {rp1, rp2}}}}

\* hamonitor, for each value of initial-replication.
HaCommands ==
  [schema : BOOLEAN, data : BOOLEAN, ha : {TRUE}, found : {TRUE},
   dbs : {Databases}, rps : {Policies}, wrong : {"none"},
   newdb : {None}, newrp : {None}]

\* replicaschema, copy and fullcopy, with filters and new names.
CopyCommands ==
  [schema : BOOLEAN, data : BOOLEAN, ha : {FALSE}, found : {TRUE},
   dbs : {{db1}, Databases}, rps : {{rp1}, Policies}, wrong : {"none"},
   newdb : {None, db3}, newrp : {None, rp2, rp3}]

\* A name that is not in the configuration.
Unknown == {[c EXCEPT !.found = FALSE] : c \in {x \in HaCommands : ~x.schema /\ ~x.data}}

\* A filter that is no regular expression.
Mistyped ==
  [schema : BOOLEAN, data : BOOLEAN, ha : {FALSE}, found : {TRUE},
   dbs : {Databases}, rps : {{rp1}}, wrong : {"db", "rp", "meas"},
   newdb : {None}, newrp : {None}]

AllCommands ==
  HaCommands \cup Unknown \cup {c \in CopyCommands \cup Mistyped : c.schema \/ c.data}

=============================================================================
