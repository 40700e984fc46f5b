------------------------------- MODULE Agent -------------------------------
(***************************************************************************)
(* The commands of syncflux, pkg/agent/agent.go: replicaschema (ReplSch),  *)
(* copy (Copy), fullcopy (SchCopy) and the start of hamonitor              *)
(* (HAMonitorStart), with initCluster, GetSchema, ReplicateSchema and      *)
(* ReplicateData of hacluster.go and the queries they send (client.go).    *)
(*                                                                         *)
(* A schema maps each database to its retention policies and says which of *)
(* them is the default.  What influxdb does with a query is external; it   *)
(* leaves a policy that exists as it is, and may refuse to create it.      *)
(* Lists are visited in any order, as the server gives them.               *)
(*                                                                         *)
(* A command given up by a crash, or through, may be followed by another:  *)
(* that is how an operator repairs a half replicated schema.               *)
(***************************************************************************)
EXTENDS InfluxDB

CONSTANTS
  Databases, Policies,  \* names, on the master and on the slave
  None,                 \* no name
  MasterSchemas,        \* what the master may hold
  Commands,             \* the commands that may be given
  MaxRuns               \* bound: commands given

DbSchemas == {s \in [rps : SUBSET Policies, def : Policies \cup {None}] :
                s.def \in s.rps \cup {None}}

SchemaMaps == UNION {[D -> DbSchemas] : D \in SUBSET Databases}

\* A command: whether it replicates the schema, the data and begins the high
\* availability monitor; its names found in the configuration; its filters, as
\* the names they match, and which of them is no regular expression; the new names
\* (-newdb, -newrp).
CommandType ==
  [schema : BOOLEAN, data : BOOLEAN, ha : BOOLEAN, found : BOOLEAN,
   dbs : SUBSET Databases, rps : SUBSET Policies,
   wrong : {"none", "db", "rp", "meas"},
   newdb : Databases \cup {None}, newrp : Policies \cup {None}]

ASSUME AgentAssumption ==
  /\ None \notin Databases \cup Policies
  /\ MasterSchemas \subseteq SchemaMaps
  /\ Commands \subseteq CommandType
  /\ MaxRuns \in Nat \ {0}

VARIABLES
  master, slave,       \* the schema of each server
  cmd,                 \* the running command
  step,                \* where it is
  masterAlive,         \* the flag of initCluster, in its present round
  todo,                \* databases, entries or pairs the present loop has left
  schema,              \* what GetSchema found (InfluxSchDb)
  entry, left,         \* ReplicateSchema: its database, and the policies left of it
  copied,              \* where the data of which policy was copied to
  lost,                \* history: a request of this command was not answered
  runs                 \* commands given so far

agentVars == << master, slave, cmd, step, masterAlive, todo, schema, entry, left,
                copied, lost, runs >>
vars == << envVars, agentVars >>

Steps == {"pingMaster", "pingSlave",                 \* initCluster
          "databases", "policies",                   \* GetSchema
          "createDB", "createRP", "setDefault",      \* ReplicateSchema
          "data",                                    \* ReplicateData
          "done", "monitors", "refused", "crashed"}

Ended == step \in {"done", "monitors", "refused", "crashed"}

Entries == [db : Databases, to : Databases, def : Policies, newDef : Policies,
            rps : SUBSET Policies, read : SUBSET Policies]

NoEntry == [db |-> None]

Goto(s) == step' = s

Start(c) ==
  /\ cmd' = c
  /\ Goto("pingMaster")
  /\ masterAlive' = TRUE
  /\ todo' = {} /\ schema' = {} /\ entry' = NoEntry /\ left' = {} /\ copied' = {}
  /\ lost' = FALSE

Init ==
  /\ EnvInit
  /\ master \in MasterSchemas
  /\ slave = << >>
  /\ cmd \in Commands
  /\ step = "pingMaster"
  /\ masterAlive = TRUE
  /\ todo = {} /\ schema = {} /\ entry = NoEntry /\ left = {} /\ copied = {}
  /\ lost = FALSE
  /\ runs = 1

-----------------------------------------------------------------------------
\* initCluster

\* A mutant of PingMaster: the flag is not set again at the start of a round.
PingMasterForGood ==
  /\ step = "pingMaster"
  /\ \/ up[Master] /\ UNCHANGED << envVars, masterAlive >>
     \/ NoAnswer(Master) /\ masterAlive' = FALSE /\ UNCHANGED data
  /\ Goto("pingSlave")
  /\ UNCHANGED << master, slave, cmd, todo, schema, entry, left, copied, lost, runs >>

PingMaster ==
  /\ step = "pingMaster"
  /\ \/ up[Master] /\ masterAlive' = TRUE /\ UNCHANGED envVars
     \/ NoAnswer(Master) /\ masterAlive' = FALSE /\ UNCHANGED data
  /\ Goto("pingSlave")
  /\ UNCHANGED << master, slave, cmd, todo, schema, entry, left, copied, lost, runs >>

\* The cluster is made if both answered in one round; otherwise, or when a name
\* is not in the configuration, the next round follows.
PingSlave ==
  /\ step = "pingSlave"
  /\ \/ up[Slave] /\ UNCHANGED envVars
        /\ Goto(IF masterAlive /\ cmd.found THEN "databases" ELSE "pingMaster")
     \/ NoAnswer(Slave) /\ UNCHANGED data
        /\ Goto("pingMaster")
  /\ UNCHANGED << master, slave, cmd, masterAlive, todo, schema, entry, left, copied,
                  lost, runs >>

-----------------------------------------------------------------------------
\* GetSchema

\* A filter on databases that does not compile ends the command before any query.
RefuseDatabases ==
  /\ step = "databases"
  /\ cmd.wrong = "db"
  /\ Goto("refused")
  /\ UNCHANGED << envVars, master, slave, cmd, masterAlive, todo, schema, entry, left,
                  copied, lost, runs >>

\* The databases that match the filter.  The error of this query is dropped.
ListDatabases ==
  /\ step = "databases"
  /\ cmd.wrong # "db"
  /\ \/ up[Master] /\ UNCHANGED << envVars, lost >>
        /\ todo' = DOMAIN master \cap cmd.dbs
     \/ NoAnswer(Master) /\ UNCHANGED data
        /\ todo' = {} /\ lost' = TRUE
  /\ Goto("policies")
  /\ UNCHANGED << master, slave, cmd, masterAlive, schema, entry, left, copied, runs >>

\* A mutant of Selected: the measurements of each policy are read.
AllSelected(db) == master[db].rps

\* The policies whose measurements are read.
Selected(db) == master[db].rps \cap cmd.rps

\* A database goes into the schema with all its policies if the default one is
\* selected, and it is left out otherwise.  The new names are those of the
\* command (ReplSch, SchCopy and Copy set them when the schema is complete).
EntryOf(db) ==
  [db |-> db, to |-> IF cmd.newdb = None THEN db ELSE cmd.newdb,
   def |-> master[db].def,
   newDef |-> IF cmd.newrp = None THEN master[db].def ELSE cmd.newrp,
   rps |-> master[db].rps, read |-> Selected(db)]

\* A mutant of InSchema: no default policy is asked for.
AnyDatabase(db) == TRUE

InSchema(db) == master[db].def \in Selected(db)

\* The other filters are compiled for each database, after the answer to its first
\* query: the one on policies at once, the one on measurements for each policy
\* that is selected.
Refused(db) == cmd.wrong = "rp" \/ (cmd.wrong = "meas" /\ Selected(db) # {})

RefuseDatabase ==
  /\ step = "policies"
  /\ up[Master]
  /\ \E db \in todo : Refused(db)
  /\ Goto("refused")
  /\ UNCHANGED << envVars, master, slave, cmd, masterAlive, todo, schema, entry, left,
                  copied, lost, runs >>

\* Without an answer to the query for policies the database is left out;
\* without one to a query for measurements or fields a nil response is
\* dereferenced, and the process ends.
ReadDatabase ==
  /\ step = "policies"
  /\ \E db \in todo :
       /\ todo' = todo \ {db}
       /\ \/ /\ up[Master] /\ ~Refused(db)
             /\ schema' = IF InSchema(db) THEN schema \cup {EntryOf(db)} ELSE schema
             /\ UNCHANGED << envVars, step, lost >>
          \/ /\ NoAnswer(Master)
             /\ lost' = TRUE
             /\ \/ UNCHANGED step
                \/ cmd.wrong # "rp" /\ Selected(db) # {} /\ Goto("crashed")
             /\ UNCHANGED << data, schema >>
  /\ UNCHANGED << master, slave, cmd, masterAlive, entry, left, copied, runs >>

\* The policies of the schema, one SyncDBRP for each.
Pairs(entries) == {ep \in entries \X Policies : ep[2] \in ep[1].rps}

\* The command's next part begins: its data, or its end.
BeginData ==
  IF cmd.data THEN Goto("data") /\ todo' = Pairs(schema)
              ELSE Goto(IF cmd.ha THEN "monitors" ELSE "done") /\ todo' = {}

SchemaRead ==
  /\ step = "policies" /\ todo = {}
  /\ IF cmd.schema THEN Goto("createDB") /\ todo' = schema ELSE BeginData
  /\ UNCHANGED << envVars, master, slave, cmd, masterAlive, schema, entry, left, copied,
                  lost, runs >>

-----------------------------------------------------------------------------
\* ReplicateSchema

\* A query that makes the slave's schema s if it is served.  Its error is
\* logged, and the next query follows.  A query without an answer may have been
\* served all the same.
Query(s) ==
  \/ up[Slave] /\ slave' = s /\ UNCHANGED << envVars, lost >>
  \/ /\ NoAnswer(Slave)
     /\ lost' = TRUE
     /\ slave' \in IF up[Slave] THEN {slave, s} ELSE {slave}
     /\ UNCHANGED data

\* influxdb: the slave's database n with policy p, and with the default d.
WithPolicy(n, p, d) ==
  [slave EXCEPT ![n] = [rps |-> @.rps \cup {p}, def |-> d]]

\* CREATE DATABASE n WITH NAME p: if it exists with policies, nothing changes.
DatabaseCreated(n, p) ==
  IF n \notin DOMAIN slave THEN
    [x \in DOMAIN slave \cup {n} |-> IF x = n THEN [rps |-> {p}, def |-> p] ELSE slave[x]]
  ELSE IF slave[n].rps = {} THEN WithPolicy(n, p, p) ELSE slave

\* CREATE RETENTION POLICY p ON n, and the same with DEFAULT.
PolicyCreated(n, p) ==
  IF n \in DOMAIN slave THEN WithPolicy(n, p, slave[n].def) ELSE slave

DefaultCreated(n, p) ==
  IF n \in DOMAIN slave /\ p \notin slave[n].rps THEN WithPolicy(n, p, p) ELSE slave

\* ALTER RETENTION POLICY p ON n DEFAULT
DefaultSet(n, p) ==
  IF n \in DOMAIN slave /\ p \in slave[n].rps THEN WithPolicy(n, p, p) ELSE slave

CreateDB ==
  /\ step = "createDB"
  /\ \E e \in todo :
       /\ Query(DatabaseCreated(e.to, e.newDef))
       /\ todo' = todo \ {e}
       /\ entry' = e
       /\ left' = e.rps
  /\ Goto("createRP")
  /\ UNCHANGED << master, cmd, masterAlive, schema, copied, runs >>

\* A policy that is not the default one is created under its own name.
CreateRP ==
  /\ step = "createRP"
  /\ \E p \in left \ {entry.def} :
       /\ Query(PolicyCreated(entry.to, p))
       /\ left' = left \ {p}
  /\ UNCHANGED << master, cmd, step, masterAlive, todo, schema, entry, copied, runs >>

\* The default one is created under its new name, and then made the default.
CreateDefaultRP ==
  /\ step = "createRP"
  /\ entry.def \in left
  /\ Query(DefaultCreated(entry.to, entry.newDef))
  /\ left' = left \ {entry.def}
  /\ Goto("setDefault")
  /\ UNCHANGED << master, cmd, masterAlive, todo, schema, entry, copied, runs >>

\* A mutant of SetDefaultRP: the default is not changed on a slave that has one.
DefaultKept ==
  /\ step = "setDefault"
  /\ Query(slave)
  /\ Goto("createRP")
  /\ UNCHANGED << master, cmd, masterAlive, todo, schema, entry, left, copied, runs >>

SetDefaultRP ==
  /\ step = "setDefault"
  /\ Query(DefaultSet(entry.to, entry.newDef))
  /\ Goto("createRP")
  /\ UNCHANGED << master, cmd, masterAlive, todo, schema, entry, left, copied, runs >>

\* All policies of the database are done.
DatabaseDone ==
  /\ step = "createRP" /\ left = {}
  /\ entry' = NoEntry
  /\ Goto("createDB")
  /\ UNCHANGED << envVars, master, slave, cmd, masterAlive, todo, schema, left, copied,
                  lost, runs >>

SchemaDone ==
  /\ step = "createDB" /\ todo = {}
  /\ BeginData
  /\ UNCHANGED << envVars, master, slave, cmd, masterAlive, schema, entry, left, copied,
                  lost, runs >>

-----------------------------------------------------------------------------
\* ReplicateData and ReplicateDataFull

\* A mutant of TargetPolicy: the new name of the default is forgotten.
OldName(e, p) == p

TargetPolicy(e, p) == IF p = e.def THEN e.newDef ELSE p

\* SyncDBRP for one policy; module Sync has what it does.  A policy that the
\* filter left out has no measurements, and nothing of it is copied.
CopyPolicy ==
  /\ step = "data"
  /\ \E ep \in todo :
       LET e == ep[1]
           p == ep[2]
       IN  /\ todo' = todo \ {ep}
           /\ copied' = IF p \notin e.read THEN copied
                        ELSE copied \cup {[from |-> << e.db, p >>,
                                           to   |-> << e.to, TargetPolicy(e, p) >>]}
  /\ UNCHANGED << envVars, master, slave, cmd, step, masterAlive, schema, entry, left,
                  lost, runs >>

DataDone ==
  /\ step = "data" /\ todo = {}
  /\ Goto(IF cmd.ha THEN "monitors" ELSE "done")
  /\ UNCHANGED << envVars, master, slave, cmd, masterAlive, todo, schema, entry, left,
                  copied, lost, runs >>

-----------------------------------------------------------------------------
\* Another command, after the last one ended.
NextCommand ==
  /\ Ended
  /\ runs < MaxRuns
  /\ runs' = runs + 1
  /\ \E c \in Commands : Start(c)
  /\ UNCHANGED << envVars, master, slave >>

Program ==
  \/ PingMaster    \/ PingSlave
  \/ ListDatabases \/ RefuseDatabases \/ ReadDatabase
  \/ SchemaRead    \/ RefuseDatabase
  \/ CreateDB      \/ CreateRP        \/ CreateDefaultRP
  \/ SetDefaultRP  \/ DatabaseDone    \/ SchemaDone
  \/ CopyPolicy    \/ DataDone

Surroundings ==
  /\ \E d \in Servers : DbFail(d) \/ DbReturn(d)
  /\ UNCHANGED agentVars

Next == Program \/ NextCommand \/ Surroundings

Spec == Init /\ [][Next]_vars

\* A command is a sequential program, each request of which ends by an answer
\* or by the client's Timeout.
FairSpec == Spec /\ WF_vars(Program)

-----------------------------------------------------------------------------
TypeOK ==
  /\ EnvTypeOK
  /\ master \in SchemaMaps /\ slave \in SchemaMaps
  /\ cmd \in CommandType
  /\ step \in Steps
  /\ masterAlive \in BOOLEAN /\ lost \in BOOLEAN
  /\ schema \subseteq Entries
  /\ entry \in Entries \cup {NoEntry}
  /\ step \in {"createRP", "setDefault"} <=> entry \in schema
  /\ left \subseteq Policies
  /\ \A c \in copied : c.to \in Databases \X Policies
  /\ runs \in 1 .. MaxRuns

\* Policy p is a policy of database n of the slave.
OnSlave(n, p) == n \in DOMAIN slave /\ p \in slave[n].rps

\* When a schema was replicated and no request of the command went unanswered,
\* the slave has each selected database of the master whose default policy is
\* selected too, with all its selected policies and with the right default - also
\* when the slave had another schema before, or the half of one, which makes
\* influxdb refuse some of the queries.  (Of two databases that -newdb sends to
\* the same name, only one can have its default.)
SchemaReplicated ==
  cmd.schema /\ ~lost /\ step \in {"data", "done", "monitors"} =>
    \A db \in DOMAIN master \cap cmd.dbs :
      master[db].def \in cmd.rps =>
        \E e \in schema :
          /\ e.db = db
          /\ \A p \in master[db].rps \cap cmd.rps : OnSlave(e.to, TargetPolicy(e, p))
          /\ (\A f \in schema : f.to = e.to => f = e) => slave[e.to].def = e.newDef

\* Data is copied to policies that exist when the same command replicated the
\* schema before: no write of it is refused.
TargetsExist ==
  cmd.schema /\ ~lost => \A c \in copied : OnSlave(c.to[1], c.to[2])

\* Only data of selected databases and policies is copied; and when no request for
\* the schema went unanswered, the data of each selected policy of a selected
\* database, provided that the default policy of that database is selected (a
\* database whose default is not, or that has none, is left out as a whole).
OnlySelectedCopied ==
  /\ \A c \in copied : c.from[1] \in cmd.dbs /\ c.from[2] \in cmd.rps
  /\ cmd.data /\ ~lost /\ step \in {"done", "monitors"} =>
       \A db \in DOMAIN master \cap cmd.dbs :
         master[db].def \in cmd.rps =>
           \A p \in master[db].rps \cap cmd.rps : \E c \in copied : c.from = << db, p >>

\* sample.syncflux.toml: syncflux "only can begin work when master and slave
\* database are both up", and waits for it.  If both stay up from some time on,
\* each command with known names comes to its end, by whatever it met before.
CommandEnds ==
  <>[](up[Master] /\ up[Slave]) => [](cmd.found => <>Ended)

\* README.md: a schema copied "only from rp1" gives a database with rp1 only.
OnlySelectedReplicated ==
  runs = 1 => \A n \in DOMAIN slave : slave[n].rps \subseteq cmd.rps \cup {cmd.newrp}

=============================================================================
