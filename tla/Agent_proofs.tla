---------------------------- MODULE Agent_proofs ----------------------------
(***************************************************************************)
(* Theorems about Agent, for every set of databases and policies, every    *)
(* schema of the master, every command and any number of commands in a     *)
(* row, crashes and requests without an answer included.                   *)
(***************************************************************************)
EXTENDS Agent, TLAPS

-----------------------------------------------------------------------------
\* The inductive invariant

\* The steps before GetSchema has found anything, those of ReplicateSchema and
\* those after it.
Before      == {"pingMaster", "pingSlave", "databases"}
Replicating == {"createDB", "createRP", "setDefault"}
AtEntry     == {"createRP", "setDefault"}
After       == {"data", "done", "monitors"}

\* The databases that GetSchema should find.
Found(db) == db \in DOMAIN master \cap cmd.dbs /\ InSchema(db)

\* What the loops have left fits the step, and the entry is that of the loop.
LoopInv ==
  /\ step = "policies" => todo \subseteq DOMAIN master \cap cmd.dbs
  /\ step \in Replicating => todo \subseteq schema
  /\ step = "data" => todo \subseteq Pairs(schema)
  /\ step \notin AtEntry => entry = NoEntry
  /\ step \in AtEntry => entry \in schema \ todo /\ left \subseteq entry.rps
  /\ step = "setDefault" => entry.def \notin left

\* The schema has the entries of selected databases, as the master has them, and
\* all of them when no request was lost and no filter refused.
SchemaInv ==
  /\ step \in Before => schema = {}
  /\ \A e \in schema : Found(e.db) /\ e = EntryOf(e.db)
  /\ step \notin Before \cup {"refused"} /\ ~lost =>
       \A db \in Databases :
         Found(db) => EntryOf(db) \in schema \/ (step = "policies" /\ db \in todo)

\* No other entry of the schema goes to the same database of the slave.
Alone(e) == \A f \in schema : f.to = e.to => f = e

\* The slave has what the loop is through with: each entry that is not left, but
\* the policies left of the present one, and its default.
Replicated(e) ==
  /\ e.to \in DOMAIN slave
  /\ \A p \in e.rps : (e = entry /\ p \in left) \/ OnSlave(e.to, TargetPolicy(e, p))
  /\ Alone(e) =>
       \/ slave[e.to].def = e.newDef
       \/ e = entry /\ (e.def \in left \/ step = "setDefault")

ReplicatedInv ==
  cmd.schema /\ ~lost /\ step \in Replicating \cup After =>
    \A e \in schema : (step \in Replicating /\ e \in todo) \/ Replicated(e)

\* What was copied is from the schema, and of it all that the loop is through with.
CopiedInv ==
  /\ copied # {} => step \in After
  /\ \A c \in copied : \E e \in schema : \E p \in e.read :
       c = [from |-> << e.db, p >>, to |-> << e.to, TargetPolicy(e, p) >>]
  /\ cmd.data /\ step \in After =>
       \A e \in schema : \A p \in e.read :
         \/ step = "data" /\ << e, p >> \in todo
         \/ \E c \in copied : c.from = << e.db, p >>

AInv == TypeOK /\ LoopInv /\ SchemaInv /\ ReplicatedInv /\ CopiedInv

-----------------------------------------------------------------------------
\* Schemas as functions

\* A schema map has databases as its domain and a schema for each.
LEMMA MapType ==
  ASSUME NEW f \in SchemaMaps
  PROVE  /\ DOMAIN f \subseteq Databases
         /\ f = [n \in DOMAIN f |-> f[n]]
         /\ \A n \in DOMAIN f : /\ f[n].rps \subseteq Policies
                               /\ f[n].def \in f[n].rps \cup {None}
                               /\ f[n] = [rps |-> f[n].rps, def |-> f[n].def]
<1>1. PICK D \in SUBSET Databases : f \in [D -> DbSchemas]
  BY DEF SchemaMaps
<1>2. DOMAIN f = D /\ f = [n \in DOMAIN f |-> f[n]]
  BY <1>1
<1>3. \A n \in D : f[n] \in DbSchemas
  BY <1>1
<1> QED BY <1>2, <1>3 DEF DbSchemas

LEMMA MapIntro ==
  ASSUME NEW D \in SUBSET Databases, NEW f \in [D -> DbSchemas]
  PROVE  f \in SchemaMaps
BY DEF SchemaMaps

\* What each query of ReplicateSchema can do to the slave: it takes nothing away,
\* and touches no other database.
Extends(n, s) ==
  /\ s \in SchemaMaps
  /\ DOMAIN slave \subseteq DOMAIN s
  /\ \A x \in DOMAIN slave : slave[x].rps \subseteq s[x].rps
  /\ \A x \in DOMAIN slave : x # n => s[x] = slave[x]

LEMMA ExtendsNot ==
  ASSUME slave \in SchemaMaps, NEW n PROVE Extends(n, slave)
BY DEF Extends

LEMMA WithPolicyExtends ==
  ASSUME slave \in SchemaMaps, NEW n \in DOMAIN slave, NEW p \in Policies,
         NEW d \in slave[n].rps \cup {p, None}
  PROVE  /\ Extends(n, WithPolicy(n, p, d))
         /\ WithPolicy(n, p, d)[n] = [rps |-> slave[n].rps \cup {p}, def |-> d]
         /\ DOMAIN WithPolicy(n, p, d) = DOMAIN slave
<1> DEFINE s == WithPolicy(n, p, d)
           v == [rps |-> slave[n].rps \cup {p}, def |-> d]
<1>1. /\ DOMAIN slave \subseteq Databases
      /\ \A x \in DOMAIN slave : slave[x] \in DbSchemas
      /\ slave[n].rps \subseteq Policies
  BY MapType DEF DbSchemas
<1>2. v \in DbSchemas
  BY <1>1 DEF DbSchemas
<1>3. s = [x \in DOMAIN slave |-> IF x = n THEN v ELSE slave[x]]
  BY MapType DEF WithPolicy
<1> HIDE DEF s, v
<1>4. s \in [DOMAIN slave -> DbSchemas]
  BY <1>1, <1>2, <1>3
<1>5. s \in SchemaMaps
  BY <1>1, <1>4, MapIntro
<1>6. /\ DOMAIN s = DOMAIN slave /\ s[n] = v
      /\ \A x \in DOMAIN slave : x # n => s[x] = slave[x]
  BY <1>3
<1>7. slave[n].rps \subseteq s[n].rps
  BY <1>6 DEF v
<1> QED BY <1>5, <1>6, <1>7 DEF Extends, s, v

LEMMA DatabaseCreatedIs ==
  ASSUME slave \in SchemaMaps, NEW n \in Databases, NEW p \in Policies
  PROVE  /\ Extends(n, DatabaseCreated(n, p))
         /\ n \in DOMAIN DatabaseCreated(n, p)
<1> DEFINE s == DatabaseCreated(n, p)
           v == [rps |-> {p}, def |-> p]
<1>1. CASE n \notin DOMAIN slave
  <2>1. /\ DOMAIN slave \subseteq Databases
        /\ \A x \in DOMAIN slave : slave[x] \in DbSchemas
    BY MapType DEF DbSchemas
  <2>2. v \in DbSchemas
    BY DEF DbSchemas
  <2>3. s = [x \in DOMAIN slave \cup {n} |-> IF x = n THEN v ELSE slave[x]]
    BY <1>1 DEF DatabaseCreated
  <2> HIDE DEF s, v
  <2>4. s \in [DOMAIN slave \cup {n} -> DbSchemas]
    BY <2>1, <2>2, <2>3
  <2>5. s \in SchemaMaps
    BY <2>1, <2>4, MapIntro
  <2>6. /\ DOMAIN s = DOMAIN slave \cup {n}
        /\ \A x \in DOMAIN slave : s[x] = slave[x]
    BY <1>1, <2>3
  <2> QED BY <2>5, <2>6 DEF Extends, s
<1>2. CASE n \in DOMAIN slave /\ slave[n].rps = {}
  <2>1. s = WithPolicy(n, p, p)
    BY <1>2 DEF DatabaseCreated
  <2>2. p \in slave[n].rps \cup {p, None}
    OBVIOUS
  <2>3. Extends(n, WithPolicy(n, p, p)) /\ n \in DOMAIN WithPolicy(n, p, p)
    BY <1>2, <2>2, WithPolicyExtends, Zenon
  <2> QED BY <2>1, <2>3
<1>3. CASE n \in DOMAIN slave /\ slave[n].rps # {}
  BY <1>3, ExtendsNot DEF DatabaseCreated
<1> QED BY <1>1, <1>2, <1>3

LEMMA PolicyCreatedIs ==
  ASSUME slave \in SchemaMaps, NEW n \in Databases, NEW p \in Policies
  PROVE  /\ Extends(n, PolicyCreated(n, p))
         /\ n \in DOMAIN slave =>
              /\ p \in PolicyCreated(n, p)[n].rps
              /\ PolicyCreated(n, p)[n].def = slave[n].def
<1>1. CASE n \in DOMAIN slave
  <2> DEFINE s == WithPolicy(n, p, slave[n].def)
  <2>1. slave[n].def \in slave[n].rps \cup {p, None}
    BY <1>1, MapType
  <2>2. Extends(n, s) /\ s[n] = [rps |-> slave[n].rps \cup {p}, def |-> slave[n].def]
    BY <1>1, <2>1, WithPolicyExtends, Zenon
  <2>3. PolicyCreated(n, p) = s
    BY <1>1 DEF PolicyCreated
  <2> HIDE DEF s
  <2> QED BY <2>2, <2>3
<1>2. CASE n \notin DOMAIN slave
  BY <1>2, ExtendsNot DEF PolicyCreated
<1> QED BY <1>1, <1>2

LEMMA DefaultCreatedIs ==
  ASSUME slave \in SchemaMaps, NEW n \in Databases, NEW p \in Policies
  PROVE  /\ Extends(n, DefaultCreated(n, p))
         /\ n \in DOMAIN slave => p \in DefaultCreated(n, p)[n].rps
<1>1. CASE n \in DOMAIN slave /\ p \notin slave[n].rps
  <2>1. p \in slave[n].rps \cup {p, None}
    OBVIOUS
  <2>2. /\ Extends(n, WithPolicy(n, p, p))
        /\ WithPolicy(n, p, p)[n] = [rps |-> slave[n].rps \cup {p}, def |-> p]
    BY <1>1, <2>1, WithPolicyExtends, Zenon
  <2>3. DefaultCreated(n, p) = WithPolicy(n, p, p)
    BY <1>1 DEF DefaultCreated
  <2> QED BY <2>2, <2>3
<1>2. CASE ~(n \in DOMAIN slave /\ p \notin slave[n].rps)
  BY <1>2, ExtendsNot DEF DefaultCreated
<1> QED BY <1>1, <1>2

LEMMA DefaultSetIs ==
  ASSUME slave \in SchemaMaps, NEW n \in Databases, NEW p \in Policies
  PROVE  /\ Extends(n, DefaultSet(n, p))
         /\ OnSlave(n, p) => DefaultSet(n, p)[n].def = p
<1>1. CASE n \in DOMAIN slave /\ p \in slave[n].rps
  <2>1. p \in slave[n].rps \cup {p, None}
    OBVIOUS
  <2>2. /\ Extends(n, WithPolicy(n, p, p))
        /\ WithPolicy(n, p, p)[n] = [rps |-> slave[n].rps \cup {p}, def |-> p]
    BY <1>1, <2>1, WithPolicyExtends, Zenon
  <2>3. DefaultSet(n, p) = WithPolicy(n, p, p)
    BY <1>1 DEF DefaultSet
  <2> QED BY <2>2, <2>3
<1>2. CASE ~(n \in DOMAIN slave /\ p \in slave[n].rps)
  BY <1>2, ExtendsNot DEF DefaultSet, OnSlave
<1> QED BY <1>1, <1>2

-----------------------------------------------------------------------------
\* Type correctness

LEMMA EnvStep ==
  ASSUME EnvTypeOK,
         \/ UNCHANGED envVars
         \/ \E d \in Servers : NoAnswer(d) /\ UNCHANGED data
         \/ \E d \in Servers : DbFail(d) \/ DbReturn(d)
  PROVE  EnvTypeOK'
<1> USE DEF EnvTypeOK
<1>1. CASE UNCHANGED envVars
  BY <1>1 DEF envVars
<1>2. ASSUME NEW d \in Servers, NoAnswer(d), UNCHANGED data PROVE EnvTypeOK'
  <2>1. MaxOutages[d] \in Nat /\ outages[d] \in Nat
    BY BoundsAssumption DEF Servers
  <2> QED BY <1>2, <2>1 DEF NoAnswer
<1>3. ASSUME NEW d \in Servers, DbFail(d) PROVE EnvTypeOK'
  BY <1>3, BoundsAssumption DEF DbFail, Servers
<1>4. ASSUME NEW d \in Servers, DbReturn(d) PROVE EnvTypeOK'
  BY <1>4 DEF DbReturn
<1> QED BY <1>1, <1>2, <1>3, <1>4

\* The entry that GetSchema makes of a selected database.
LEMMA EntryOfType ==
  ASSUME TypeOK, NEW db \in DOMAIN master, InSchema(db)
  PROVE  /\ EntryOf(db) \in Entries
         /\ EntryOf(db).db = db
         /\ EntryOf(db).read = EntryOf(db).rps \cap cmd.rps
         /\ EntryOf(db).def \in EntryOf(db).read
<1>1. /\ db \in Databases
      /\ master[db].rps \subseteq Policies
  BY MapType DEF TypeOK
<1>2. cmd.newdb \in Databases \cup {None} /\ cmd.newrp \in Policies \cup {None}
  BY DEF TypeOK, CommandType
<1>3. master[db].def \in master[db].rps /\ master[db].def \in cmd.rps
  BY DEF InSchema, Selected
<1> QED BY <1>1, <1>2, <1>3 DEF EntryOf, Entries, Selected

LEMMA NoEntryIsNone ==
  ASSUME NEW S \in SUBSET Entries PROVE NoEntry \notin S
<1>1. ASSUME NoEntry \in Entries PROVE FALSE
  <2>1. NoEntry.db \in Databases
    BY <1>1 DEF Entries
  <2> QED BY <2>1, AgentAssumption DEF NoEntry
<1> QED BY <1>1

\* A query of ReplicateSchema: a request without an answer is remembered, and the
\* slave holds one of the two schemas.
LEMMA QueryStep ==
  ASSUME TypeOK, NEW n, NEW s, Extends(n, s), Query(s)
  PROVE  /\ EnvTypeOK'
         /\ Extends(n, slave')
         /\ lost' \in BOOLEAN
         /\ ~lost' => slave' = s /\ ~lost
<1>1. EnvTypeOK'
  BY EnvStep DEF Query, Servers, TypeOK
<1>2. Extends(n, slave)
  BY ExtendsNot DEF TypeOK
<1> QED BY <1>1, <1>2 DEF Query, TypeOK

LEMMA StartType ==
  ASSUME NEW c \in CommandType, Start(c)
  PROVE  /\ cmd' \in CommandType /\ step' \in Steps
         /\ masterAlive' \in BOOLEAN /\ lost' \in BOOLEAN
         /\ schema' = {} /\ copied' = {} /\ left' = {} /\ entry' = NoEntry
         /\ step' = "pingMaster"
BY DEF Start, Goto, Steps

\* Where the command goes on to its data, or ends.
LEMMA BeginDataGoes ==
  ASSUME BeginData
  PROVE  /\ step' \in After
         /\ step' = "data" => todo' = Pairs(schema)
         /\ cmd.data => step' = "data"
BY DEF BeginData, Goto, After

LEMMA InitType == Init => TypeOK
<1> SUFFICES ASSUME Init PROVE TypeOK
  OBVIOUS
<1>1. EnvTypeOK
  BY BoundsAssumption DEF Init, EnvInit, EnvTypeOK, Times, Servers
<1>2. master \in SchemaMaps /\ cmd \in CommandType
  BY AgentAssumption DEF Init
<1>3. slave \in SchemaMaps
  <2>1. slave = [n \in {} |-> 0]
    BY DEF Init
  <2>2. slave \in [{} -> DbSchemas]
    BY <2>1
  <2> QED BY <2>2, MapIntro
<1>4. runs \in 1 .. MaxRuns
  BY AgentAssumption DEF Init
<1> QED BY <1>1, <1>2, <1>3, <1>4 DEF Init, TypeOK, Steps

LEMMA TypeStep == ASSUME TypeOK, LoopInv, [Next]_vars PROVE TypeOK'
<1> USE DEF TypeOK, Goto, Steps, AtEntry
<1>s. NoEntry \notin schema
  BY NoEntryIsNone
<1>1. CASE UNCHANGED vars
  <2>1. EnvTypeOK'
    BY <1>1, EnvStep DEF vars
  <2> QED BY <1>1, <2>1 DEF vars, agentVars
<1>2. CASE PingMaster
  <2>1. EnvTypeOK'
    BY <1>2, EnvStep DEF PingMaster, Servers
  <2> QED BY <1>2, <2>1 DEF PingMaster
<1>3. CASE PingSlave
  <2>1. EnvTypeOK'
    BY <1>3, EnvStep DEF PingSlave, Servers
  <2> QED BY <1>3, <2>1 DEF PingSlave
<1>4. CASE ListDatabases
  <2>1. EnvTypeOK'
    BY <1>4, EnvStep DEF ListDatabases, Servers
  <2> QED BY <1>4, <2>1 DEF ListDatabases
<1>17. CASE RefuseDatabases \/ RefuseDatabase
  <2>1. EnvTypeOK'
    BY <1>17, EnvStep DEF RefuseDatabases, RefuseDatabase
  <2> QED BY <1>17, <2>1 DEF RefuseDatabases, RefuseDatabase, LoopInv
<1>5. CASE ReadDatabase
  <2>1. EnvTypeOK'
    BY <1>5, EnvStep DEF ReadDatabase, Servers
  <2>2. PICK db \in todo : schema' = schema \/ (InSchema(db) /\ schema' = schema \cup {EntryOf(db)})
    BY <1>5 DEF ReadDatabase
  <2>3. db \in DOMAIN master
    BY <1>5 DEF ReadDatabase, LoopInv
  <2>4. schema' \subseteq Entries
    BY <2>2, <2>3, EntryOfType
  <2>5. NoEntry \notin schema'
    BY <2>4, NoEntryIsNone
  <2>6. step = "policies" /\ entry' = entry /\ step' \in {"policies", "crashed"} /\ lost' \in BOOLEAN
    BY <1>5 DEF ReadDatabase
  <2>7. entry' = NoEntry
    BY <2>6 DEF LoopInv
  <2> QED BY <1>5, <2>1, <2>4, <2>5, <2>6, <2>7 DEF ReadDatabase
<1>6. CASE SchemaRead
  <2>1. EnvTypeOK'
    BY <1>6, EnvStep DEF SchemaRead
  <2>2. step' \in {"createDB"} \cup After
    BY <1>6, BeginDataGoes DEF SchemaRead
  <2> QED BY <1>6, <2>1, <2>2 DEF SchemaRead, After
<1>7. CASE CreateDB
  <2>1. PICK e \in todo : Query(DatabaseCreated(e.to, e.newDef)) /\ entry' = e /\ left' = e.rps
    BY <1>7 DEF CreateDB
  <2>2. e \in schema /\ e \in Entries
    BY <1>7, <2>1 DEF CreateDB, LoopInv, Replicating
  <2>3. Extends(e.to, DatabaseCreated(e.to, e.newDef)) /\ e.rps \subseteq Policies
    BY <2>2, DatabaseCreatedIs DEF Entries
  <2>4. EnvTypeOK' /\ slave' \in SchemaMaps /\ lost' \in BOOLEAN
    BY <2>1, <2>3, QueryStep DEF Extends
  <2> QED BY <1>7, <2>1, <2>2, <2>3, <2>4 DEF CreateDB
<1>8. CASE CreateRP
  <2>1. PICK p \in left \ {entry.def} : Query(PolicyCreated(entry.to, p)) /\ left' = left \ {p}
    BY <1>8 DEF CreateRP
  <2>2. entry \in schema /\ entry \in Entries
    BY <1>8 DEF CreateRP
  <2>3. Extends(entry.to, PolicyCreated(entry.to, p))
    BY <2>1, <2>2, PolicyCreatedIs DEF Entries
  <2>4. EnvTypeOK' /\ slave' \in SchemaMaps /\ lost' \in BOOLEAN
    BY <2>1, <2>3, QueryStep DEF Extends
  <2> QED BY <1>8, <2>1, <2>4 DEF CreateRP
<1>9. CASE CreateDefaultRP
  <2>2. entry \in schema /\ entry \in Entries
    BY <1>9 DEF CreateDefaultRP
  <2>3. Extends(entry.to, DefaultCreated(entry.to, entry.newDef))
    BY <2>2, DefaultCreatedIs DEF Entries
  <2>4. EnvTypeOK' /\ slave' \in SchemaMaps /\ lost' \in BOOLEAN
    BY <1>9, <2>3, QueryStep DEF Extends, CreateDefaultRP
  <2> QED BY <1>9, <2>2, <2>4 DEF CreateDefaultRP
<1>10. CASE SetDefaultRP
  <2>2. entry \in schema /\ entry \in Entries
    BY <1>10 DEF SetDefaultRP
  <2>3. Extends(entry.to, DefaultSet(entry.to, entry.newDef))
    BY <2>2, DefaultSetIs DEF Entries
  <2>4. EnvTypeOK' /\ slave' \in SchemaMaps /\ lost' \in BOOLEAN
    BY <1>10, <2>3, QueryStep DEF Extends, SetDefaultRP
  <2> QED BY <1>10, <2>2, <2>4 DEF SetDefaultRP
<1>11. CASE DatabaseDone
  <2>1. EnvTypeOK'
    BY <1>11, EnvStep DEF DatabaseDone
  <2> QED BY <1>11, <2>1, <1>s DEF DatabaseDone
<1>12. CASE SchemaDone
  <2>1. EnvTypeOK'
    BY <1>12, EnvStep DEF SchemaDone
  <2>2. step' \in After
    BY <1>12, BeginDataGoes DEF SchemaDone
  <2> QED BY <1>12, <2>1, <2>2 DEF SchemaDone, After
<1>13. CASE CopyPolicy
  <2>1. EnvTypeOK'
    BY <1>13, EnvStep DEF CopyPolicy
  <2>2. PICK ep \in todo :
          copied' \subseteq copied \cup {[from |-> << ep[1].db, ep[2] >>,
                                          to   |-> << ep[1].to, TargetPolicy(ep[1], ep[2]) >>]}
    BY <1>13 DEF CopyPolicy
  <2>3. ep[1] \in Entries /\ ep[2] \in Policies
    BY <1>13 DEF CopyPolicy, LoopInv, Pairs
  <2>4. << ep[1].to, TargetPolicy(ep[1], ep[2]) >> \in Databases \X Policies
    BY <2>3 DEF Entries, TargetPolicy
  <2>5. \A c \in copied' : c.to \in Databases \X Policies
    BY <2>2, <2>4
  <2> QED BY <1>13, <2>1, <2>5 DEF CopyPolicy
<1>14. CASE DataDone
  <2>1. EnvTypeOK'
    BY <1>14, EnvStep DEF DataDone
  <2> QED BY <1>14, <2>1 DEF DataDone
<1>15. CASE NextCommand
  <2>1. EnvTypeOK'
    BY <1>15, EnvStep DEF NextCommand
  <2>2. PICK c \in Commands : Start(c)
    BY <1>15 DEF NextCommand
  <2>3. c \in CommandType
    BY AgentAssumption
  <2>4. runs' \in 1 .. MaxRuns
    BY <1>15, AgentAssumption DEF NextCommand
  <2> QED BY <1>15, <2>1, <2>2, <2>3, <2>4, StartType DEF NextCommand
<1>16. CASE Surroundings
  <2>1. EnvTypeOK'
    BY <1>16, EnvStep DEF Surroundings
  <2> QED BY <1>16, <2>1 DEF Surroundings, agentVars
<1> QED
  BY <1>1, <1>2, <1>3, <1>4, <1>5, <1>6, <1>7, <1>8, <1>9, <1>10, <1>11, <1>12, <1>13,
     <1>14, <1>15, <1>16, <1>17 DEF Next, Program

-----------------------------------------------------------------------------
\* The loops and the schema

LEMMA LoopStep == ASSUME TypeOK, LoopInv, [Next]_vars PROVE LoopInv'
<1> USE DEF LoopInv, Goto, Replicating, AtEntry
<1>1. CASE UNCHANGED vars
  BY <1>1 DEF vars, agentVars, Pairs
<1>2. CASE PingMaster
  BY <1>2 DEF PingMaster
<1>3. CASE PingSlave
  BY <1>3 DEF PingSlave
<1>4. CASE ListDatabases
  BY <1>4 DEF ListDatabases
<1>17. CASE RefuseDatabases \/ RefuseDatabase
  BY <1>17 DEF RefuseDatabases, RefuseDatabase
<1>5. CASE ReadDatabase
  BY <1>5 DEF ReadDatabase
<1>6. CASE SchemaRead
  <2>1. \/ step' = "createDB" /\ todo' = schema
        \/ step' \in After /\ (step' = "data" => todo' = Pairs(schema))
    BY <1>6, BeginDataGoes DEF SchemaRead
  <2> QED BY <1>6, <2>1 DEF SchemaRead, After, Pairs
<1>7. CASE CreateDB
  BY <1>7 DEF CreateDB
<1>8. CASE CreateRP
  BY <1>8 DEF CreateRP
<1>9. CASE CreateDefaultRP
  BY <1>9 DEF CreateDefaultRP
<1>10. CASE SetDefaultRP
  BY <1>10 DEF SetDefaultRP
<1>11. CASE DatabaseDone
  BY <1>11 DEF DatabaseDone
<1>12. CASE SchemaDone
  <2>1. step' \in After /\ (step' = "data" => todo' = Pairs(schema))
    BY <1>12, BeginDataGoes DEF SchemaDone
  <2> QED BY <1>12, <2>1 DEF SchemaDone, After, Pairs
<1>13. CASE CopyPolicy
  BY <1>13 DEF CopyPolicy, Pairs
<1>14. CASE DataDone
  BY <1>14 DEF DataDone
<1>15. CASE NextCommand
  BY <1>15, StartType DEF NextCommand, Start
<1>16. CASE Surroundings
  BY <1>16 DEF Surroundings, agentVars, Pairs
<1> QED
  BY <1>1, <1>2, <1>3, <1>4, <1>5, <1>6, <1>7, <1>8, <1>9, <1>10, <1>11, <1>12, <1>13,
     <1>14, <1>15, <1>16, <1>17 DEF Next, Program

\* The schema and what it depends on change in GetSchema only, and with a new
\* command.
LEMMA SchemaFrame ==
  ASSUME [Next]_vars
  PROVE  \/ /\ UNCHANGED << master, cmd, schema >> /\ (UNCHANGED lost \/ lost')
            /\ \/ UNCHANGED << step, todo >>
               \/ step \in Before /\ step' \in Before
               \/ step \in Replicating \cup After /\ step' \in Replicating \cup After
         \/ UNCHANGED << master, cmd, schema, lost >> /\ step' = "refused"
            /\ step \in {"databases", "policies"}
         \/ ListDatabases \/ ReadDatabase \/ SchemaRead \/ NextCommand
<1> USE DEF Goto, Before, Replicating, After
<1>1. CASE UNCHANGED vars
  BY <1>1 DEF vars, agentVars
<1>2. CASE PingMaster
  BY <1>2 DEF PingMaster
<1>3. CASE PingSlave
  BY <1>3 DEF PingSlave
<1>7. CASE CreateDB
  BY <1>7 DEF CreateDB, Query
<1>8. CASE CreateRP
  BY <1>8 DEF CreateRP, Query
<1>9. CASE CreateDefaultRP
  BY <1>9 DEF CreateDefaultRP, Query
<1>10. CASE SetDefaultRP
  BY <1>10 DEF SetDefaultRP, Query
<1>11. CASE DatabaseDone
  BY <1>11 DEF DatabaseDone
<1>12. CASE SchemaDone
  BY <1>12, BeginDataGoes DEF SchemaDone
<1>13. CASE CopyPolicy
  BY <1>13 DEF CopyPolicy
<1>14. CASE DataDone
  BY <1>14 DEF DataDone
<1>16. CASE Surroundings
  BY <1>16 DEF Surroundings, agentVars
<1>17. CASE RefuseDatabases \/ RefuseDatabase
  BY <1>17 DEF RefuseDatabases, RefuseDatabase
<1> QED
  BY <1>17, <1>1, <1>2, <1>3, <1>7, <1>8, <1>9, <1>10, <1>11, <1>12, <1>13, <1>14, <1>16
     DEF Next, Program

LEMMA SchemaStep == ASSUME TypeOK, LoopInv, SchemaInv, [Next]_vars PROVE SchemaInv'
<1> USE DEF SchemaInv, Goto, Before
<1>1. CASE ReadDatabase
  <2>1. PICK db \in todo :
          /\ todo' = todo \ {db}
          /\ \/ schema' = (IF InSchema(db) THEN schema \cup {EntryOf(db)} ELSE schema)
                /\ UNCHANGED << step, lost >>
             \/ lost' /\ schema' = schema
    BY <1>1 DEF ReadDatabase
  <2>2. /\ step = "policies" /\ master' = master /\ cmd' = cmd
        /\ step' \in {"policies", "crashed"}
    BY <1>1 DEF ReadDatabase
  <2>3. db \in DOMAIN master \cap cmd.dbs
    BY <2>1, <2>2 DEF LoopInv
  <2>4. \A d : Found(d)' <=> Found(d)
    BY <2>2 DEF Found, InSchema, Selected
  <2>5. \A d : EntryOf(d)' = EntryOf(d)
    BY <2>2 DEF EntryOf, Selected
  <2>6. InSchema(db) => Found(db) /\ EntryOf(db).db = db
    BY <2>3 DEF Found, EntryOf
  <2>7. \A e \in schema' : Found(e.db)' /\ e = EntryOf(e.db)'
    BY <2>1, <2>4, <2>5, <2>6
  <2>8. ~lost' => schema' = (IF InSchema(db) THEN schema \cup {EntryOf(db)} ELSE schema)
                  /\ UNCHANGED << step, lost >>
    BY <2>1
  <2>9. step' \notin Before /\ ~lost' =>
          \A d \in Databases :
            Found(d)' => EntryOf(d)' \in schema' \/ (step' = "policies" /\ d \in todo')
    BY <2>1, <2>2, <2>4, <2>5, <2>8 DEF Found
  <2> QED BY <2>2, <2>7, <2>9
<1>2. CASE NextCommand
  BY <1>2 DEF NextCommand, Start
<1>3. ASSUME UNCHANGED << master, cmd, schema >>, UNCHANGED lost \/ lost',
             step \in Before <=> step' \in Before, step = "refused" => step' = "refused",
             step' \notin Before => step # "policies" \/ (todo = {} \/ UNCHANGED << step, todo >>)
      PROVE  SchemaInv'
  <2>1. \A d : Found(d)' <=> Found(d)
    BY <1>3 DEF Found, InSchema, Selected
  <2>2. \A d : EntryOf(d)' = EntryOf(d)
    BY <1>3 DEF EntryOf, Selected
  <2> QED BY <1>3, <2>1, <2>2
<1>4. CASE ListDatabases
  <2>1. \A d : Found(d)' <=> Found(d)
    BY <1>4 DEF ListDatabases, Found, InSchema, Selected
  <2>2. ~lost' => \A d : Found(d) => d \in todo'
    BY <1>4 DEF ListDatabases, Found
  <2> QED BY <1>4, <2>1, <2>2 DEF ListDatabases
<1>5. CASE SchemaRead
  <2>1. step' \notin Before
    BY <1>5, BeginDataGoes DEF SchemaRead, After
  <2> QED BY <1>3, <1>5, <2>1 DEF SchemaRead
<1>6. ASSUME UNCHANGED << master, cmd, schema >>, UNCHANGED lost \/ lost',
             \/ UNCHANGED << step, todo >>
             \/ step \in Before /\ step' \in Before
             \/ step \in Replicating \cup After /\ step' \in Replicating \cup After
      PROVE  SchemaInv'
  BY <1>3, <1>6 DEF Replicating, After
<1>7. CASE UNCHANGED << master, cmd, schema, lost >> /\ step' = "refused"
           /\ step \in {"databases", "policies"}
  <2>1. \A d : Found(d)' <=> Found(d)
    BY <1>7 DEF Found, InSchema, Selected
  <2>2. \A d : EntryOf(d)' = EntryOf(d)
    BY <1>7 DEF EntryOf, Selected
  <2> QED BY <1>7, <2>1, <2>2
<1> QED BY <1>1, <1>2, <1>4, <1>5, <1>6, <1>7, SchemaFrame

-----------------------------------------------------------------------------
\* ReplicateSchema

\* A query for entry g leaves the other entries replicated: it takes nothing
\* away, and changes the default of its own database only.
LEMMA OthersKept ==
  ASSUME NEW g \in schema, Extends(g.to, slave'), schema' = schema,
         NEW f \in schema, f # g, f # entry, f # entry', Replicated(f)
  PROVE  Replicated(f)'
<1>1. /\ f.to \in DOMAIN slave
      /\ \A p \in f.rps : OnSlave(f.to, TargetPolicy(f, p))
      /\ Alone(f) => slave[f.to].def = f.newDef
  BY DEF Replicated
<1>2. f.to \in DOMAIN slave'
  BY <1>1 DEF Extends
<1>3. \A p \in f.rps : OnSlave(f.to, TargetPolicy(f, p))'
  <2> TAKE p \in f.rps
  <2> DEFINE q == TargetPolicy(f, p)
  <2>1. q \in slave[f.to].rps
    BY <1>1 DEF OnSlave
  <2>2. q \in slave'[f.to].rps
    BY <1>1, <2>1 DEF Extends
  <2> QED BY <1>2, <2>2 DEF OnSlave, TargetPolicy
<1>4. Alone(f)' => slave'[f.to].def = f.newDef
  <2> SUFFICES ASSUME Alone(f)' PROVE slave'[f.to].def = f.newDef
    OBVIOUS
  <2>1. Alone(f) /\ f.to # g.to
    BY DEF Alone
  <2> QED BY <1>1, <2>1 DEF Extends
<1> QED BY <1>2, <1>3, <1>4 DEF Replicated

\* A step that leaves the slave and the schema alone, outside the loop over the
\* policies, leaves an entry replicated.
LEMMA ReplicatedKept ==
  ASSUME NEW f \in schema, UNCHANGED << slave, schema >>, f # entry, f # entry', Replicated(f)
  PROVE  Replicated(f)'
BY DEF Replicated, Alone, OnSlave, TargetPolicy

\* The entries of the schema, with their default policy among their policies.
LEMMA EntryType ==
  ASSUME TypeOK, SchemaInv, NEW e \in schema
  PROVE  /\ e \in Entries /\ e # NoEntry
         /\ e.def \in e.rps /\ e.def \in e.read
         /\ e.read = e.rps \cap cmd.rps
<1>1. Found(e.db) /\ e = EntryOf(e.db)
  BY DEF SchemaInv
<1>2. e.db \in DOMAIN master /\ InSchema(e.db)
  BY <1>1 DEF Found
<1>3. e.read = e.rps \cap cmd.rps /\ e.def \in e.read
  BY <1>1, <1>2, EntryOfType
<1> QED BY <1>3, NoEntryIsNone DEF TypeOK

LEMMA CreateDBKeeps ==
  ASSUME AInv, CreateDB PROVE ReplicatedInv'
<1> USE DEF AInv
<1>0. /\ step = "createDB" /\ entry = NoEntry /\ todo \subseteq schema
      /\ step' = "createRP" /\ UNCHANGED << cmd, schema >>
  BY DEF CreateDB, Goto, LoopInv, Replicating, AtEntry
<1>1. PICK e \in todo : /\ Query(DatabaseCreated(e.to, e.newDef))
                        /\ todo' = todo \ {e} /\ entry' = e /\ left' = e.rps
  BY DEF CreateDB
<1>2. e \in Entries /\ e \in schema /\ e.def \in e.rps
  BY <1>0, EntryType
<1>3. /\ Extends(e.to, DatabaseCreated(e.to, e.newDef))
      /\ e.to \in DOMAIN DatabaseCreated(e.to, e.newDef)
  BY <1>2, DatabaseCreatedIs DEF Entries, TypeOK
<1>4. /\ Extends(e.to, slave')
      /\ ~lost' => e.to \in DOMAIN slave' /\ ~lost
  BY <1>1, <1>3, QueryStep
<1> SUFFICES ASSUME cmd.schema, ~lost', NEW f \in schema, f \notin todo'
             PROVE  Replicated(f)'
  BY <1>0 DEF ReplicatedInv, Replicating
<1>5. CASE f = e
  BY <1>1, <1>2, <1>4, <1>5 DEF Replicated
<1>6. CASE f # e
  <2>1. f \notin todo /\ f # entry
    BY <1>0, <1>1, <1>6, EntryType
  <2>2. Replicated(f)
    BY <1>0, <1>4, <2>1 DEF ReplicatedInv, Replicating
  <2> QED BY <1>0, <1>1, <1>2, <1>4, <1>6, <2>1, <2>2, OthersKept
<1> QED BY <1>5, <1>6

\* What the queries of the loop over the policies have in common.
LEMMA PolicyStep ==
  ASSUME AInv, step \in AtEntry, step' \in AtEntry,
         UNCHANGED << cmd, schema, todo, entry >>,
         NEW s, Extends(entry.to, s), Query(s),
         cmd.schema /\ ~lost' /\ slave' = s /\ Replicated(entry) => Replicated(entry)'
  PROVE  ReplicatedInv'
<1> USE DEF AInv
<1>1. entry \in schema \ todo
  BY DEF LoopInv
<1>2. /\ Extends(entry.to, slave')
      /\ ~lost' => slave' = s /\ ~lost
  BY QueryStep
<1> SUFFICES ASSUME cmd.schema, ~lost', NEW f \in schema, f \notin todo
             PROVE  Replicated(f)'
  BY DEF ReplicatedInv, Replicating, AtEntry
<1>3. Replicated(f) /\ Replicated(entry)
  BY <1>1, <1>2 DEF ReplicatedInv, Replicating, AtEntry
<1>4. CASE f = entry
  BY <1>2, <1>3, <1>4
<1>5. CASE f # entry
  BY <1>1, <1>2, <1>3, <1>5, OthersKept
<1> QED BY <1>4, <1>5

LEMMA CreateRPKeeps ==
  ASSUME AInv, CreateRP PROVE ReplicatedInv'
<1> USE DEF AInv
<1>0. /\ step = "createRP" /\ entry \in schema /\ entry \in Entries
      /\ step' = "createRP" /\ UNCHANGED << cmd, schema, todo, entry >>
  BY DEF CreateRP, LoopInv, AtEntry, TypeOK
<1>1. PICK p \in left \ {entry.def} :
        Query(PolicyCreated(entry.to, p)) /\ left' = left \ {p}
  BY DEF CreateRP
<1> DEFINE s == PolicyCreated(entry.to, p)
<1>2. /\ Extends(entry.to, s)
      /\ entry.to \in DOMAIN slave => /\ p \in s[entry.to].rps
                                      /\ s[entry.to].def = slave[entry.to].def
  BY <1>0, PolicyCreatedIs DEF Entries, TypeOK
<1> HIDE DEF s
<1>3. ASSUME slave' = s, Replicated(entry) PROVE Replicated(entry)'
  <2>1. /\ entry.to \in DOMAIN slave /\ entry.to \in DOMAIN slave'
        /\ slave[entry.to].rps \subseteq slave'[entry.to].rps
        /\ p \in slave'[entry.to].rps
        /\ slave'[entry.to].def = slave[entry.to].def
    BY <1>2, <1>3 DEF Replicated, Extends
  <2>2. \A q \in entry.rps : q \in left' \/ OnSlave(entry.to, TargetPolicy(entry, q))'
    BY <1>0, <1>1, <1>3, <2>1 DEF Replicated, OnSlave, TargetPolicy
  <2>3. Alone(entry)' <=> Alone(entry)
    BY <1>0 DEF Alone
  <2>4. Alone(entry) => slave'[entry.to].def = entry.newDef \/ entry.def \in left'
    BY <1>0, <1>1, <1>3, <2>1 DEF Replicated
  <2> QED BY <1>0, <2>1, <2>2, <2>3, <2>4 DEF Replicated
<1> QED BY <1>0, <1>1, <1>2, <1>3, PolicyStep DEF s, AtEntry

LEMMA CreateDefaultRPKeeps ==
  ASSUME AInv, CreateDefaultRP PROVE ReplicatedInv'
<1> USE DEF AInv
<1>0. /\ step = "createRP" /\ entry \in schema /\ entry \in Entries
      /\ step' = "setDefault" /\ UNCHANGED << cmd, schema, todo, entry >>
      /\ left' = left \ {entry.def}
  BY DEF CreateDefaultRP, Goto, LoopInv, AtEntry, TypeOK
<1> DEFINE s == DefaultCreated(entry.to, entry.newDef)
<1>1. Query(s)
  BY DEF CreateDefaultRP
<1>2. /\ Extends(entry.to, s)
      /\ entry.to \in DOMAIN slave => entry.newDef \in s[entry.to].rps
  BY <1>0, DefaultCreatedIs DEF Entries, TypeOK
<1> HIDE DEF s
<1>3. ASSUME slave' = s, Replicated(entry) PROVE Replicated(entry)'
  <2>1. /\ entry.to \in DOMAIN slave /\ entry.to \in DOMAIN slave'
        /\ slave[entry.to].rps \subseteq slave'[entry.to].rps
        /\ entry.newDef \in slave'[entry.to].rps
    BY <1>2, <1>3 DEF Replicated, Extends
  <2>2. \A q \in entry.rps : q \in left' \/ OnSlave(entry.to, TargetPolicy(entry, q))'
    BY <1>0, <1>3, <2>1 DEF Replicated, OnSlave, TargetPolicy
  <2> QED BY <1>0, <2>1, <2>2 DEF Replicated
<1> QED BY <1>0, <1>1, <1>2, <1>3, PolicyStep DEF AtEntry

LEMMA SetDefaultRPKeeps ==
  ASSUME AInv, SetDefaultRP PROVE ReplicatedInv'
<1> USE DEF AInv
<1>0. /\ step = "setDefault" /\ entry \in schema /\ entry \in Entries
      /\ step' = "createRP" /\ UNCHANGED << cmd, schema, todo, entry, left >>
      /\ entry.def \notin left
  BY DEF SetDefaultRP, Goto, LoopInv, AtEntry, TypeOK
<1> DEFINE s == DefaultSet(entry.to, entry.newDef)
<1>1. Query(s)
  BY DEF SetDefaultRP
<1>2. /\ Extends(entry.to, s)
      /\ OnSlave(entry.to, entry.newDef) => s[entry.to].def = entry.newDef
  BY <1>0, DefaultSetIs DEF Entries, TypeOK
<1> HIDE DEF s
<1>3. ASSUME slave' = s, Replicated(entry) PROVE Replicated(entry)'
  <2>1. OnSlave(entry.to, entry.newDef)
    BY <1>0, <1>3, EntryType DEF Replicated, TargetPolicy
  <2>2. /\ entry.to \in DOMAIN slave /\ entry.to \in DOMAIN slave'
        /\ slave[entry.to].rps \subseteq slave'[entry.to].rps
        /\ slave'[entry.to].def = entry.newDef
    BY <1>2, <1>3, <2>1 DEF Replicated, Extends
  <2>3. \A q \in entry.rps : q \in left \/ OnSlave(entry.to, TargetPolicy(entry, q))'
    BY <1>0, <1>3, <2>2 DEF Replicated, OnSlave, TargetPolicy
  <2> QED BY <1>0, <2>2, <2>3 DEF Replicated
<1> QED BY <1>0, <1>1, <1>2, <1>3, PolicyStep DEF AtEntry

LEMMA ReplicatedStep == ASSUME AInv, [Next]_vars PROVE ReplicatedInv'
<1> USE DEF AInv, Goto
\* The steps that leave the slave alone, and what the loops are through with.
<1>1. ASSUME UNCHANGED << slave, cmd, schema, entry, left >>, UNCHANGED lost \/ lost',
             UNCHANGED << step, todo >>
      PROVE  ReplicatedInv'
  <2>1. \A e \in schema : Replicated(e) => Replicated(e)'
    BY <1>1 DEF Replicated, Alone, OnSlave, TargetPolicy
  <2> QED BY <1>1, <2>1 DEF ReplicatedInv
<1>2. ASSUME UNCHANGED << slave, cmd, schema, entry, lost >>, entry = NoEntry,
             step \in Replicating \cup After,
             step \in Replicating => todo = {}
      PROVE  ReplicatedInv'
  <2>1. \A e \in schema : e # entry
    BY <1>2, EntryType
  <2>2. \A e \in schema : Replicated(e) => Replicated(e)'
    BY <1>2, <2>1, ReplicatedKept
  <2> QED BY <1>2, <2>2 DEF ReplicatedInv
<1>3. ASSUME step' \notin Replicating \cup After PROVE ReplicatedInv'
  BY <1>3 DEF ReplicatedInv
<1>4. CASE UNCHANGED vars \/ Surroundings
  BY <1>1, <1>4 DEF vars, Surroundings, agentVars
<1>5. CASE PingMaster \/ PingSlave \/ ListDatabases \/ ReadDatabase
             \/ RefuseDatabases \/ RefuseDatabase
  BY <1>3, <1>5 DEF PingMaster, PingSlave, ListDatabases, ReadDatabase, RefuseDatabases,
                        RefuseDatabase, Replicating, After
<1>6. CASE NextCommand
  BY <1>3, <1>6 DEF NextCommand, Start, Replicating, After
<1>7. CASE SchemaRead
  BY <1>7 DEF SchemaRead, ReplicatedInv, Replicating
<1>8. CASE DatabaseDone
  <2>1. entry \in schema \ todo /\ entry' = NoEntry
    BY <1>8 DEF DatabaseDone, LoopInv, AtEntry
  <2>2. \A e \in schema : Replicated(e) => Replicated(e)'
    BY <1>8, <2>1 DEF DatabaseDone, Replicated, Alone, OnSlave, TargetPolicy
  <2> QED BY <1>8, <2>2 DEF DatabaseDone, ReplicatedInv, Replicating
<1>9. CASE SchemaDone
  BY <1>2, <1>9 DEF SchemaDone, LoopInv, AtEntry, Replicating
<1>10. CASE CopyPolicy \/ DataDone
  BY <1>2, <1>10 DEF CopyPolicy, DataDone, LoopInv, AtEntry, Replicating, After
<1> QED
  BY <1>4, <1>5, <1>6, <1>7, <1>8, <1>9, <1>10, CreateDBKeeps, CreateRPKeeps,
     CreateDefaultRPKeeps, SetDefaultRPKeeps DEF Next, Program

-----------------------------------------------------------------------------
\* What was copied

\* A part of the command that copies begins with every policy of the schema.
LEMMA BeginDataCopies ==
  ASSUME AInv, copied = {}, UNCHANGED << cmd, schema, copied >>, BeginData
  PROVE  CopiedInv'
<1> USE DEF AInv
<1>1. step' \in After /\ (cmd.data => step' = "data" /\ todo' = Pairs(schema))
  BY BeginDataGoes
<1>2. \A e \in schema : \A p \in e.read : << e, p >> \in Pairs(schema)
  BY EntryType DEF Pairs, Entries
<1> QED BY <1>1, <1>2 DEF CopiedInv

LEMMA CopiedStep == ASSUME AInv, [Next]_vars PROVE CopiedInv'
<1> USE DEF AInv, Goto
<1>1. CASE UNCHANGED vars \/ Surroundings
  BY <1>1 DEF vars, Surroundings, agentVars, CopiedInv, TargetPolicy
<1>2. ASSUME step \notin After, step' \notin After, UNCHANGED copied
      PROVE  CopiedInv'
  BY <1>2 DEF CopiedInv
<1>3. CASE PingMaster \/ PingSlave \/ ListDatabases \/ ReadDatabase
             \/ RefuseDatabases \/ RefuseDatabase
  BY <1>2, <1>3 DEF PingMaster, PingSlave, ListDatabases, ReadDatabase, RefuseDatabases,
                        RefuseDatabase, After
<1>4. CASE CreateDB \/ CreateRP \/ CreateDefaultRP \/ SetDefaultRP \/ DatabaseDone
  BY <1>2, <1>4 DEF CreateDB, CreateRP, CreateDefaultRP, SetDefaultRP, DatabaseDone, After
<1>5. CASE NextCommand
  BY <1>5 DEF NextCommand, Start, CopiedInv, After
<1>6. CASE SchemaRead
  <2>1. copied = {}
    BY <1>6 DEF SchemaRead, CopiedInv, After
  <2> QED BY <1>2, <1>6, <2>1, BeginDataCopies DEF SchemaRead, After
<1>7. CASE SchemaDone
  BY <1>7, BeginDataCopies DEF SchemaDone, CopiedInv, After
<1>8. CASE CopyPolicy
  <2>1. PICK ep \in todo :
          /\ todo' = todo \ {ep}
          /\ copied' = IF ep[2] \notin ep[1].read THEN copied
                       ELSE copied \cup {[from |-> << ep[1].db, ep[2] >>,
                                          to   |-> << ep[1].to, TargetPolicy(ep[1], ep[2]) >>]}
    BY <1>8 DEF CopyPolicy
  <2>2. step = "data" /\ step' = "data" /\ UNCHANGED << cmd, schema >>
    BY <1>8 DEF CopyPolicy
  <2>3. ep[1] \in schema /\ ep = << ep[1], ep[2] >>
    BY <2>1, <2>2 DEF LoopInv, Pairs
  <2>4. \A c \in copied' : \E e \in schema : \E p \in e.read :
          c = [from |-> << e.db, p >>, to |-> << e.to, TargetPolicy(e, p) >>]
    BY <2>1, <2>3 DEF CopiedInv
  <2>5. ASSUME cmd.data, NEW e \in schema, NEW p \in e.read, << e, p >> \notin todo'
        PROVE  \E c \in copied' : c.from = << e.db, p >>
    <3>1. CASE << e, p >> \in todo
      <4>1. ep[1] = e /\ ep[2] = p
        BY <2>1, <2>5, <3>1
      <4> DEFINE new == [from |-> << e.db, p >>, to |-> << e.to, TargetPolicy(e, p) >>]
      <4>2. new \in copied' /\ new.from = << e.db, p >>
        BY <2>1, <4>1
      <4> QED BY <4>2
    <3>2. CASE << e, p >> \notin todo
      BY <2>1, <2>2, <2>5, <3>2 DEF CopiedInv, After
    <3> QED BY <3>1, <3>2
  <2>6. \A e, p : TargetPolicy(e, p)' = TargetPolicy(e, p)
    BY DEF TargetPolicy
  <2> QED BY <2>2, <2>4, <2>5, <2>6 DEF CopiedInv, After
<1>9. CASE DataDone
  BY <1>9 DEF DataDone, CopiedInv, After, TargetPolicy
<1> QED
  BY <1>1, <1>3, <1>4, <1>5, <1>6, <1>7, <1>8, <1>9 DEF Next, Program

-----------------------------------------------------------------------------
\* The theorems

LEMMA InitInv == Init => AInv
<1> SUFFICES ASSUME Init PROVE AInv
  OBVIOUS
<1>1. TypeOK
  BY InitType
<1> QED
  BY <1>1 DEF Init, AInv, LoopInv, SchemaInv, ReplicatedInv, CopiedInv, Before,
              Replicating, AtEntry, After

LEMMA NextInv == AInv /\ [Next]_vars => AInv'
BY TypeStep, LoopStep, SchemaStep, ReplicatedStep, CopiedStep DEF AInv

\* The invariant that the theorems below follow from.
THEOREM Invariance == Spec => []AInv
BY InitInv, NextInv, PTL DEF Spec

\* Every variable keeps its type, whatever commands follow each other and
\* wherever one of them crashes.
THEOREM TypeCorrect == Spec => []TypeOK
<1>1. AInv => TypeOK
  BY DEF AInv
<1> QED BY <1>1, Invariance, PTL

\* A selected database whose default policy is selected is one that GetSchema
\* should find.
LEMMA SelectedIsFound ==
  ASSUME TypeOK, NEW db \in DOMAIN master \cap cmd.dbs, master[db].def \in cmd.rps
  PROVE  db \in Databases /\ Found(db)
<1>1. db \in Databases /\ master[db].def \in master[db].rps \cup {None}
  BY MapType DEF TypeOK
<1>2. cmd.rps \subseteq Policies
  BY DEF TypeOK, CommandType
<1> QED BY <1>1, <1>2, AgentAssumption DEF Found, InSchema, Selected

\* ReplicateSchema (hacluster.go) leaves the slave with every selected database
\* whose default policy is selected too, with its selected policies and its default
\* one, whatever schema the slave had before.
THEOREM SchemaIsReplicated == Spec => []SchemaReplicated
<1>1. AInv => SchemaReplicated
  <2> SUFFICES ASSUME AInv, cmd.schema, ~lost, step \in After,
                      NEW db \in DOMAIN master \cap cmd.dbs, master[db].def \in cmd.rps
               PROVE  \E e \in schema :
                        /\ e.db = db
                        /\ \A p \in master[db].rps \cap cmd.rps :
                             OnSlave(e.to, TargetPolicy(e, p))
                        /\ (\A f \in schema : f.to = e.to => f = e) => slave[e.to].def = e.newDef
    BY DEF SchemaReplicated, After
  <2> USE DEF AInv
  <2>3. db \in Databases /\ Found(db)
    BY SelectedIsFound
  <2> DEFINE e == EntryOf(db)
  <2>4. e \in schema
    BY <2>3 DEF SchemaInv, Before, After
  <2>5. e.db = db /\ e.rps = master[db].rps
    BY DEF EntryOf
  <2>6. Replicated(e) /\ e # entry
    <3>1. entry = NoEntry
      BY DEF LoopInv, After, AtEntry
    <3> QED BY <2>4, <3>1, EntryType DEF ReplicatedInv, Replicating, After
  <2> HIDE DEF e
  <2>7. /\ \A p \in master[db].rps \cap cmd.rps : OnSlave(e.to, TargetPolicy(e, p))
        /\ Alone(e) => slave[e.to].def = e.newDef
    BY <2>5, <2>6 DEF Replicated
  <2> QED BY <2>4, <2>5, <2>7 DEF Alone
<1> QED BY <1>1, Invariance, PTL

\* When a command replicated the schema, each policy that ReplicateData copies to
\* (hacluster.go) is there.
THEOREM TargetsDoExist == Spec => []TargetsExist
<1>1. AInv => TargetsExist
  <2> SUFFICES ASSUME AInv, cmd.schema, ~lost, NEW c \in copied
               PROVE  OnSlave(c.to[1], c.to[2])
    BY DEF TargetsExist
  <2> USE DEF AInv
  <2>0. PICK e \in schema :
          \E p \in e.read : c = [from |-> << e.db, p >>, to |-> << e.to, TargetPolicy(e, p) >>]
    BY DEF CopiedInv
  <2>1. PICK p \in e.read : c = [from |-> << e.db, p >>, to |-> << e.to, TargetPolicy(e, p) >>]
    BY <2>0
  <2>2. step \in After /\ entry = NoEntry
    BY DEF CopiedInv, LoopInv, After, AtEntry
  <2>3. Replicated(e) /\ e # entry /\ p \in e.rps
    BY <2>2, EntryType DEF ReplicatedInv, Replicating, After
  <2>4. OnSlave(e.to, TargetPolicy(e, p))
    BY <2>3 DEF Replicated
  <2> QED BY <2>1, <2>4
<1> QED BY <1>1, Invariance, PTL

\* ReplicateData copies nothing that the filters of the command leave out, and,
\* of each selected database whose default policy is selected, every policy that
\* they select.
THEOREM OnlySelectedIsCopied == Spec => []OnlySelectedCopied
<1>1. AInv => OnlySelectedCopied
  <2> SUFFICES ASSUME AInv PROVE OnlySelectedCopied
    OBVIOUS
  <2> USE DEF AInv
  <2>1. ASSUME NEW c \in copied PROVE c.from[1] \in cmd.dbs /\ c.from[2] \in cmd.rps
    <3>0. PICK e \in schema : \E p \in e.read : c.from = << e.db, p >>
      BY DEF CopiedInv
    <3>1. PICK p \in e.read : c.from = << e.db, p >>
      BY <3>0
    <3>2. e.db \in cmd.dbs /\ p \in cmd.rps
      BY EntryType DEF SchemaInv, Found
    <3> QED BY <3>1, <3>2
  <2>2. ASSUME cmd.data, ~lost, step \in {"done", "monitors"},
               NEW db \in DOMAIN master \cap cmd.dbs, master[db].def \in cmd.rps,
               NEW p \in master[db].rps \cap cmd.rps
        PROVE  \E c \in copied : c.from = << db, p >>
    <3> DEFINE e == EntryOf(db)
    <3>1. db \in Databases /\ Found(db)
      BY <2>2, SelectedIsFound
    <3>2. e \in schema
      BY <2>2, <3>1 DEF SchemaInv, Before
    <3>3. e.db = db /\ p \in e.read
      BY DEF EntryOf, Selected
    <3> HIDE DEF e
    <3>4. \E c \in copied : c.from = << e.db, p >>
      BY <2>2, <3>2, <3>3 DEF CopiedInv, After
    <3> QED BY <3>3, <3>4
  <2> QED BY <2>1, <2>2 DEF OnlySelectedCopied
<1> QED BY <1>1, Invariance, PTL

=============================================================================
