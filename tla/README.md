# A TLA+ model of syncflux

syncflux keeps a *slave* influxdb server equal to a *master*. A relay, which is
not part of it, writes every point to both servers; what the slave misses while
it is down is lost for the relay, and syncflux copies it from the master when
the slave is back. It also copies schemas and data on command.

This directory has TLA+ modules of that program, configurations for the model
checker TLC, and theorems checked by the proof system TLAPS.

    tlc -config HACluster.cfg MCHACluster.tla      # model check
    tlapm HACluster_proofs.tla                     # check the proofs

`PROJECT.json` lists the runs, and for each definition the lines it models.
Paths below are relative to `src/pkg/agent/` unless they begin with `src/`.

## 1. The system

| component | state | operations | talks to |
|---|---|---|---|
| supervisor (`hacluster.go`) | `ClusterState`, `SlaveStateOK`, `SlaveLastOK`, `MasterStateOK`, `MasterLastOK`, `ClusterNumRecovers`, `Schema` | `startSupervisorGo`, `checkCluster`, `GetStatus` | reads the monitors under their locks, calls the schema and copy functions in its own goroutine |
| monitors (`influxmonitor.go`), one goroutine per server | `statusOK`, `lastOK`, `cli`, `lastcli` | `GetStat` = `InitPing` then `setStatOK`/`setStatError`; `GetState`, `UpdateCli` | ping the servers; read by the supervisor |
| chunked copy (`sync.go`) | window, chunk counter, errors per chunk, bad chunks | `SyncDBRP`, `Sync` and a worker pool | `ReadDB` from the master, `WriteDB` to the slave |
| queries and writes (`client.go`, `try/try.go`) | attempts, the pieces of a batch | `ReadDB`, `WriteDB`, `BpSplit`, `try.Do`, schema queries | the servers |
| schema (`hacluster.go`) | list of databases, their policies and measurements | `GetSchema`, `ReplicateSchema`, `ReplicateData`, `ReplicateDataFull` | queries to both servers |
| commands (`agent.go`) | the `Cluster` | `initCluster`, `ReplSch`, `Copy`, `SchCopy`, `HAMonitorStart` | all of the above |
| command line (`src/pkg/main.go`, `src/pkg/util.go`) | flags, `starttime`, `endtime`, chunk duration, a goroutine for signals | parsing, choice of the action, signals | commands, web server |
| configuration, web interface | read only settings; sessions | `GetStatus` over HTTP; `ListenAndServe` keeps the process alive | reads the cluster under its lock |

What is hard in it:

* three goroutines (two monitors and the supervisor) look at servers that come
  and go at any moment; the supervisor acts on what a monitor recorded up to a
  check interval ago, and then runs for minutes in a recovery;
* the window of a recovery is computed from recorded times, and has to reach
  back far enough for points lost before the outage was noticed;
* every request may fail, or be served and its answer be lost; a failure of one
  measurement makes a whole chunk bad, and the chunk is copied again in smaller
  ones;
* times are nanoseconds in one place and whole seconds in another;
* the clock is read at several places for one window, whose defaults come from
  before `main`;
* a schema is replicated by a series of queries, each of which may fail or be
  refused, onto a slave that may hold half of it;
* nothing is kept on disk: a restart forgets everything.

### Hazards

`PROJECT.json` lists each with its line and its properties. The most important:

1. *Slave not good at start* (`hacluster.go:377`). Found by a violated property.
2. *The window of a recovery* (`hacluster.go:310`, `influxmonitor.go:36`):
   `OutageRepaired`, `WindowSound`, `ImplementsCycle`, proved.
3. *Stale state and clients* (`hacluster.go:271`, `:325`): `FreshClient`,
   `NeverFoundRecovering`, proved.
4. *Partial failure of a copy* (`sync.go:200`, `client.go:383`, `:544`):
   `NothingForgotten`, `KeepsLedger`, proved; `AllReported` is violated.
5. *Chunk arithmetic* (`sync.go:118`, `:128`, `:162`): `WindowAsked`,
   `AskedOnce`, `AsksOnlyNear`, proved; `WindowCopied` and
   `WindowAskedForAnyChunk` are violated.
6. *Half replicated schemas* (`hacluster.go:170`): `SchemaReplicated`, proved.
7. *A schema older than the data* (`client.go:432`): `SchemaCovers`, proved.
8. *The window and the end of a command* (`src/pkg/main.go:47`, `:269`):
   `PanicOnlyIfReversed`, proved; `CommandReturns`.
9. *Signals after a SIGHUP* (`src/pkg/main.go:243`): `TermEnds` is violated.
10. *The limit of attempts* (`try/try.go:25`): `RepeatedEnough` is violated.
11. *Filters* (`hacluster.go:117`, `:154`): `OnlySelectedReplicated` is violated;
    `OnlySelectedCopied`, proved, says what is copied.

Outages that the code does not repair, and makes no promise about: one that
begins and ends between two checks; one of the slave that begins while a
recovery runs, and is over at the next check; any outage if the master does not
answer at the moment of the recovery, since the errors of `GetSchema` are
dropped and the recovery is counted as done; an outage that was not recovered
when the process ended. `OutageRepair!LongOutages` states what is left.

## 2. The modules

    ClusterCycle  <-- refined by --  HACluster ---- InfluxMonitor ---- InfluxDB
      (abstract)                       |    \                            |
                                       |     `----- SyncDBRP ------------+
                               OutageRepair             |   \            |
                                                       Sync  ChunkWindow |
                                                       /     /           |
         CopyLedger  <-- refined by ------------------'  ChunkLoop     Agent
          (abstract)                                        |
                                                       CommandLine

| module | what it models |
|---|---|
| `InfluxDB` | external: two servers that go and come back, the relay, the clock, requests without an answer |
| `InfluxMonitor` | the monitors: `InitPing`, `InitPingError`, `SetStatOK`, `SetStatError`, `GetState`, `UpdateCli` |
| `ChunkWindow` | the arithmetic of `Sync`: number of chunks, their bounds in whole seconds, which points a query asks for |
| `ChunkLoop` | the loop of `Sync` alone, for any window and chunk |
| `CommandLine` | a run of the program: configuration, `ParseEnd`, `ParseStart`, `ParseChunk`, the action, the chunks of its window, signals, exits |
| `CopyLedger` | abstract: each point of a window is still to be asked for, to be repeated, copied, reported, skipped or lost |
| `SyncDBRP` | a copy, one step per chunk: `CopyChunk`, `BadChunk`, `RepeatBadChunk` |
| `Sync` | what happens in a chunk: worker pool, reads, retries, pieces, writes, lost answers |
| `ClusterCycle` | abstract: the cycle OK, CHECK_SLAVE_DOWN, RECOVERING, with what a recovery promises |
| `HACluster` | the supervisor with both monitors and the copy; kill and restart |
| `OutageRepair` | `HACluster` under an assumption about outages, with what recoveries leave out |
| `Agent` | `initCluster` and the commands: schema read, replicated, data copied to which policy |
| `MC...` | the instances for TLC |
| `HACluster_proofs`, `OutageRepair_proofs`, `Sync_proofs`, `CopyLedger`, `CommandLine_proofs` (which has those of `ChunkLoop`), `Agent_proofs` | theorems |
| `ChunkWindow_proofs`, `SyncDBRP_proofs` | lemmas: the arithmetic of chunks; the lists of chunks and what is left of a call |

How state and actions correspond to the code:

* `HACluster!sup` is the supervisor's program counter. A step ends where another
  goroutine or a server can be observed: each `GetState`, `UpdateCli`, each
  request of `GetSchema`, each chunk. The switch of `checkCluster` is one action
  with one disjunct per case (`DetectedDown`, `StillDown`, `DetectedUp`,
  `StillOK`, `Unhandled`); the guards are those of the cases and the negation of
  the earlier ones where it matters.
* The case for RECOVERING is not modelled as a disjunct, because a check never
  finds that state: `NeverFoundRecovering` says so and is proved.
* A client is the number of outages its server had when it was made. A server
  that was away has a higher number, so "made after the outage" is a comparison.
  `lastcli` is read and written without a common lock; both are interface values
  of one dynamic type, never nil once `initCluster` is through, so a racing read
  gives the old or the new client, as in the model.
* The check interval is a number of ticks that is subtracted from a window's
  start; the tickers themselves are not counted: the checks of the supervisor
  and the pings come at any time, in any order, any number of times. The answer
  to a ping is recorded at most `MaxLag` ticks late (the client's timeout).
* One database with one policy stands for all in `HACluster`; `GetSchema` and
  `ReplicateData` treat them one after the other. `Agent` has several.
* Points are a measurement and a time; the values of fields are not modelled. A
  measurement has one series. It is first written at tick `Born`, and stands for
  its fields too: `schema` is the set of measurements that a copy knows, read
  from the master when the copy is called; it copies no other.
* `CommandLine` has `ChunkLoop`'s variables as the window of its copy. A flag is a
  kind (not given, refused, seconds, duration before now, date) and a value; what
  `GetFirstLastTime` does for `-full` is in `StartCopy`, one policy for all.
  `initCluster`, the servers and the data are those of `Agent` and `Sync`: here a
  request of a copy always ends. `clock` moves only until the window is known.
* A signal that `CommandLine`'s goroutine does not wait for is lost: the channel has
  no buffer, and the goroutine has one `select` and no loop. One that comes between
  `signal.Notify` and the `select` is lost too, and leaves no trace in the model.
* In `Agent` a filter is the set of names that match it, or no regular expression
  (`wrong`): the command then ends where the filter is compiled, which for policies
  and measurements is after some queries (`Refused`). The durations of policies are
  not modelled: influxdb leaves a policy that exists as it is.
* `ClusterCycle!running` is the life of a supervisor. `HACluster` maps it to the
  first read of the slave (`Started`), so that a supervisor begins anew only after
  a kill or a crash.

## 3. What is checked

| run | module, bounds | what it shows |
|---|---|---|
| `ha_cycle` | `HACluster`; 1 tick, two losses of contact, both with the slave or one with each server, one kill and restart | `NeverFoundRecovering`, `FreshClient`, `DownSlaveKnown`, `WindowSound`, the invariant `IInv` of the proofs, and that the supervisor implements `ClusterCycle`; `RecoveryEnds`, `Converges`: no recovery hangs, and the cluster becomes OK when both servers stay up |
| `outage_repair` | 6 ticks, chunks of 3, the repeat chunks of 1, an outage anywhere, answers up to 2 ticks late, a measurement first written at tick 2 | `OutageRepaired`: the slave has all it missed but what the chunks leave out; `SchemaCovers`: also of what was not there before the outage |
| `sync` | 2 measurements, one from tick 0 and one from tick 3 on, 5 ticks, 2 chunks of which both have points, and then up to 6 shorter ones, 2 workers, pieces of 2 points, 2 attempts, one loss of each server, an answer with an error that leaves out a point | `KeepsLedger`: each step implements `CopyLedger`; `NothingForgotten`; `SyncReturns` |
| `command_line` | seconds of 3 ticks; -start and -end not given, refused, 2 values in seconds, 3 durations, and all dates in 0..16; chunks of 0, 2, 3, 4, 6 and 9 ticks; a limit of 10; the clock moves on by 1 tick | `WindowAsked`, `AskedOnce`, `AsksOnlyNear` for every window that flags and clock give; `PanicOnlyIfReversed`, `CommandReturns`: how a command ends |
| `agent` | 2 databases on the master, 3 policies, all combinations of actions, filters and new names, and filters that do not compile, one loss each, 2 commands in a row | `SchemaReplicated`, `TargetsExist`, `OnlySelectedCopied`, `CommandEnds` |

Why the bounds are enough. Two outages of the slave are the least for which a
client of one life can be taken for that of another, and for which a second
recovery follows a first. A loss of contact is either an outage of any length or
a single request without an answer, so one loss already gives retries that
succeed, retries that are used up, and a server away for good; `MaxLosses` bounds
the losses of both servers together. In `sync` a chunk
has three points inside, which pieces of two split; its repeat chunks have an
inner point and a boundary. The second measurement has a chunk without points and
one whose points are a single piece. In `command_line` a second of 3 ticks has
times that no bound can fall on, the chunks of 2 and 4 ticks are not whole
seconds, windows are reversed by several chunks, and the default start lies 1
tick, less than any second, before the start, as 86400 nanoseconds do; one tick
between two readings of the clock is enough to reverse a window. In `agent`
the second command finds every state of the slave that a first one, complete,
given up or crashed, can leave. The theorems do not depend on any bound.

Fairness. `HACluster!Fairness` has weak fairness of each monitor's goroutine,
of the supervisor, and of a restart: the goroutines are driven by tickers, wait
for no other goroutine (locks are held for a few assignments), and each request
ends by an answer or by the timeout of the http client. Nothing is assumed of
the servers. `Sync` and `Agent` have weak fairness of the program as a whole: some
worker, or the loop, goes on. A copy does a bounded number of steps, so that this
is enough for it to return.
`CommandLine!FairCmdSpec` assumes that the goroutine of `main` goes on, and the one
for signals when it can; nothing of the signals themselves or of the listener.

What `OutageRepaired` assumes is written as the action constraint `LongOutages`,
not hidden in bounds: outages last until the supervisor has seen them, the slave
had been seen good before, and the servers answer during the recovery.

### Disagreements between the code and its documents

| run | property | what happens |
|---|---|---|
| `down_is_reported` | `DownIsReported` | a slave that is not good when the supervisor first reads it stays in state OK, each check is "unhandled", and its outage is never recovered |
| `window_copied` | `WindowCopied` | a copy without any error leaves out points on the whole seconds where two chunks meet |
| `partial_answers` | `AllReported` | an answer of the master that holds an error is taken as complete |
| `chunk_fraction` | `WindowAskedForAnyChunk` | with a chunk duration that is not whole seconds the oldest part of a window is never asked for; the second pass divides the duration by 10 |
| `only_selected_replicated` | `OnlySelectedReplicated` | `-rp` does not restrict which policies are created |
| `repeated_enough` | `RepeatedEnough` | with `rw-max-retries` above 10 a query is given up at the tenth attempt (`try/try.go:6`), against `src/conf/sample.syncflux.toml:113` |
| `term_ends` | `TermEnds` | after a SIGHUP, which `agent.ReloadConf` answers by nothing, a SIGTERM does not end the process |

Met while modelling, without a run:

* `OK` is shown while the master is down (`hacluster.go:355`, against
  src/README.md:782).
* A database whose default policy does not match `-rp` is left out as a whole
  (`hacluster.go:154`): `copy -rp "^rp2$"` copies nothing from a database with
  default rp1, where `src/pkg/main.go:85` calls the flag "the rp where to play".
  `SchemaReplicated` and `OnlySelectedCopied` are stated for the other databases.
* The default start of a copy is 86400 *nanoseconds* ago (`src/pkg/main.go:47`,
  against :90): a copy without `-start` asks for one chunk, and with an `-end` in
  the past alone it panics. `PanicOnlyIfReversed` is stated with the code's
  default.
* A listener that fails ends `hamonitor` with exit status 0
  (`src/pkg/webui/webserver.go:180`), which the service's restart on failure does
  not take for one.
* A flag that is not defined, or that does not parse, ends the process with exit
  status 1 (`f.Usage`, `src/pkg/main.go:108`): the service scripts under
  `src/packaging/` pass `--home` and `--data`, whose definitions are commented out.
  Parsing stops at the first word that is no flag: the example of src/README.md:486
  (`-start -10h end -5h`) loses its end. A chunk duration of 0 panics.
* `-logmode` has the log directory as its default (`src/pkg/main.go:102`).
* A value that does not fit the type of its field in the schema is written as 0
  (`client.go:440`).

## 4. What is proved

Every invariant and every action property that a passing run checks, and both
refinements, for every value of the constants. The assumptions are those that the
modules name (distinct servers, natural bounds, a chunk of at least `RetryRatio`
ticks, times of the flags within the horizon of the model) and, where a theorem
says so, one of these:

* `WholeChunks` (`LedgerKept`, `NothingIsForgotten`, `OutagesRepaired`): the
  chunks of both passes are whole seconds. The durations of
  `src/conf/sample.syncflux.toml` are: 5 minutes, and a tenth of it. With
  others the oldest part of a window is not asked for: run `chunk_fraction`.
* `RepairAssumed` (`OutagesRepaired`): besides `WholeChunks`, the process is not
  killed (`MaxRestarts = 0`: an outage that was not recovered is forgotten then),
  and `MaxLag <= CheckInterval + 1`. That is the one condition on durations: an
  answer to a ping may be recorded late by the time that is taken from the last
  good time of the slave, 20 seconds in the sample against a timeout of 10. The
  bound is exact: with `MaxLag = 3` in `OutageRepair.cfg`, where `CheckInterval`
  is 1, TLC finds an outage whose first point lies before the window.

### The supervisor: `HACluster_proofs`

`Invariance` (`Spec => []IInv`) gives `TypeCorrect`, `RecoveringShown`,
`ClientsFresh`, `DownKnown` and `WindowsSound`; with it, `SchemaComplete` and
`CycleImplemented`, the refinement of `ClusterCycle` by initial state and by step:
while the process lives a slave found down is left by a recovery only, each recovery
is counted, and the last good time never goes back (`Start` needs `~running`, and
only a kill or a crash makes that true).

`IInv` is `TypeOK /\ StateInv /\ TimeInv /\ ClientInv`. None of the four
properties is inductive alone.

* `StateInv` ties the position of the supervisor to the state it shows. It is
  what makes the RECOVERING case dead, and it tells in which steps the other
  parts may change.
* `TimeInv` orders the three records of the slave's last good time: the
  cluster's is never ahead of the monitor's, nor the monitor's of the clock, and
  a good record has a real time. A window, made of the cluster's and the
  monitor's, is then never reversed nor in the future.
* `ClientInv` counts: the recoveries begun never exceed the outages after which
  the monitor got a client (`NewLife`). While a slave found down has not been
  seen up again, its monitor either holds a client of a later life, or will make
  one before it can report the slave as good.

`SchemaComplete` needs besides that points are stamped with the time they are
written at: none that is new to the master while a recovery copies lies in the
window, which had ended when the schema was read.

### The end-to-end promise: `OutageRepair_proofs`

`OutagesRepaired`: whenever the cluster is OK and the slave up, the slave has
all the master has but what the queries leave out - for any number of outages of
both servers, under `LongOutages`. `RInv` follows the points that are lost
(`Lost`) from the outage to the end of the copy:

* `AwareInv`: monitor and cluster agree on whether the slave is down, and there
  is no answer under way that is older than what they agree on. So an outage
  begins with a good record, is found by the check, and a good record found
  later is one of the slave that returned.
* `LostInv`: while an outage is not found, no lost point is older than the last
  good answer, nor than one under way; once it is found, none is older than
  `SlaveLastOK` less `MaxLag`, and after the return none is newer than the
  monitor's record. These are the two ends of the window `DetectedUp` makes.
* `CopyInv`: during the copy all that is lost lies in chunks that are left
  (`Rest`) or is left out by all of them (`LeftOut`). At its start that is
  `ChunksCover`, the arithmetic; each chunk brings what it held of it, because
  the schema has its measurements (`SchemaCovers`); at the end `Rest` is empty.
* `ClockInv`: answers are at most `MaxLag` old, and nothing is stamped with a
  time to come.

The proof is one of `RepairNext` from `IInv /\ SchemaCovers /\ RInv`, so it rests
on the theorems of `HACluster`.

### The copy: `Sync_proofs`, `CopyLedger`

`CopyLedger` has `LedgerBalanced`: the abstract ledger accounts for every point of
a window at any time. `LedgerKept` is the refinement: each step of `Sync`, by any
worker, with requests lost before or after they were served, is a step of the
ledger or none. `NothingIsForgotten` follows from the two.

* `SInv` (`Invariance`): a worker that writes has pieces enough for what is left
  of its batch, and what its measurement has in the chunk is on the slave, in the
  batch, or was cut off by an answer with an error; when a task is through without an
  error counted, nothing is left. Between two chunks no worker runs. The
  arithmetic of `BpSplit` is `PieceSize`, a fact about cardinalities.
* `BadInv`: the chunks to be repeated are chunks of the first pass, so that the
  bounds of the shorter ones that they are cut into, on which no query asks, lie
  on the boundaries that `Skipped` names (`FinerBoundary`).

### Commands: `CommandLine_proofs`, `Agent_proofs`

The loop of `Sync`, for every window, every chunk, length of a second and limit:

* `TypeCorrect`, with the bound of the loop's counter;
* `Coverage`: `Spec => []WindowAsked`. The inductive part is `Suffix`: after i
  chunks all that is newer than chunk i was asked for, boundaries apart. When the
  loop ends, `ChunksReach` shows that chunk i is older than the window or than
  the limit;
* `NoOverlap`: `Spec => AskedOnce`, from `Newer`: all that was asked for is newer
  than chunk i;
* `StaysNear`: `Spec => []AsksOnlyNear`. The loop's counter is bounded by the
  number of chunks, so that the oldest chunk begins at most a chunk and the
  fraction of a second before the start.

A run of the program (`CmdSpec`), whose flags and clock choose the window, which
may be reversed: `CmdInvariance` (`CmdInv`) carries the loop's invariant through
the phases of `main` and its signals, ties the window to the flags and to the
readings of the clock (`WindowInv`), and the end of the process to what happened
before (`EndInv`). From it `CmdTypeCorrect`, `CommandCovers`, `CommandStaysNear`,
`CommandAsksOnce` and `PanicsOnlyIfReversed` - a window reversed by less than two
chunks makes no slice of negative length, since Go's division truncates towards
zero.

`Agent_proofs`, for any databases, policies, filters, lost requests and sequence of
commands: `Invariance` (`AInv`) says how far each loop of `GetSchema`,
`ReplicateSchema` and the copy is (`LoopInv`), that the schema read is that of the
selected databases (`SchemaInv`), that the entries the loop is through with are on
the slave, whatever it held before (`ReplicatedInv`), and what was copied
(`CopiedInv`). It gives `TypeCorrect`, `SchemaIsReplicated`, `TargetsDoExist` and
`OnlySelectedIsCopied`. The first and the last of these three take the databases
that the master has and the filters select, not those that `GetSchema` found: that
each of them whose default policy is selected was found (`SelectedIsFound`, with
`SchemaInv`) is part of the proof.

### Only model-checked

The liveness properties: `RecoveryEnds`, `Converges`, `SyncReturns`,
`CommandReturns`, `CommandEnds`. Liveness under fairness is beyond the prover.
The violated properties are refuted by TLC.

## 5. What is not modelled

* The values of fields in `ReadDB` and their conversion by type, and the points that
  it leaves out, without an error counted, because their time does not parse or a
  point cannot be made of them (`client.go:403-422`, `:472-474`). The master's
  answers are taken to hold points with a time and a field.
* `-version`, log files and the pid file; a negative `-chunk`.
* `GetStatus` and the web interface, which only read; the web framework.
* A database that is created on the master while the slave is down: `GetSchema`
  finds it, and the recovery writes to a database that the slave does not have.
  One database stands for all in `HACluster`.
* The configuration, which is constant; logging, statistics, build and packaging.
* `Ping` and `GetCli` of a monitor, which nothing calls.

## 6. Plan

Done, in this order: `InfluxDB`, `InfluxMonitor`, `ChunkWindow`, `SyncDBRP`,
`HACluster` with `ClusterCycle`, `OutageRepair`, `Sync`, `ChunkLoop`, `Agent`;
the proofs of `HACluster` and `ChunkLoop`; `CopyLedger` with `KeepsLedger`, the
schema of a copy with `SchemaCovers`, `CommandLine`; the proofs of `Agent`, `Sync`
with its refinement, `CommandLine` and `OutageRepair`.

Next, in this order:

1. In `HACluster`: when the copy of a recovery has ended, every point its window
   still lacks on the slave is in a chunk the copy reported bad, also when a server
   went down and came back in the middle of it. The argument is the one of `Sync`
   with the window's end in place of its constant, and its lemmas on chunks are to
   be stated once for both in `SyncDBRP_proofs`.
2. An abstract specification of a command (a schema is copied whole or an error
   is met), implemented by `Agent`, with the proof.
3. What one chunk of `SyncDBRP` promises, as a theorem about the chunks of `Sync`,
   on which `OutageRepair` relies.
4. The field values of `ReadDB`: conversion by type.
5. `GetStatus` beside the supervisor: what a reader sees while a check writes,
   and the unlocked writes of `startSupervisorGo`.
