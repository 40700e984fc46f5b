-------------------------------- MODULE Sync --------------------------------
(***************************************************************************)
(* What happens inside the chunks that SyncDBRP counts: Sync of            *)
(* pkg/agent/sync.go with ReadDB, WriteDB and BpSplit of client.go and Do  *)
(* of try/try.go.                                                          *)
(*                                                                         *)
(* For each chunk the measurements are submitted to a pool of NumWorkers   *)
(* workers.  A worker reads the points of its measurement from the master, *)
(* splits them in pieces of MaxPoints and writes these to the slave, each  *)
(* request with retries.  StopWait is the barrier at the end of a chunk.   *)
(* A measurement has one series, so that its points are in order of time.  *)
(* Map iteration gives the measurements in any order, so that any queued   *)
(* one may be next.                                                        *)
(*                                                                         *)
(* A request that got no answer may still have been served: a write whose  *)
(* answer is lost leaves its points on the slave.                          *)
(***************************************************************************)
EXTENDS SyncDBRP, FiniteSets

CONSTANTS
  Start, End,          \* the window that SyncDBRP is called with
  NumWorkers,          \* num-workers
  RWMaxRetries,        \* rw-max-retries
  MaxRetries,          \* the limit of the package try (10)
  MaxPoints,           \* max-points-on-single-write
  MaxCut               \* bound: points that answers with an error may leave out

ASSUME SyncAssumption ==
  /\ Start \in Nat /\ End \in Nat /\ Start <= End
  /\ NumWorkers \in Nat \ {0} /\ MaxPoints \in Nat \ {0}
  /\ RWMaxRetries \in Nat /\ MaxRetries \in Nat \ {0}
  /\ MaxCut \in Nat

VARIABLES
  task,                \* the closure of each measurement in the current chunk
  readErrors, writeErrors,
  cut                  \* history: points that an answer with an error left out

taskVars == << task, readErrors, writeErrors, cut >>
vars == << envVars, syncVars, taskVars >>

NoTask == [stage |-> "none", attempt |-> 0, batch |-> {}, pieces |-> 0]

Tasks == [stage : {"none", "queued", "read", "write", "done"},
          attempt : Nat, batch : SUBSET Points, pieces : Nat]

TypeOK ==
  /\ EnvTypeOK /\ SyncTypeOK
  /\ task \in [Measurements -> Tasks]
  /\ readErrors \in Nat /\ writeErrors \in Nat
  /\ cut \subseteq Points

\* SyncDBRP is called, long enough after the outage that no point of the window
\* is still to come; the slave has none of them.  The master has points of each
\* measurement from its first one on.
Init ==
  /\ now = MaxTime
  /\ up = [d \in Servers |-> TRUE]
  /\ outages = [d \in Servers |-> 0]
  /\ data = [d \in Servers |-> IF d = Master THEN {p \in Points : Born[p[1]] <= p[2]} ELSE {}]
  /\ job = [pass |-> "first", start |-> Start, end |-> End, i |-> 0]
  /\ schema = Measurements
  /\ bad = << >> /\ newBad = << >>
  /\ task = [m \in Measurements |-> NoTask]
  /\ readErrors = 0 /\ writeErrors = 0
  /\ cut = {}

-----------------------------------------------------------------------------
\* try.Do, and the functions it is given: another attempt is made if the
\* function asks for it and the package's own limit is not reached.
TryAgain(attempt) == attempt < RWMaxRetries /\ attempt + 1 <= MaxRetries

\* BpSplit: how many pieces n points are written in, and the size of the next.
\* When n is a multiple of MaxPoints the last piece has no point.
PiecesRoundedDown(n) == n \div MaxPoints     \* a mutant
Pieces(n) == IF n < MaxPoints THEN 1 ELSE n \div MaxPoints + 1
NextPiece(batch) ==
  {p \in batch : Cardinality({q \in batch : q[2] < p[2]}) < MaxPoints}

\* The tasks that occupy a worker.
Running == {m \in Measurements : task[m].stage \in {"read", "write"}}

SetTask(m, t) == task' = [task EXCEPT ![m] = t]
Ended(m) == [NoTask EXCEPT !.stage = "done"]

-----------------------------------------------------------------------------
\* The chunk

BeginChunk ==
  /\ MoreChunks
  /\ \A m \in Measurements : task[m].stage = "none"
  /\ task' = [m \in Measurements |-> [NoTask EXCEPT !.stage = "queued"]]
  /\ UNCHANGED << envVars, syncVars, readErrors, writeErrors, cut >>

TakeTask(m) ==
  /\ task[m].stage = "queued"
  /\ Cardinality(Running) < NumWorkers
  /\ SetTask(m, [NoTask EXCEPT !.stage = "read", !.attempt = 1])
  /\ UNCHANGED << envVars, syncVars, readErrors, writeErrors, cut >>

\* A mutant of EndChunk: read errors do not make a chunk bad.
EndChunkUnread ==
  /\ MoreChunks
  /\ \A m \in Measurements : task[m].stage = "done"
  /\ job' = [job EXCEPT !.i = @ + 1]
  /\ IF writeErrors = 0 THEN UNCHANGED << bad, newBad >>
     ELSE IF job.pass = "first"
       THEN bad' = Append(bad, ThisChunk) /\ UNCHANGED newBad
       ELSE newBad' = Append(newBad, ThisChunk) /\ UNCHANGED bad
  /\ task' = [m \in Measurements |-> NoTask]
  /\ readErrors' = 0 /\ writeErrors' = 0
  /\ UNCHANGED << envVars, schema, cut >>

\* StopWait returns: the chunk is over, good or bad.
EndChunk ==
  /\ MoreChunks
  /\ \A m \in Measurements : task[m].stage = "done"
  /\ job' = [job EXCEPT !.i = @ + 1]
  /\ IF readErrors + writeErrors = 0 THEN UNCHANGED << bad, newBad >>
     ELSE IF job.pass = "first"
       THEN bad' = Append(bad, ThisChunk) /\ UNCHANGED newBad
       ELSE newBad' = Append(newBad, ThisChunk) /\ UNCHANGED bad
  /\ task' = [m \in Measurements |-> NoTask]
  /\ readErrors' = 0 /\ writeErrors' = 0
  /\ UNCHANGED << envVars, schema, cut >>

-----------------------------------------------------------------------------
\* ReadDB

StartWrite(m, batch) ==
  SetTask(m, [stage |-> "write", attempt |-> 1, batch |-> batch,
              pieces |-> Pieces(Cardinality(batch))])

\* What the query of measurement m finds.
WantedOf(m) == {p \in Wanted : p[1] = m}

ReadOK(m) ==
  /\ task[m].stage = "read"
  /\ up[Master]
  /\ StartWrite(m, WantedOf(m))
  /\ UNCHANGED << envVars, syncVars, readErrors, writeErrors, cut >>

\* The query was answered, and the answer holds an error after the points before
\* some time.  ReadDB looks at the error of the request only.
ReadPart(m) ==
  /\ task[m].stage = "read"
  /\ up[Master]
  /\ \E t \in Times :
       LET P == {p \in WantedOf(m) : p[2] < t}
       IN  /\ StartWrite(m, P)
           /\ cut' = cut \cup (WantedOf(m) \ P)
  /\ Cardinality(cut') <= MaxCut
  /\ UNCHANGED << envVars, syncVars, readErrors, writeErrors >>

ReadError(m) ==
  /\ task[m].stage = "read"
  /\ NoAnswer(Master)
  /\ IF TryAgain(task[m].attempt)
       THEN /\ SetTask(m, [task[m] EXCEPT !.attempt = @ + 1])
            /\ UNCHANGED readErrors
       ELSE /\ SetTask(m, Ended(m))
            /\ readErrors' = readErrors + 1
  /\ UNCHANGED << data, syncVars, writeErrors, cut >>

-----------------------------------------------------------------------------
\* WriteDB

WriteOK(m) ==
  /\ task[m].stage = "write"
  /\ up[Slave]
  /\ LET P == NextPiece(task[m].batch)
     IN  /\ CopyPoints(P)
         /\ SetTask(m, IF task[m].pieces = 1 THEN Ended(m)
                       ELSE [task[m] EXCEPT !.attempt = 1, !.batch = @ \ P, !.pieces = @ - 1])
  /\ UNCHANGED << now, up, outages, syncVars, readErrors, writeErrors, cut >>

\* The slave answers with an error or not at all, and may have taken the piece, a
\* part of it or nothing.  A piece is given up after the last attempt, and the
\* pieces after it are not written.
WriteError(m) ==
  /\ task[m].stage = "write"
  /\ NoAnswer(Slave)
  /\ \/ UNCHANGED data
     \/ up[Slave] /\ \E P \in SUBSET NextPiece(task[m].batch) : CopyPoints(P)
  /\ IF TryAgain(task[m].attempt)
       THEN /\ SetTask(m, [task[m] EXCEPT !.attempt = @ + 1])
            /\ UNCHANGED writeErrors
       ELSE /\ SetTask(m, Ended(m))
            /\ writeErrors' = writeErrors + 1
  /\ UNCHANGED << syncVars, readErrors, cut >>

-----------------------------------------------------------------------------
Worker(m) ==
  TakeTask(m) \/ ReadOK(m) \/ ReadPart(m) \/ ReadError(m) \/ WriteOK(m) \/ WriteError(m)

NextBadChunk == RepeatBadChunk /\ UNCHANGED taskVars

Program == BeginChunk \/ EndChunk \/ NextBadChunk \/ \E m \in Measurements : Worker(m)

Surroundings ==
  /\ \E d \in Servers : DbFail(d) \/ DbReturn(d)
  /\ UNCHANGED << syncVars, taskVars >>

Next == Program \/ Surroundings

Spec == Init /\ [][Next]_vars

\* Each request ends, by an answer or by the client's Timeout, so that one of the
\* workers or the loop goes on.
FairSpec == Spec /\ WF_vars(Program)

-----------------------------------------------------------------------------
\* When SyncDBRP returns, every point of its window that the slave misses is in a
\* chunk reported as bad, on a boundary, or was cut off by an answer that held an
\* error.  Each chunk with an error of the first pass has to be repeated, all of
\* it, and no worker's error may be lost to another's.
NothingForgotten == AreReported(Missing \ cut, Start, End)

\* The points of the window of the call.
InWindow == {p \in Points : Start <= p[2] /\ p[2] < End}

\* What CopyLedger calls the state of their copy.
InSource   == data[Master] \cap InWindow
InTarget   == data[Slave] \cap InWindow
ToDo       == Todo(InWindow)
ToRepeat   == Failed(InWindow)
InReport   == InChunks(InWindow, newBad)
NotAsked   == Skipped(InWindow, End)
LostByRead == cut \cap InWindow

Ledger == INSTANCE CopyLedger WITH
  source <- InSource, target <- InTarget, todo <- ToDo, failed <- ToRepeat,
  reported <- InReport, skipped <- NotAsked, lost <- LostByRead

\* Each step of the workers keeps the ledger: a chunk is through only when all its
\* points are on the slave, else it is repeated, and it is repeated once only
\* before it is reported.
KeepsLedger == Ledger!LedgerSpec

\* client.go, ReadDB: "Retry query if some error happens".  The same with the
\* points that were cut off: an answer with an error is repeated, or its chunk
\* reported.
AllReported == AreReported(Missing, Start, End)

\* README.md: "The `start` end `end` allow to define a time window to copy data."
\* When no chunk is bad, all of the window has been copied.
WindowCopied ==
  SyncDone /\ newBad = << >> => \A p \in Missing : ~(Start < p[2] /\ p[2] < End)

\* sample.syncflux.toml, rw-max-retries: if any of the read or write queries fails,
\* "the query will be repeated at leas rw-max-retries".  A query or a write that is
\* given up was tried so many times.
RepeatedEnough ==
  [][\A m \in Measurements :
       /\ task[m].stage \in {"read", "write"} /\ task'[m].stage = "done"
       /\ readErrors' > readErrors \/ writeErrors' > writeErrors
       => task[m].attempt >= RWMaxRetries]_vars

\* SyncDBRP returns, whichever servers are down: the supervisor waits for it.
SyncReturns == <>SyncDone

=============================================================================
