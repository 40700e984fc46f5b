------------------------------ MODULE SyncDBRP ------------------------------
(***************************************************************************)
(* SyncDBRP of pkg/agent/sync.go, one step per chunk: the window is copied *)
(* from master to slave chunk by chunk, from the newest to the oldest, and *)
(* when it is through each bad chunk is copied again, once, in chunks      *)
(* RetryRatio times shorter.  Module Sync has what happens in one chunk.   *)
(*                                                                         *)
(* The chunk goes through ReadDB and WriteDB, which repeat a request that  *)
(* fails; a chunk is bad when a request still fails the last time.         *)
(***************************************************************************)
EXTENDS InfluxDB, ChunkWindow, Sequences

CONSTANTS
  Chunk,             \* ChunkDuration, in ticks
  MaxRet,            \* MaxRetentionInterval, in ticks
  RetryRatio         \* how much shorter the chunks of the second pass are (10)

ASSUME ChunkAssumption ==
  /\ MaxRet \in Nat
  /\ RetryRatio \in Nat \ {0}
  /\ Chunk \in Nat /\ Chunk >= RetryRatio

VARIABLES
  schema,            \* srp.Measurements: those the call knows, with their fields
  job,               \* the running call of Sync: its window and its next chunk
  bad,               \* chunks still to be repeated (report.BadChunks)
  newBad             \* chunks that failed again (newBadChunks)

syncVars == << schema, job, bad, newBad >>

NoJob == [pass |-> "none", start |-> 0, end |-> 0, i |-> 0]

Windows == [start : Int, end : Int]

SyncTypeOK ==
  /\ schema \subseteq Measurements
  /\ job \in [pass : {"none", "first", "repeat"}, start : Int, end : Int, i : Nat]
  /\ bad \in Seq(Windows)
  /\ newBad \in Seq(Windows)

SyncInit == schema = MeasurementsOf(data[Master]) /\ job = NoJob /\ bad = << >> /\ newBad = << >>

ChunkLength == IF job.pass = "first" THEN Chunk ELSE Chunk \div RetryRatio

\* The loop of Sync has a chunk left.
MoreChunks ==
  job.pass # "none" /\ job.i < NumChunks(job.start, job.end, ChunkLength, MaxRet)

\* The window of the current chunk, and the points that its queries ask for.
ThisChunk == [start |-> ChunkStart(job.end, ChunkLength, job.i) * Second,
              end   |-> ChunkEnd(job.end, ChunkLength, job.i) * Second]

ChunkPoints == {p \in Points : InChunk(p[2], job.end, ChunkLength, job.i)}

\* What the queries of the current chunk find on the master.
Wanted == {p \in data[Master] \cap ChunkPoints : p[1] \in schema}

CopyPoints(P) == data' = [data EXCEPT ![Slave] = @ \cup P]

\* A mutant of BeginSync: the schema that was read at the start is taken.
BeginSyncStale(start, end) ==
  /\ job' = [pass |-> "first", start |-> start, end |-> end, i |-> 0]
  /\ bad' = << >>
  /\ newBad' = << >>
  /\ UNCHANGED schema

\* SyncDBRP is called with the schema that the master was just asked for.
BeginSync(start, end) ==
  /\ schema' = MeasurementsOf(data[Master])
  /\ job' = [pass |-> "first", start |-> start, end |-> end, i |-> 0]
  /\ bad' = << >>
  /\ newBad' = << >>

\* Every measurement of the chunk was read and written.
CopyChunk ==
  /\ MoreChunks
  /\ up[Master] /\ up[Slave]
  /\ CopyPoints(Wanted)
  /\ job' = [job EXCEPT !.i = @ + 1]
  /\ UNCHANGED << now, up, outages, schema, bad, newBad >>

\* A read or a write failed for good.  The others of the chunk, and those before
\* the failure in its own measurement, may have gone well: any part of the chunk
\* may have been copied.
BadChunk ==
  /\ MoreChunks
  /\ \E d \in Servers : NoAnswer(d)
  /\ \E P \in SUBSET Wanted : CopyPoints(P)
  /\ job' = [job EXCEPT !.i = @ + 1]
  /\ IF job.pass = "first"
       THEN bad' = Append(bad, ThisChunk) /\ UNCHANGED newBad
       ELSE newBad' = Append(newBad, ThisChunk) /\ UNCHANGED bad
  /\ UNCHANGED schema

\* A mutant of RepeatBadChunk: the chunk stays in the list.
RepeatWithoutEnd ==
  /\ job.pass # "none" /\ ~MoreChunks
  /\ bad # << >>
  /\ job' = [pass |-> "repeat", start |-> Head(bad).start, end |-> Head(bad).end, i |-> 0]
  /\ UNCHANGED << envVars, schema, bad, newBad >>

\* Another: the chunks after the first are forgotten.
RepeatOnlyFirst ==
  /\ job.pass # "none" /\ ~MoreChunks
  /\ bad # << >>
  /\ job' = [pass |-> "repeat", start |-> Head(bad).start, end |-> Head(bad).end, i |-> 0]
  /\ bad' = << >>
  /\ UNCHANGED << envVars, schema, newBad >>

\* The next bad chunk of the first pass is synced again.
RepeatBadChunk ==
  /\ job.pass # "none" /\ ~MoreChunks
  /\ bad # << >>
  /\ job' = [pass |-> "repeat", start |-> Head(bad).start, end |-> Head(bad).end, i |-> 0]
  /\ bad' = Tail(bad)
  /\ UNCHANGED << envVars, schema, newBad >>

SyncStep == CopyChunk \/ BadChunk \/ RepeatBadChunk

\* SyncDBRP returns; newBad is then the report's BadChunks.
SyncDone == job.pass # "none" /\ ~MoreChunks /\ bad = << >>

-----------------------------------------------------------------------------
\* The ledger of module CopyLedger, for the points of P: what the running call has
\* not yet asked for, what lies in the chunks of a list, and what no query asks for.
Rest(P) ==
  {p \in P :
     /\ job.start <= p[2] /\ p[2] < job.end
     /\ \E k \in job.i .. NumChunks(job.start, job.end, ChunkLength, MaxRet) - 1 :
          InChunk(p[2], job.end, ChunkLength, k)}

InChunks(P, list) ==
  {p \in P : \E k \in 1 .. Len(list) : list[k].start < p[2] /\ p[2] < list[k].end}

Todo(P)   == IF job.pass = "first" THEN Rest(P) ELSE {}
Failed(P) == InChunks(P, bad) \cup (IF job.pass = "repeat" THEN Rest(P) ELSE {})

Skipped(P, end) ==
  {p \in P : OnBoundary(p[2], end, Chunk \div RetryRatio) \/ p[2] < Unix(end) * Second - MaxRet}

-----------------------------------------------------------------------------
\* When SyncDBRP returns, each of the given points of the window start..end is in
\* a chunk the report calls bad, or was not asked for: the queries leave out both
\* ends of a chunk, and what is before the retention limit.
AreReported(points, start, end) ==
  SyncDone =>
    {p \in points : start <= p[2] /\ p[2] < end}
      \subseteq InChunks(points, newBad) \cup Skipped(points, end)

=============================================================================
