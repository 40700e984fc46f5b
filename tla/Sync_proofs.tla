---------------------------- MODULE Sync_proofs -----------------------------
(***************************************************************************)
(* Theorems about Sync, for every window, every number of workers, retries *)
(* and points per write, every outage of the servers, and every answer     *)
(* with an error in it.                                                    *)
(***************************************************************************)
EXTENDS Sync, SyncDBRP_proofs, FiniteSetTheorems

USE DEF Servers

-----------------------------------------------------------------------------
\* The inductive invariant

\* The call knows all measurements.  Its window is that of the call in the first
\* pass.
JobInv ==
  /\ schema = Measurements
  /\ job.pass # "none"
  /\ job.pass = "first" => job.start = Start /\ job.end = End

Errors == readErrors + writeErrors

\* A worker that writes has pieces enough for what is left of its batch, and what
\* is not in it any more was written or cut off.  When a task ended, and no error
\* is counted, that holds of all points of its measurement.
TaskOK(m) ==
  /\ task[m].stage = "write" =>
       /\ task[m].pieces # 0
       /\ task[m].batch \subseteq WantedOf(m)
       /\ Cardinality(task[m].batch) < task[m].pieces * MaxPoints
       /\ WantedOf(m) \subseteq data[Slave] \cup cut \cup task[m].batch
  /\ task[m].stage = "done" /\ Errors = 0 => WantedOf(m) \subseteq data[Slave] \cup cut

\* Between two chunks no worker runs.
TaskInv ==
  /\ ~MoreChunks => \A m \in Measurements : task[m].stage = "none"
  /\ \A m \in Measurements : TaskOK(m)

SInv == TypeOK /\ JobInv /\ TaskInv

\* What is left to be repeated are chunks of the first pass.
IsChunk(w) ==
  \E j \in Nat : /\ w.end = Unix(End) * Second - j * Chunk
                 /\ w.start = w.end - Chunk

BadInv == \A k \in 1 .. Len(bad) : IsChunk(bad[k])

-----------------------------------------------------------------------------
\* BpSplit

\* A piece of a measurement's points has MaxPoints of them, or all.
LEMMA PieceSize ==
  ASSUME NEW m, NEW B \in SUBSET ({m} \X Times)
  PROVE  /\ IsFiniteSet(B) /\ Cardinality(B) \in Nat
         /\ NextPiece(B) \subseteq B
         /\ Cardinality(B) < MaxPoints => NextPiece(B) = B
         /\ \/ NextPiece(B) = B
            \/ Cardinality(B \ NextPiece(B)) + MaxPoints <= Cardinality(B)
<1> DEFINE n == Cardinality(B)
           Earlier(p) == {q \in B : q[2] < p[2]}
           P == NextPiece(B)
<1>1. IsFiniteSet(B) /\ n \in Nat
  <2>1. IsFiniteSet(Times)
    BY FS_Interval, BoundsAssumption DEF Times
  <2>2. IsFiniteSet({m} \X Times)
    BY <2>1, FS_Singleton, FS_Product
  <2> QED BY <2>2, FS_Subset, FS_CardinalityType
<1>2. P = {p \in B : Cardinality(Earlier(p)) < MaxPoints}
  BY DEF NextPiece
<1>3. \A p \in B : p[2] \in Int /\ p = << m, p[2] >>
  BY BoundsAssumption DEF Times
<1>m. MaxPoints \in Nat \ {0}
  BY SyncAssumption
<1> HIDE DEF P
\* A point has fewer points before it than there are.
<1>4. ASSUME NEW p \in B
      PROVE  /\ IsFiniteSet(Earlier(p)) /\ Cardinality(Earlier(p)) \in 0 .. n - 1
  <2>1. Earlier(p) \in SUBSET (B \ {p})
    BY <1>3
  <2>2. IsFiniteSet(B \ {p}) /\ Cardinality(B \ {p}) = n - 1
    BY <1>1, FS_RemoveElement
  <2> HIDE DEF Earlier, n
  <2>3. IsFiniteSet(Earlier(p)) /\ Cardinality(Earlier(p)) <= n - 1
    BY <2>1, <2>2, FS_Subset
  <2>4. Cardinality(Earlier(p)) \in Nat
    BY <2>3, FS_CardinalityType
  <2> QED BY <1>1, <2>3, <2>4
<1>5. ASSUME NEW p \in B, NEW q \in B, p[2] < q[2]
      PROVE  Cardinality(Earlier(p)) # Cardinality(Earlier(q))
  <2>1. Earlier(p) \in SUBSET Earlier(q) /\ p \in Earlier(q) /\ p \notin Earlier(p)
    BY <1>3, <1>5
  <2> HIDE DEF Earlier
  <2> QED BY <1>4, <2>1, FS_Subset
\* So that the numbers of points before each are those from 0 on.
<1> DEFINE rank == [p \in B |-> Cardinality(Earlier(p))]
<1>6. rank \in Injection(B, 0 .. n - 1)
  <2>1. rank \in [B -> 0 .. n - 1]
    BY <1>4
  <2>2. ASSUME NEW p \in B, NEW q \in B, rank[p] = rank[q] PROVE p = q
    <3>1. p[2] = q[2]
      <4>1. ~(p[2] < q[2]) /\ ~(q[2] < p[2])
        BY <1>5, <2>2
      <4> QED BY <1>3, <4>1
    <3> QED BY <1>3, <3>1
  <2> HIDE DEF rank
  <2> QED BY <2>1, <2>2 DEF Injection, IsInjective
<1>7. IsFiniteSet(0 .. n - 1) /\ Cardinality(0 .. n - 1) = n
  <2> HIDE DEF n
  <2> QED BY <1>1, FS_Interval
<1>8. rank \in Surjection(B, 0 .. n - 1)
  <2> HIDE DEF rank, n
  <2> QED BY <1>6, <1>7, FS_Injection DEF n
<1>9. P \subseteq B
  BY <1>2
<1>10. ASSUME P # B PROVE MaxPoints <= n - 1 /\ Cardinality(P) >= MaxPoints
  <2>1. PICK p \in B : ~(Cardinality(Earlier(p)) < MaxPoints)
    BY <1>2, <1>10
  <2>2. MaxPoints <= n - 1
    <3> HIDE DEF Earlier
    <3> QED BY <1>1, <1>4, <1>m, <2>1
  <2> DEFINE first == [q \in P |-> rank[q]]
  <2>3. first \in Surjection(P, 0 .. MaxPoints - 1)
    <3>1. \A q \in P : rank[q] \in 0 .. MaxPoints - 1
      <4> HIDE DEF Earlier
      <4> QED BY <1>2, <1>4, <1>m
    <3>2. ASSUME NEW j \in 0 .. MaxPoints - 1 PROVE \E q \in P : rank[q] = j
      <4>1. j \in 0 .. n - 1
        BY <1>1, <1>m, <2>2
      <4>2. PICK q \in B : rank[q] = j
        BY <1>8, <4>1 DEF Surjection
      <4>3. q \in P
        BY <1>2, <1>m, <4>2
      <4> QED BY <4>2, <4>3
    <3> HIDE DEF rank
    <3> QED BY <3>1, <3>2 DEF Surjection
  <2>4. IsFiniteSet(P)
    BY <1>1, <1>9, FS_Subset
  <2>5. Cardinality(0 .. MaxPoints - 1) = MaxPoints
    BY <1>m, FS_Interval
  <2>6. Cardinality(P) \in Nat /\ Cardinality(P) >= MaxPoints
    <3> DEFINE T == 0 .. MaxPoints - 1
    <3>1. first \in Surjection(P, T) /\ Cardinality(T) = MaxPoints
      BY <2>3, <2>5
    <3> HIDE DEF first, T
    <3>2. Cardinality(T) <= Cardinality(P)
      BY <2>4, <3>1, FS_Surjection
    <3>3. Cardinality(P) \in Nat
      BY <2>4, FS_CardinalityType
    <3> QED BY <1>m, <3>1, <3>2, <3>3
  <2> QED BY <2>2, <2>6
<1>11. ASSUME P # B PROVE Cardinality(B \ P) + MaxPoints <= n
  <2>1. Cardinality(B \ P) = n - Cardinality(B \cap P) /\ B \cap P = P
    BY <1>1, <1>9, FS_Difference
  <2>2. Cardinality(P) \in Nat
    BY <1>1, <1>9, FS_Subset, FS_CardinalityType
  <2>3. Cardinality(B \ P) = n - Cardinality(P)
    BY <2>1
  <2>4. MaxPoints <= Cardinality(P)
    BY <1>m, <1>10, <1>11, <2>2
  <2> HIDE DEF n
  <2> QED BY <1>1, <1>m, <2>2, <2>3, <2>4
<1>12. n < MaxPoints => P = B
  <2> HIDE DEF n
  <2> QED BY <1>1, <1>m, <1>10
<1> QED BY <1>1, <1>9, <1>11, <1>12 DEF P

-----------------------------------------------------------------------------
\* Type correctness

LEMMA InitType == Init => TypeOK
<1> SUFFICES ASSUME Init PROVE TypeOK
  OBVIOUS
<1>1. EnvTypeOK
  BY BoundsAssumption DEF Init, EnvTypeOK, Times, Points
<1>2. SyncTypeOK
  BY SyncAssumption DEF Init, SyncTypeOK
<1>3. task \in [Measurements -> Tasks]
  BY DEF Init, NoTask, Tasks
<1> QED BY <1>1, <1>2, <1>3 DEF Init, TypeOK

LEMMA PiecesType ==
  ASSUME NEW n \in Nat
  PROVE  Pieces(n) \in Nat \ {0} /\ n < Pieces(n) * MaxPoints
<1>1. MaxPoints \in Nat \ {0}
  BY SyncAssumption
<1>2. n \div MaxPoints \in Nat /\ n < (n \div MaxPoints + 1) * MaxPoints
  BY <1>1, DivBounds
<1> QED BY <1>1, <1>2 DEF Pieces

\* What the query of a measurement can find is finite.
LEMMA WantedType ==
  ASSUME EnvTypeOK, NEW m \in Measurements, NEW B \in SUBSET WantedOf(m)
  PROVE  /\ B \in SUBSET ({m} \X Times) /\ B \subseteq Points
         /\ IsFiniteSet(B) /\ Cardinality(B) \in Nat
<1>1. WantedOf(m) \subseteq Points
  BY DEF WantedOf, Wanted, EnvTypeOK
<1>2. WantedOf(m) \subseteq {m} \X Times
  BY <1>1 DEF WantedOf, Points
<1>3. IsFiniteSet({m} \X Times)
  <2>1. IsFiniteSet(Times)
    BY FS_Interval, BoundsAssumption DEF Times
  <2> QED BY <2>1, FS_Singleton, FS_Product
<1>4. B \in SUBSET ({m} \X Times)
  BY <1>2
<1>5. IsFiniteSet(B)
  BY <1>3, <1>4, FS_Subset
<1> QED BY <1>1, <1>4, <1>5, FS_CardinalityType

\* The slave's points after points of the master were copied to it.
LEMMA CopyType ==
  ASSUME EnvTypeOK, NEW P \in SUBSET Points, CopyPoints(P)
  PROVE  /\ data' \in [Servers -> SUBSET Points]
         /\ data'[Master] = data[Master] /\ data'[Slave] = data[Slave] \cup P
BY ServersAssumption DEF CopyPoints, EnvTypeOK

LEMMA StartWriteType ==
  ASSUME TypeOK, NEW m \in Measurements, NEW B \in SUBSET WantedOf(m), StartWrite(m, B)
  PROVE  /\ task' \in [Measurements -> Tasks]
         /\ task' = [task EXCEPT ![m] = [stage |-> "write", attempt |-> 1, batch |-> B,
                                         pieces |-> Pieces(Cardinality(B))]]
<1>1. B \subseteq Points /\ Cardinality(B) \in Nat
  BY WantedType DEF TypeOK
<1>2. Pieces(Cardinality(B)) \in Nat
  BY <1>1, PiecesType
<1>3. [stage |-> "write", attempt |-> 1, batch |-> B, pieces |-> Pieces(Cardinality(B))] \in Tasks
  BY <1>1, <1>2 DEF Tasks
<1> QED BY <1>3 DEF StartWrite, SetTask, TypeOK

\* The task of a request that got no answer.
LEMMA RetryType ==
  ASSUME TypeOK, NEW m \in Measurements
  PROVE  /\ [task[m] EXCEPT !.attempt = @ + 1] \in Tasks
         /\ [task[m] EXCEPT !.attempt = @ + 1].stage = task[m].stage
         /\ [task[m] EXCEPT !.attempt = @ + 1].batch = task[m].batch
         /\ [task[m] EXCEPT !.attempt = @ + 1].pieces = task[m].pieces
         /\ Ended(m) \in Tasks /\ Ended(m).stage = "done"
<1>1. task[m] \in Tasks
  BY DEF TypeOK
<1> QED BY <1>1 DEF Tasks, Ended, NoTask

LEMMA WorkerType ==
  ASSUME TypeOK, NEW m \in Measurements, Worker(m), TaskOK(m)
  PROVE  TypeOK'
<1> USE DEF TypeOK
<1>1. CASE TakeTask(m)
  <2>1. [NoTask EXCEPT !.stage = "read", !.attempt = 1] \in Tasks
    BY DEF NoTask, Tasks
  <2> QED BY <1>1, <2>1 DEF TakeTask, SetTask, envVars, syncVars, EnvTypeOK, SyncTypeOK
<1>2. CASE ReadOK(m)
  <2>1. task' \in [Measurements -> Tasks]
    BY <1>2, StartWriteType DEF ReadOK
  <2> QED BY <1>2, <2>1 DEF ReadOK, envVars, syncVars, EnvTypeOK, SyncTypeOK
<1>3. CASE ReadPart(m)
  <2>1. PICK t \in Times : /\ StartWrite(m, {p \in WantedOf(m) : p[2] < t})
                           /\ cut' = cut \cup (WantedOf(m) \ {p \in WantedOf(m) : p[2] < t})
    BY <1>3 DEF ReadPart
  <2>2. task' \in [Measurements -> Tasks]
    BY <2>1, StartWriteType
  <2>3. cut' \subseteq Points
    BY <2>1 DEF WantedOf, Wanted, EnvTypeOK
  <2> QED BY <1>3, <2>2, <2>3 DEF ReadPart, envVars, syncVars, EnvTypeOK, SyncTypeOK
<1>4. CASE ReadError(m)
  <2>0. PICK t \in Tasks : task' = [task EXCEPT ![m] = t]
    BY <1>4, RetryType DEF ReadError, SetTask
  <2>1. task' \in [Measurements -> Tasks] /\ readErrors' \in Nat
    BY <1>4, <2>0 DEF ReadError
  <2>2. EnvTypeOK'
    BY <1>4, NoAnswerType DEF ReadError, EnvTypeOK
  <2> QED BY <1>4, <2>1, <2>2 DEF ReadError, syncVars, SyncTypeOK
<1>5. CASE WriteOK(m)
  <2> DEFINE B == task[m].batch
             P == NextPiece(B)
  <2>1. task[m] \in Tasks /\ B \in SUBSET Points /\ P \subseteq B
    BY DEF Tasks, NextPiece
  <2>2. data' \in [Servers -> SUBSET Points]
    BY <1>5, <2>1, CopyType DEF WriteOK
  <2>3. task[m].pieces # 0
    BY <1>5 DEF WriteOK, TaskOK
  <2>4. task[m].pieces # 1 =>
          [task[m] EXCEPT !.attempt = 1, !.batch = @ \ P, !.pieces = @ - 1] \in Tasks
    <3>1. \A t \in Tasks : \A S \in SUBSET Points : \A k \in Nat :
            [t EXCEPT !.attempt = 1, !.batch = S, !.pieces = k] \in Tasks
      BY DEF Tasks
    <3>2. task[m].pieces - 1 \in Nat
      BY <2>1, <2>3 DEF Tasks
    <3>3. B \ P \in SUBSET Points
      BY <2>1 DEF Tasks
    <3> QED BY <2>1, <3>1, <3>2, <3>3
  <2>5. task' \in [Measurements -> Tasks]
    BY <1>5, <2>4, RetryType DEF WriteOK, SetTask
  <2> QED BY <1>5, <2>2, <2>5 DEF WriteOK, syncVars, EnvTypeOK, SyncTypeOK
<1>6. CASE WriteError(m)
  <2>0. PICK t \in Tasks : task' = [task EXCEPT ![m] = t]
    BY <1>6, RetryType DEF WriteError, SetTask
  <2>1. task' \in [Measurements -> Tasks] /\ writeErrors' \in Nat
    BY <1>6, <2>0 DEF WriteError
  <2>2. NextPiece(task[m].batch) \in SUBSET Points
    BY DEF Tasks, NextPiece
  <2>3. data' \in [Servers -> SUBSET Points]
    BY <1>6, <2>2, CopyType DEF WriteError, EnvTypeOK
  <2>4. EnvTypeOK'
    BY <1>6, <2>3, NoAnswerType DEF WriteError, EnvTypeOK
  <2> QED BY <1>6, <2>1, <2>4 DEF WriteError, syncVars, SyncTypeOK
<1> QED BY <1>1, <1>2, <1>3, <1>4, <1>5, <1>6 DEF Worker

LEMMA TypeStep ==
  ASSUME TypeOK, \A m \in Measurements : TaskOK(m), [Next]_vars
  PROVE  TypeOK'
<1> USE DEF TypeOK
<1>1. CASE UNCHANGED vars
  BY <1>1 DEF vars, envVars, syncVars, taskVars, EnvTypeOK, SyncTypeOK
<1>2. CASE BeginChunk
  <2>1. [NoTask EXCEPT !.stage = "queued"] \in Tasks
    BY DEF NoTask, Tasks
  <2> QED BY <1>2, <2>1 DEF BeginChunk, envVars, syncVars, EnvTypeOK, SyncTypeOK
<1>3. CASE EndChunk
  <2>1. NoTask \in Tasks
    BY DEF NoTask, Tasks
  <2>2. ThisChunk \in Windows
    BY ThisChunkType
  <2>3. bad' \in Seq(Windows) /\ newBad' \in Seq(Windows)
    <3>1. bad \in Seq(Windows) /\ newBad \in Seq(Windows)
      BY DEF SyncTypeOK
    <3>2. bad' \in {bad, Append(bad, ThisChunk)} /\ newBad' \in {newBad, Append(newBad, ThisChunk)}
      BY <1>3 DEF EndChunk
    <3>3. \A l \in Seq(Windows) : Append(l, ThisChunk) \in Seq(Windows)
      BY <2>2
    <3> QED BY <3>1, <3>2, <3>3
  <2>a. job' \in [pass : {"none", "first", "repeat"}, start : Int, end : Int, i : Nat]
    <3>1. job' = [job EXCEPT !.i = job.i + 1]
      BY <1>3 DEF EndChunk
    <3>2. job.i + 1 \in Nat
      BY DEF SyncTypeOK
    <3> QED BY <3>1, <3>2 DEF SyncTypeOK
  <2>4. SyncTypeOK'
    BY <1>3, <2>3, <2>a DEF EndChunk, SyncTypeOK
  <2> QED BY <1>3, <2>1, <2>4 DEF EndChunk, envVars, EnvTypeOK
<1>4. CASE NextBadChunk
  <2>1. Tail(bad) \in Seq(Windows) /\ Head(bad) \in Windows
    BY <1>4, ChunksTail DEF NextBadChunk, RepeatBadChunk, SyncTypeOK
  <2>2. SyncTypeOK'
    BY <1>4, <2>1 DEF NextBadChunk, RepeatBadChunk, SyncTypeOK, Windows
  <2> QED BY <1>4, <2>2 DEF NextBadChunk, RepeatBadChunk, taskVars, envVars, EnvTypeOK
<1>5. CASE Surroundings
  <2>1. EnvTypeOK'
    <3>1. ASSUME NEW d \in Servers, DbFail(d) PROVE EnvTypeOK'
      BY <3>1, BoundsAssumption DEF DbFail, EnvTypeOK
    <3>2. ASSUME NEW d \in Servers, DbReturn(d) PROVE EnvTypeOK'
      BY <3>2 DEF DbReturn, EnvTypeOK
    <3> QED BY <1>5, <3>1, <3>2 DEF Surroundings
  <2> QED BY <1>5, <2>1 DEF Surroundings, syncVars, taskVars, SyncTypeOK
<1> QED
  BY <1>1, <1>2, <1>3, <1>4, <1>5, WorkerType DEF Next, Program

-----------------------------------------------------------------------------
\* The workers

\* A step of a worker leaves the job and the other tasks alone, and takes no
\* point, no cut and no error away.
LEMMA WorkerFrame ==
  ASSUME TypeOK, NEW m \in Measurements, Worker(m)
  PROVE  /\ UNCHANGED syncVars /\ data'[Master] = data[Master]
         /\ data[Slave] \subseteq data'[Slave]
         /\ cut \subseteq cut' /\ (Errors' = 0 => Errors = 0)
         /\ \A n \in Measurements : n # m => task'[n] = task[n]
         /\ task[m].stage \in {"queued", "read", "write"}
<1> USE DEF TypeOK
<1>1. \A t : SetTask(m, t) => \A n \in Measurements : n # m => task'[n] = task[n]
  BY DEF SetTask
<1>2. CASE TakeTask(m)
  BY <1>1, <1>2 DEF TakeTask, envVars, Errors
<1>3. CASE ReadOK(m)
  BY <1>1, <1>3 DEF ReadOK, envVars, Errors, StartWrite
<1>4. CASE ReadPart(m)
  <2>1. PICK t \in Times : /\ StartWrite(m, {p \in WantedOf(m) : p[2] < t})
                           /\ cut' = cut \cup (WantedOf(m) \ {p \in WantedOf(m) : p[2] < t})
    BY <1>4 DEF ReadPart
  <2> QED BY <1>1, <1>4, <2>1 DEF ReadPart, envVars, Errors, StartWrite
<1>5. CASE ReadError(m)
  <2>1. readErrors' \in Nat /\ readErrors <= readErrors'
    BY <1>5 DEF ReadError
  <2> QED BY <1>1, <1>5, <2>1 DEF ReadError, Errors
<1>6. CASE WriteOK(m)
  <2>1. NextPiece(task[m].batch) \in SUBSET Points
    BY DEF Tasks, NextPiece
  <2> QED BY <1>1, <1>6, <2>1, CopyType DEF WriteOK, Errors
<1>7. CASE WriteError(m)
  <2>1. NextPiece(task[m].batch) \in SUBSET Points
    BY DEF Tasks, NextPiece
  <2>2. writeErrors' \in Nat /\ writeErrors <= writeErrors'
    BY <1>7 DEF WriteError
  <2>3. UNCHANGED data \/ \E P \in SUBSET NextPiece(task[m].batch) : CopyPoints(P)
    BY <1>7 DEF WriteError
  <2>4. data'[Master] = data[Master] /\ data[Slave] \subseteq data'[Slave]
    BY <2>1, <2>3, CopyType
  <2> QED BY <1>1, <1>7, <2>2, <2>4 DEF WriteError, Errors
<1> QED BY <1>2, <1>3, <1>4, <1>5, <1>6, <1>7 DEF Worker

\* What a worker writes was read from the master.
LEMMA WorkerCopies ==
  ASSUME TypeOK, NEW m \in Measurements, Worker(m), TaskOK(m)
  PROVE  data'[Slave] \subseteq data[Slave] \cup data[Master]
<1> USE DEF TypeOK
<1>1. CASE TakeTask(m) \/ ReadOK(m) \/ ReadPart(m) \/ ReadError(m)
  BY <1>1 DEF TakeTask, ReadOK, ReadPart, ReadError, envVars
<1>2. ASSUME task[m].stage = "write" PROVE NextPiece(task[m].batch) \subseteq data[Master]
  BY <1>2 DEF TaskOK, WantedOf, Wanted, NextPiece
<1>3. data[Master] \in SUBSET Points
  BY ServersAssumption DEF EnvTypeOK
<1>4. CASE WriteOK(m)
  BY <1>2, <1>3, <1>4, CopyType DEF WriteOK
<1>5. CASE WriteError(m)
  BY <1>2, <1>3, <1>5, CopyType DEF WriteError
<1> QED BY <1>1, <1>4, <1>5 DEF Worker

\* What a query finds does not depend on the tasks.
LEMMA WantedSame ==
  ASSUME UNCHANGED syncVars, data'[Master] = data[Master]
  PROVE  /\ \A m : WantedOf(m)' = WantedOf(m)
         /\ MoreChunks' <=> MoreChunks
BY DEF syncVars, WantedOf, Wanted, ChunkPoints, ChunkLength, MoreChunks

LEMMA WorkerTask ==
  ASSUME TypeOK, NEW m \in Measurements, Worker(m), TaskOK(m)
  PROVE  TaskOK(m)'
<1> USE DEF TypeOK
<1>1. WantedOf(m)' = WantedOf(m)
  BY WorkerFrame, WantedSame
<1>2. \A t : SetTask(m, t) => task'[m] = t
  BY DEF SetTask
<1>3. data[Slave] \subseteq data'[Slave] /\ cut \subseteq cut'
  BY WorkerFrame
<1>4. CASE TakeTask(m)
  BY <1>2, <1>4 DEF TakeTask, TaskOK, NoTask
\* A batch that is read is written whole, and the rest was cut off.
<1>5. ASSUME NEW B \in SUBSET WantedOf(m), StartWrite(m, B), WantedOf(m) \ B \subseteq cut'
      PROVE  TaskOK(m)'
  <2>1. /\ task'[m].stage = "write" /\ task'[m].batch = B
        /\ task'[m].pieces = Pieces(Cardinality(B))
    BY <1>2, <1>5 DEF StartWrite
  <2>2. Cardinality(B) \in Nat
    BY WantedType
  <2>3. task'[m].pieces # 0 /\ Cardinality(B) < task'[m].pieces * MaxPoints
    BY <2>1, <2>2, PiecesType
  <2> QED BY <1>1, <1>5, <2>1, <2>3 DEF TaskOK
<1>6. CASE ReadOK(m)
  BY <1>5, <1>6 DEF ReadOK
<1>7. CASE ReadPart(m)
  BY <1>5, <1>7 DEF ReadPart
\* A request that got no answer is repeated, or an error is counted.
<1>8. ASSUME \/ task'[m] = [task[m] EXCEPT !.attempt = @ + 1]
             \/ task'[m] = Ended(m) /\ Errors' # 0
      PROVE  TaskOK(m)'
  <2>1. CASE task'[m] = [task[m] EXCEPT !.attempt = @ + 1]
    <3>1. /\ task'[m].stage = task[m].stage /\ task'[m].batch = task[m].batch
          /\ task'[m].pieces = task[m].pieces
      BY <2>1, RetryType
    <3>2. Errors' = 0 => Errors = 0
      BY WorkerFrame
    <3> QED BY <1>1, <1>3, <3>1, <3>2 DEF TaskOK
  <2>2. CASE task'[m] = Ended(m) /\ Errors' # 0
    BY <2>2, RetryType DEF TaskOK
  <2> QED BY <1>8, <2>1, <2>2
<1>9. CASE ReadError(m)
  <2>1. \/ task'[m] = [task[m] EXCEPT !.attempt = @ + 1]
        \/ task'[m] = Ended(m) /\ readErrors' = readErrors + 1 /\ writeErrors' = writeErrors
    BY <1>2, <1>9 DEF ReadError
  <2> QED BY <1>8, <2>1 DEF Errors
<1>10. CASE WriteError(m)
  <2>1. \/ task'[m] = [task[m] EXCEPT !.attempt = @ + 1]
        \/ task'[m] = Ended(m) /\ writeErrors' = writeErrors + 1 /\ readErrors' = readErrors
    BY <1>2, <1>10 DEF WriteError
  <2> QED BY <1>8, <2>1 DEF Errors
<1>11. CASE WriteOK(m)
  <2> DEFINE B == task[m].batch
             P == NextPiece(B)
             k == task[m].pieces
  <2>1. /\ B \in SUBSET WantedOf(m) /\ k \in Nat \ {0}
        /\ Cardinality(B) < k * MaxPoints
        /\ WantedOf(m) \subseteq data[Slave] \cup cut \cup B
    BY <1>11 DEF WriteOK, TaskOK, Tasks
  <2>2. B \in SUBSET ({m} \X Times) /\ B \in SUBSET Points
    BY <2>1, WantedType
  <2>3. /\ Cardinality(B) \in Nat
        /\ P \subseteq B
        /\ Cardinality(B) < MaxPoints => P = B
        /\ P = B \/ Cardinality(B \ P) + MaxPoints <= Cardinality(B)
    BY <2>2, PieceSize
  <2>4. data'[Slave] = data[Slave] \cup P /\ cut' = cut
    BY <1>11, <2>2, <2>3, CopyType DEF WriteOK
  <2>m. MaxPoints \in Nat \ {0}
    BY SyncAssumption
  <2>5. CASE k = 1
    <3>1. task'[m].stage = "done"
      <4>1. SetTask(m, Ended(m))
        BY <1>11, <2>5 DEF WriteOK
      <4> QED BY <1>2, <4>1, RetryType
    <3>2. P = B
      BY <2>1, <2>3, <2>5, <2>m
    <3> QED BY <1>1, <2>1, <2>4, <3>1, <3>2 DEF TaskOK
  <2>6. CASE k # 1
    <3>0. task'[m] = [task[m] EXCEPT !.attempt = 1, !.batch = @ \ P, !.pieces = @ - 1]
      BY <1>2, <1>11, <2>6 DEF WriteOK
    <3>1. /\ task'[m].stage = "write" /\ task'[m].batch = B \ P
          /\ task'[m].pieces = k - 1
      BY <1>11, <3>0 DEF WriteOK, Tasks
    <3>2. Cardinality(B \ P) < (k - 1) * MaxPoints
      <4> HIDE DEF k, P, B
      <4>1. k - 1 \in Nat \ {0} /\ k * MaxPoints = (k - 1) * MaxPoints + MaxPoints
        BY <2>1, <2>6, <2>m, Z3
      <4>2. (k - 1) * MaxPoints \in Nat \ {0}
        <5>1. \A a, b \in Nat \ {0} : a * b \in Nat \ {0}
          BY Z3
        <5> QED BY <2>m, <4>1, <5>1
      <4>3. CASE P = B
        <5>1. B \ P = {}
          BY <4>3
        <5>2. Cardinality(B \ P) = 0
          BY <5>1, FS_EmptySet
        <5> QED BY <4>2, <5>2
      <4>4. CASE P # B
        <5>1. IsFiniteSet(B \ P) /\ Cardinality(B \ P) \in Nat
          BY <2>2, PieceSize, FS_Difference, FS_CardinalityType
        <5> QED BY <2>1, <2>3, <2>m, <4>1, <4>2, <4>4, <5>1
      <4> QED BY <4>3, <4>4
    <3>3. B \ P \subseteq WantedOf(m) /\ WantedOf(m) \subseteq data'[Slave] \cup cut' \cup (B \ P)
      BY <2>1, <2>4
    <3>4. k - 1 # 0
      BY <2>1, <2>6
    <3> QED BY <1>1, <3>1, <3>2, <3>3, <3>4 DEF TaskOK
  <2> QED BY <2>5, <2>6
<1> QED BY <1>4, <1>6, <1>7, <1>9, <1>10, <1>11 DEF Worker

LEMMA InvStep ==
  ASSUME SInv, [Next]_vars
  PROVE  SInv'
<1> USE DEF SInv
<1>1. TypeOK'
  BY TypeStep DEF TaskInv
<1>2. CASE UNCHANGED vars \/ Surroundings
  <2>1. UNCHANGED << syncVars, taskVars >> /\ data' = data
    BY <1>2 DEF vars, Surroundings, DbFail, DbReturn, envVars
  <2>2. JobInv'
    BY <2>1 DEF JobInv, syncVars
  <2>3. \A m \in Measurements : TaskOK(m)'
    BY <2>1, WantedSame DEF TaskInv, TaskOK, taskVars, Errors
  <2> QED BY <1>1, <2>1, <2>2, <2>3, WantedSame DEF TaskInv, taskVars
<1>3. ASSUME NEW m \in Measurements, Worker(m) PROVE SInv'
  <2>0. /\ UNCHANGED syncVars /\ data'[Master] = data[Master]
        /\ data[Slave] \subseteq data'[Slave]
        /\ cut \subseteq cut' /\ (Errors' = 0 => Errors = 0)
        /\ \A n \in Measurements : n # m => task'[n] = task[n]
        /\ task[m].stage # "none"
    BY <1>3, WorkerFrame
  <2>1. JobInv'
    BY <2>0 DEF JobInv, syncVars
  <2>2. TaskOK(m)'
    BY <1>3, WorkerTask DEF TaskInv
  <2>3. ASSUME NEW n \in Measurements, n # m PROVE TaskOK(n)'
    <3>1. task'[n] = task[n] /\ WantedOf(n)' = WantedOf(n) /\ TaskOK(n)
      BY <2>0, <2>3, WantedSame DEF TaskInv
    <3> QED BY <2>0, <3>1 DEF TaskOK
  <2>4. MoreChunks'
    BY <2>0, WantedSame DEF TaskInv
  <2> QED BY <1>1, <2>1, <2>2, <2>3, <2>4 DEF TaskInv
<1>4. CASE BeginChunk
  <2>1. JobInv'
    BY <1>4 DEF BeginChunk, JobInv, envVars, syncVars
  <2>2. MoreChunks'
    BY <1>4, WantedSame DEF BeginChunk, envVars
  <2>3. \A m \in Measurements : task'[m].stage = "queued"
    BY <1>4 DEF BeginChunk, NoTask
  <2> QED BY <1>1, <2>1, <2>2, <2>3 DEF TaskInv, TaskOK
<1>5. CASE EndChunk
  <2>1. JobInv'
    BY <1>5 DEF EndChunk, JobInv, envVars, TypeOK, SyncTypeOK
  <2>2. \A m \in Measurements : task'[m].stage = "none"
    BY <1>5 DEF EndChunk, NoTask
  <2> QED BY <1>1, <2>1, <2>2 DEF TaskInv, TaskOK
<1>6. CASE NextBadChunk
  <2>1. JobInv'
    BY <1>6 DEF NextBadChunk, RepeatBadChunk, JobInv, envVars
  <2>2. \A m \in Measurements : task'[m].stage = "none"
    BY <1>6 DEF NextBadChunk, RepeatBadChunk, taskVars, TaskInv
  <2> QED BY <1>1, <2>1, <2>2 DEF TaskInv, TaskOK
<1> QED BY <1>2, <1>3, <1>4, <1>5, <1>6 DEF Next, Program

LEMMA InvInit == Init => SInv
<1> SUFFICES ASSUME Init PROVE SInv
  OBVIOUS
<1>1. TypeOK
  BY InitType
<1>2. JobInv
  BY DEF Init, JobInv
<1>3. TaskInv
  BY DEF Init, NoTask, TaskInv, TaskOK
<1> QED BY <1>1, <1>2, <1>3 DEF SInv

\* The invariant that the theorems below follow from.
THEOREM Invariance == Spec => []SInv
BY InvInit, InvStep, PTL DEF Spec

\* Every variable keeps its type, whatever the servers do and whatever the windows
\* and the durations are.
THEOREM TypeCorrect == Spec => []TypeOK
<1>1. SInv => TypeOK
  BY DEF SInv
<1> QED BY <1>1, Invariance, PTL

-----------------------------------------------------------------------------
\* The bad chunks of the first pass

LEMMA ChunkIs ==
  ASSUME WholeChunks, NEW j \in Nat
  PROVE  /\ Unix(End) * Second - j * Chunk \in Int
         /\ ChunkEnd(End, Chunk, j) * Second = Unix(End) * Second - j * Chunk
         /\ ChunkStart(End, Chunk, j) * Second = Unix(End) * Second - j * Chunk - Chunk
         /\ Unix(Unix(End) * Second - j * Chunk) * Second = Unix(End) * Second - j * Chunk
         /\ j * Chunk \in Nat
<1> DEFINE u == Unix(End) * Second
           n == ChunkEnd(End, Chunk, j)
<1>1. End \in Int /\ Chunk \in Nat \ {0} /\ Whole(Chunk) /\ j \in Int
  BY Lengths, SyncAssumption
<1>2. u \in Int
  BY <1>1, UnixBounds
<1>3. /\ n * Second = u - j * Chunk
      /\ ChunkStart(End, Chunk, j) * Second = u - (j + 1) * Chunk
      /\ j * Chunk \in Int /\ (j + 1) * Chunk = j * Chunk + Chunk
  BY <1>1, ChunkBounds
<1>4. n \in Int
  BY <1>1, UnixBounds, SecondAssumption, DivBounds DEF ChunkEnd, ChunkSecond
<1> HIDE DEF u, n
<1>5. Unix(n * Second) = n
  BY <1>4, MultipleDiv, SecondAssumption DEF Unix
<1>6. j * Chunk \in Nat
  BY <1>1, Z3
<1> QED BY <1>1, <1>2, <1>3, <1>5, <1>6 DEF u, n

LEMMA BadStep ==
  ASSUME WholeChunks, SInv, BadInv, [Next]_vars PROVE BadInv'
<1> USE DEF SInv
<1>0. bad \in Seq(Windows)
  BY DEF TypeOK, SyncTypeOK
<1>1. CASE bad' = bad
  BY <1>1 DEF BadInv, IsChunk
<1>2. CASE bad' = Append(bad, ThisChunk) /\ job.pass = "first"
  <2>1. ThisChunk.end = Unix(End) * Second - job.i * Chunk /\ ThisChunk.start = ThisChunk.end - Chunk
    <3>1. job.end = End /\ ChunkLength = Chunk /\ job.i \in Nat
      BY <1>2 DEF JobInv, ChunkLength, TypeOK, SyncTypeOK
    <3> QED BY <3>1, ChunkIs DEF ThisChunk
  <2>2. IsChunk(ThisChunk)
    BY <2>1 DEF IsChunk, TypeOK, SyncTypeOK
  <2>3. ThisChunk \in Windows
    BY ThisChunkType DEF TypeOK
  <2> DEFINE w == ThisChunk
  <2>4. w \in Windows /\ IsChunk(w) /\ bad' = Append(bad, w)
    BY <1>2, <2>2, <2>3
  <2> HIDE DEF w
  <2>5. /\ Len(bad) \in Nat /\ Len(bad') = Len(bad) + 1 /\ bad'[Len(bad) + 1] = w
        /\ \A k \in 1 .. Len(bad) : bad'[k] = bad[k]
    BY <1>0, <2>4
  <2>6. \A k \in 1 .. Len(bad') : k \in 1 .. Len(bad) \/ k = Len(bad) + 1
    BY <2>5
  <2>7. \A k \in 1 .. Len(bad') : IsChunk(bad'[k])
    BY <2>4, <2>5, <2>6 DEF BadInv
  <2> QED BY <2>7 DEF BadInv, IsChunk
<1>3. CASE bad # << >> /\ bad' = Tail(bad)
  <2>1. /\ Len(bad) \in Nat \ {0} /\ Len(bad') = Len(bad) - 1
        /\ \A k \in 1 .. Len(bad') : bad'[k] = bad[k + 1]
    BY <1>0, <1>3
  <2>2. \A k \in 1 .. Len(bad') : IsChunk(bad'[k])
    BY <2>1 DEF BadInv
  <2> QED BY <2>2 DEF BadInv, IsChunk
<1>4. CASE UNCHANGED vars \/ Surroundings \/ BeginChunk
  BY <1>1, <1>4 DEF vars, Surroundings, BeginChunk, syncVars
<1>5. ASSUME NEW m \in Measurements, Worker(m) PROVE bad' = bad
  BY <1>5, WorkerFrame DEF syncVars
<1>6. CASE EndChunk
  BY <1>1, <1>2, <1>6 DEF EndChunk
<1>7. CASE NextBadChunk
  BY <1>3, <1>7 DEF NextBadChunk, RepeatBadChunk
<1> QED BY <1>1, <1>4, <1>5, <1>6, <1>7 DEF Next, Program

-----------------------------------------------------------------------------
\* The ledger

LEMMA WindowType ==
  InWindow \subseteq Points /\ \A p \in InWindow : p[2] \in Int
BY BoundsAssumption DEF InWindow, Points, Times

\* A call begins with every point of its window in a chunk, or skipped.
LEMMA LedgerBegins ==
  ASSUME WholeChunks, Init PROVE Ledger!LedgerInit
<1>1. ASSUME NEW p \in InWindow, p \notin Rest(InWindow) PROVE p \in Skipped(InWindow, End)
  <2> DEFINE t == p[2]
  <2>1. t \in Int /\ Start <= t /\ t < End
    BY WindowType DEF InWindow
  <2>2. /\ Start \in Int /\ End \in Int /\ Start <= End /\ MaxRet \in Nat
        /\ Chunk \in Nat \ {0} /\ Whole(Chunk)
        /\ Short \in Nat \ {0} /\ Whole(Short) /\ Chunk = RetryRatio * Short
        /\ RetryRatio \in Nat /\ 0 \in Nat
    BY Lengths, SyncAssumption, ChunkAssumption
  <2>3. /\ job.start = Start /\ job.end = End /\ job.i = 0 /\ ChunkLength = Chunk
    BY DEF Init, ChunkLength
  <2>4. ~\E k \in 0 .. NumChunks(Start, End, Chunk, MaxRet) - 1 : InChunk(t, End, Chunk, k)
    BY <1>1, <2>1, <2>3 DEF Rest
  <2> HIDE DEF t
  <2>5. OnBoundary(t, End, Chunk) \/ t < Unix(End) * Second - MaxRet
    BY <2>1, <2>2, <2>4, ChunksCover
  <2>6. CASE OnBoundary(t, End, Chunk)
    <3>1. Unix(End) * Second = Unix(End) * Second + 0 * Short
      BY <2>2, UnixBounds
    <3>2. OnBoundary(t, End, Short)
      BY <2>1, <2>2, <2>6, <3>1, FinerBoundary
    <3> QED BY <3>2 DEF Skipped, Short, t
  <2>7. CASE t < Unix(End) * Second - MaxRet
    BY <2>7 DEF Skipped, t
  <2> QED BY <2>5, <2>6, <2>7
<1>2. Todo(InWindow) = Rest(InWindow)
  BY DEF Init, Todo
<1>3. InChunks(InWindow, << >>) = {}
  BY DEF InChunks
<1>4. Failed(InWindow) = {} /\ InChunks(InWindow, newBad) = {} /\ cut \cap InWindow = {}
  BY <1>3 DEF Init, Failed
<1>5. data[Master] \cap InWindow \subseteq
        (data[Slave] \cap InWindow) \cup Todo(InWindow) \cup Skipped(InWindow, End)
  BY <1>1, <1>2
<1> QED
  BY <1>4, <1>5
  DEF Ledger!LedgerInit, InSource, InTarget, ToDo, ToRepeat, InReport, NotAsked, LostByRead

\* What the ledger calls skipped does not change, nor do the others as long as the
\* job and its lists do not.
LEMMA LedgerSame ==
  /\ NotAsked' = NotAsked
  /\ UNCHANGED syncVars => ToDo' = ToDo /\ ToRepeat' = ToRepeat /\ InReport' = InReport
  /\ UNCHANGED << data, cut >> =>
       InSource' = InSource /\ InTarget' = InTarget /\ LostByRead' = LostByRead
<1>1. NotAsked' = NotAsked
  BY DEF NotAsked, Skipped
<1>2. ASSUME UNCHANGED syncVars PROVE ToDo' = ToDo /\ ToRepeat' = ToRepeat /\ InReport' = InReport
  <2>1. job' = job /\ bad' = bad /\ newBad' = newBad /\ ChunkLength' = ChunkLength
    BY <1>2 DEF syncVars, ChunkLength
  <2>2. Rest(InWindow)' = Rest(InWindow)
    BY <2>1 DEF Rest
  <2> QED BY <2>1, <2>2 DEF ToDo, ToRepeat, InReport, Todo, Failed, InChunks
<1>3. UNCHANGED << data, cut >> =>
        InSource' = InSource /\ InTarget' = InTarget /\ LostByRead' = LostByRead
  BY DEF InSource, InTarget, LostByRead
<1> QED BY <1>1, <1>2, <1>3

\* When all tasks of a chunk have ended without an error, its points are on the
\* slave, or were cut off.
LEMMA ChunkThrough ==
  ASSUME SInv, \A m \in Measurements : task[m].stage = "done", Errors = 0
  PROVE  Present(InWindow) \cap InSource \subseteq InTarget \cup LostByRead
<1> SUFFICES ASSUME NEW p \in Present(InWindow), p \in InSource
             PROVE  p \in data[Slave] \cup cut
  BY DEF InTarget, LostByRead, Present
<1>1. p \in Points /\ p \in data[Master] /\ p \in ChunkPoints
  BY WindowType DEF InSource, Present, ThisChunk, ChunkPoints, InChunk
<1>2. p[1] \in Measurements
  BY <1>1 DEF Points
<1>3. p \in WantedOf(p[1])
  BY <1>1, <1>2 DEF WantedOf, Wanted, SInv, JobInv
<1> QED BY <1>2, <1>3 DEF SInv, TaskInv, TaskOK

\* A chunk ends.
LEMMA LedgerEnd ==
  ASSUME WholeChunks, SInv, EndChunk
  PROVE  Ledger!LedgerNext
<1> DEFINE C == Present(InWindow)
           R == Rest(InWindow)
           B == InChunks(InWindow, bad)
           N == InChunks(InWindow, newBad)
<1> USE DEF SInv
<1>1. /\ job' = [job EXCEPT !.i = @ + 1] /\ MoreChunks /\ SyncTypeOK
      /\ UNCHANGED << data, cut >> /\ job'.pass = job.pass
  BY DEF EndChunk, envVars, TypeOK, SyncTypeOK
<1>2. R' = R \ C /\ (job.pass = "first" => C \subseteq R)
  <2>1. /\ R' = R \ C
        /\ C \cap {p \in InWindow : job.start <= p[2] /\ p[2] < job.end} \subseteq R
    BY <1>1, RestStep, WindowType
  <2>2. job.pass = "first" =>
          {p \in InWindow : job.start <= p[2] /\ p[2] < job.end} = InWindow
    BY DEF JobInv, InWindow
  <2>3. C \subseteq InWindow
    BY DEF Present
  <2> QED BY <2>1, <2>2, <2>3
<1>3. job.pass \in {"first", "repeat"}
  BY DEF JobInv, TypeOK, SyncTypeOK
<1>4. InSource' = InSource /\ InTarget' = InTarget /\ LostByRead' = LostByRead /\ NotAsked' = NotAsked
  BY <1>1, LedgerSame
<1>5. \A l \in Seq(Windows) : InChunks(InWindow, Append(l, ThisChunk)) = InChunks(InWindow, l) \cup C
  <2>1. ThisChunk \in Windows
    BY ThisChunkType DEF TypeOK
  <2> QED BY <2>1, ChunksAppend DEF Present
<1>6. bad \in Seq(Windows) /\ newBad \in Seq(Windows)
  BY <1>1 DEF SyncTypeOK
<1>7. /\ job.pass = "first" => ToDo = R /\ ToDo' = R' /\ ToRepeat = B /\ ToRepeat' = B'
      /\ job.pass = "repeat" =>
           ToDo = {} /\ ToDo' = {} /\ ToRepeat = B \cup R /\ ToRepeat' = B' \cup R'
      /\ InReport = N /\ InReport' = N'
  BY <1>1 DEF ToDo, ToRepeat, InReport, Todo, Failed
<1>8. bad' = bad => B' = B
  BY DEF InChunks
<1>9. newBad' = newBad => N' = N
  BY DEF InChunks
<1>10. bad' = Append(bad, ThisChunk) => B' = B \cup C
  <2>1. bad' = Append(bad, ThisChunk) => B' = InChunks(InWindow, Append(bad, ThisChunk))
    BY DEF InChunks
  <2> QED BY <1>5, <1>6, <2>1
<1>11. newBad' = Append(newBad, ThisChunk) => N' = N \cup C
  <2>1. newBad' = Append(newBad, ThisChunk) => N' = InChunks(InWindow, Append(newBad, ThisChunk))
    BY DEF InChunks
  <2> QED BY <1>5, <1>6, <2>1
<1> HIDE DEF R, B, N
<1>12. CASE Errors = 0
  <2>1. B' = B /\ N' = N
    BY <1>8, <1>9, <1>12 DEF EndChunk, Errors
  <2>2. C \cap InSource \subseteq InTarget \cup LostByRead
    BY <1>12, ChunkThrough DEF EndChunk
  <2> HIDE DEF C
  <2>3. ToDo \ ToDo' \subseteq C /\ ToRepeat \ ToRepeat' \subseteq C
        /\ ToDo' \subseteq ToDo /\ ToRepeat' \subseteq ToRepeat /\ InReport' = InReport
    BY <1>2, <1>3, <1>7, <2>1
  <2>4. Ledger!ChunkCopied
    BY <1>4, <2>2, <2>3 DEF Ledger!ChunkCopied, Ledger!Written, Ledger!Through
  <2> QED BY <2>4 DEF Ledger!LedgerNext
<1>13. CASE Errors # 0 /\ job.pass = "first"
  <2>1. B' = B \cup C /\ N' = N
    BY <1>9, <1>10, <1>13 DEF EndChunk, Errors
  <2> HIDE DEF C
  <2>2. ToRepeat' = ToRepeat \cup (ToDo \ ToDo') /\ ToDo' \subseteq ToDo /\ InReport' = InReport
    BY <1>2, <1>7, <1>13, <2>1
  <2>3. Ledger!ChunkFailed
    BY <1>4, <2>2 DEF Ledger!ChunkFailed, Ledger!Written
  <2> QED BY <2>3 DEF Ledger!LedgerNext
<1>14. CASE Errors # 0 /\ job.pass = "repeat"
  <2>1. B' = B /\ N' = N \cup C
    BY <1>8, <1>11, <1>14 DEF EndChunk, Errors
  <2> HIDE DEF C
  <2>2. InReport \cup (ToRepeat \ ToRepeat') \subseteq InReport' /\ ToRepeat' \subseteq ToRepeat
        /\ ToDo' = ToDo
    BY <1>2, <1>7, <1>14, <2>1
  <2>3. Ledger!ChunkGivenUp
    BY <1>4, <2>2 DEF Ledger!ChunkGivenUp, Ledger!Written
  <2> QED BY <2>3 DEF Ledger!LedgerNext
<1> QED BY <1>3, <1>12, <1>13, <1>14

\* A bad chunk is repeated in shorter ones: all its points are left again, but those
\* where two of these meet.  Its own bounds were in no chunk, and are in none now.
LEMMA LedgerCut ==
  ASSUME WholeChunks, SInv, BadInv, NextBadChunk
  PROVE  Ledger!LedgerNext
<1> DEFINE h == Head(bad)
           H == {p \in InWindow : h.start < p[2] /\ p[2] < h.end}
           R == Rest(InWindow)
           B == InChunks(InWindow, bad)
           u == Unix(End) * Second
<1> USE DEF SInv
<1>1. /\ job' = [pass |-> "repeat", start |-> h.start, end |-> h.end, i |-> 0]
      /\ bad' = Tail(bad) /\ bad # << >> /\ newBad' = newBad /\ UNCHANGED << data, cut >>
      /\ job.pass \in {"first", "repeat"} /\ ~MoreChunks
  BY DEF NextBadChunk, RepeatBadChunk, envVars, taskVars, JobInv, TypeOK, SyncTypeOK
<1>2. bad \in Seq(Windows)
  BY DEF TypeOK, SyncTypeOK
<1>3. R = {}
  BY <1>1, NoRest DEF TypeOK
<1>4. B = B' \cup H /\ h \in Windows
  <2>1. B' = InChunks(InWindow, Tail(bad))
    BY <1>1 DEF InChunks
  <2> QED BY <1>1, <1>2, <2>1, ChunksTail
<1>5. PICK j \in Nat : h.end = u - j * Chunk /\ h.start = h.end - Chunk
  <2>1. 1 \in 1 .. Len(bad) /\ h = bad[1]
    BY <1>1, <1>2
  <2> QED BY <2>1 DEF BadInv, IsChunk
<1>6. /\ Chunk \in Nat \ {0} /\ Short \in Nat \ {0} /\ Whole(Short) /\ Chunk = RetryRatio * Short
      /\ RetryRatio \in Nat \ {0} /\ MaxRet \in Nat /\ End \in Int
  BY Lengths, ChunkAssumption, SyncAssumption
<1>7. /\ h.end \in Int /\ h.start \in Int /\ h.start <= h.end
      /\ Unix(h.end) * Second = h.end /\ h.end <= u /\ u \in Int
  <2>1. /\ u - j * Chunk \in Int /\ Unix(u - j * Chunk) * Second = u - j * Chunk
        /\ j * Chunk \in Nat
    BY ChunkIs
  <2>2. u \in Int
    BY <1>6, UnixBounds
  <2>3. h.end \in Int /\ h.start \in Int
    BY <1>4 DEF Windows
  <2> HIDE DEF u, h
  <2>4. Unix(h.end) * Second = h.end
    BY <1>5, <2>1
  <2>5. h.end <= u
    BY <1>5, <2>1, <2>2
  <2>6. h.start <= h.end
    BY <1>5, <1>6, <2>3
  <2> QED BY <2>2, <2>3, <2>4, <2>5, <2>6
<1>8. R' = {p \in InWindow :
              /\ h.start <= p[2] /\ p[2] < h.end
              /\ \E k \in 0 .. NumChunks(h.start, h.end, Short, MaxRet) - 1 :
                   InChunk(p[2], h.end, Short, k)}
  <2>1. /\ ChunkLength' = Short /\ job'.start = h.start /\ job'.end = h.end /\ job'.i = 0
    BY <1>1 DEF ChunkLength, Short
  <2> HIDE DEF h
  <2> QED BY <2>1 DEF Rest
<1>9. ASSUME NEW p \in R' PROVE p \in H
  <2>1. PICK k \in 0 .. NumChunks(h.start, h.end, Short, MaxRet) - 1 : InChunk(p[2], h.end, Short, k)
    BY <1>8, <1>9
  <2>2. k \in Int /\ p[2] \in Int /\ h.start <= p[2] /\ p[2] < h.end /\ p \in InWindow
    BY <1>8, <1>9, WindowType
  <2>3. h.start = Unix(h.end) * Second - RetryRatio * Short
    BY <1>5, <1>6, <1>7
  <2> HIDE DEF h
  <2>4. p[2] # h.start
    BY <1>6, <1>7, <2>1, <2>2, <2>3, BoundaryInNone
  <2> QED BY <1>7, <2>2, <2>4
<1>10. ASSUME NEW p \in H, p \notin R' PROVE p \in NotAsked
  <2> DEFINE t == p[2]
  <2>1. t \in Int /\ h.start < t /\ t < h.end /\ p \in InWindow
    BY WindowType
  <2>2. h.start <= t
    BY <1>7, <2>1
  <2>3. ~\E k \in 0 .. NumChunks(h.start, h.end, Short, MaxRet) - 1 : InChunk(t, h.end, Short, k)
    BY <1>8, <1>10, <2>1, <2>2
  <2> DEFINE a == h.start
             b == h.end
  <2>4. /\ a \in Int /\ b \in Int /\ a <= b /\ a <= t /\ t \in Int /\ t < b
        /\ Unix(b) * Second = b /\ b = u - j * Chunk /\ b <= u /\ u \in Int
        /\ ~\E k \in 0 .. NumChunks(a, b, Short, MaxRet) - 1 : InChunk(t, b, Short, k)
    BY <1>5, <1>7, <2>1, <2>2, <2>3
  <2> HIDE DEF t, h, a, b, H, R, B
  <2>5. OnBoundary(t, b, Short) \/ t < b - MaxRet
    <3>1. OnBoundary(t, b, Short) \/ t < Unix(b) * Second - MaxRet
      BY <1>6, <2>4, ChunksCover
    <3> QED BY <2>4, <3>1
  <2>6. CASE OnBoundary(t, b, Short)
    <3> DEFINE q == j * RetryRatio
    <3>1. q \in Nat /\ j * Chunk = q * Short
      <4>1. \A x, y, z \in Nat : x * y \in Nat /\ x * (y * z) = (x * y) * z
        BY Z3
      <4> QED BY <1>6, <4>1
    <3>2. q * Short \in Int
      BY <1>6, <3>1
    <3> HIDE DEF q
    <3>3. Unix(End) * Second = Unix(b) * Second + q * Short
      <4>1. u = b + q * Short
        <5> HIDE DEF u
        <5> QED BY <2>4, <3>1, <3>2
      <4> QED BY <2>4, <4>1 DEF u
    <3>4. 1 \in Nat /\ Short = 1 * Short
      BY <1>6
    <3>5. t < Unix(b) * Second
      BY <2>4
    <3>6. OnBoundary(t, End, Short)
      BY <1>6, <2>4, <2>6, <3>1, <3>3, <3>4, <3>5, FinerBoundary
    <3> QED BY <2>1, <3>6 DEF NotAsked, Skipped, Short, t
  <2>7. CASE t < b - MaxRet
    <3>1. t < u - MaxRet
      <4> HIDE DEF u
      <4> QED BY <1>6, <2>4, <2>7
    <3> QED BY <2>1, <3>1 DEF NotAsked, Skipped, t
  <2> QED BY <2>5, <2>6, <2>7
<1>11. /\ ToDo = {} /\ ToDo' = {} /\ ToRepeat = B /\ ToRepeat' = B' \cup R'
       /\ InReport' = InReport
  BY <1>1, <1>3 DEF ToDo, ToRepeat, InReport, Todo, Failed, InChunks
<1>12. InSource' = InSource /\ InTarget' = InTarget /\ LostByRead' = LostByRead /\ NotAsked' = NotAsked
  BY <1>1, LedgerSame
<1> HIDE DEF R, B, H
<1>13. R' \subseteq H /\ H \ R' \subseteq NotAsked
  BY <1>9, <1>10
<1>14. Ledger!ChunkCut
  BY <1>4, <1>11, <1>12, <1>13 DEF Ledger!ChunkCut
<1> QED BY <1>14 DEF Ledger!LedgerNext

LEMMA LedgerStep ==
  ASSUME WholeChunks, SInv, BadInv, [Next]_vars
  PROVE  [Ledger!LedgerNext]_(Ledger!ledger)
<1> USE DEF SInv
<1>1. CASE UNCHANGED vars \/ Surroundings \/ BeginChunk
  <2>1. UNCHANGED syncVars /\ UNCHANGED << data, cut >>
    BY <1>1 DEF vars, taskVars, envVars, Surroundings, DbFail, DbReturn, BeginChunk
  <2> QED BY <2>1, LedgerSame DEF Ledger!ledger
<1>2. ASSUME NEW m \in Measurements, Worker(m) PROVE Ledger!LedgerNext
  <2>1. /\ UNCHANGED syncVars /\ data'[Master] = data[Master]
        /\ data[Slave] \subseteq data'[Slave]
        /\ data'[Slave] \subseteq data[Slave] \cup data[Master]
        /\ cut \subseteq cut'
    BY <1>2, WorkerFrame, WorkerCopies DEF TaskInv
  <2>2. /\ NotAsked' = NotAsked /\ ToDo' = ToDo /\ ToRepeat' = ToRepeat /\ InReport' = InReport
    BY <2>1, LedgerSame
  <2>3. /\ InSource' = InSource /\ InTarget \subseteq InTarget'
        /\ InTarget' \subseteq InTarget \cup InSource /\ LostByRead \subseteq LostByRead'
    BY <2>1, WindowType DEF InSource, InTarget, LostByRead, JobInv
  <2>4. Ledger!Progress
    BY <2>2, <2>3 DEF Ledger!Progress, Ledger!Written
  <2> QED BY <2>4 DEF Ledger!LedgerNext
<1>3. CASE EndChunk
  BY <1>3, LedgerEnd
<1>4. CASE NextBadChunk
  BY <1>4, LedgerCut
<1> QED BY <1>1, <1>2, <1>3, <1>4 DEF Next, Program

\* SyncDBRP keeps the ledger of CopyLedger, through lost requests, retries, answers
\* with an error, workers in any order and both passes: each point of the window
\* stays accounted for from the first chunk to the report.
THEOREM LedgerKept ==
  ASSUME WholeChunks PROVE Spec => KeepsLedger
<1>1. Init => Ledger!LedgerInit
  BY LedgerBegins
<1>2. Init => BadInv
  BY DEF Init, BadInv
<1>3. SInv /\ BadInv /\ [Next]_vars => BadInv'
  BY BadStep
<1>4. SInv /\ BadInv /\ [Next]_vars => [Ledger!LedgerNext]_(Ledger!ledger)
  BY LedgerStep
<1> QED BY <1>1, <1>2, <1>3, <1>4, Invariance, PTL DEF Spec, KeepsLedger, Ledger!LedgerSpec

\* When SyncDBRP returns, every point that the slave misses is in the report, or no
\* query was to ask for it, or an answer with an error left it out.
THEOREM NothingIsForgotten ==
  ASSUME WholeChunks PROVE Spec => []NothingForgotten
<1>1. SInv /\ Ledger!Accounted => NothingForgotten
  <2> SUFFICES ASSUME SInv, Ledger!Accounted, SyncDone,
                      NEW p \in Missing \ cut, Start <= p[2], p[2] < End
               PROVE  p \in InChunks(Missing \ cut, newBad) \cup Skipped(Missing \ cut, End)
    BY DEF NothingForgotten, AreReported
  <2>0. data[Master] \in SUBSET Points
    BY ServersAssumption DEF SInv, TypeOK, EnvTypeOK
  <2>1. p \in InSource /\ p \notin InTarget /\ p \notin LostByRead
    BY <2>0 DEF Missing, InSource, InTarget, LostByRead, InWindow
  <2>2. Rest(InWindow) = {}
    BY NoRest DEF SyncDone, SInv, TypeOK
  <2>3. InChunks(InWindow, bad) = {}
    BY DEF SyncDone, InChunks
  <2>4. ToDo = {} /\ ToRepeat = {}
    BY <2>2, <2>3 DEF ToDo, ToRepeat, Todo, Failed
  <2>5. p \in InReport \/ p \in NotAsked
    BY <2>1, <2>4 DEF Ledger!Accounted
  <2> QED BY <2>5 DEF InReport, NotAsked, InChunks, Skipped
<1>2. Spec => Ledger!LedgerSpec
  BY LedgerKept DEF KeepsLedger
<1> QED BY <1>1, <1>2, Invariance, Ledger!LedgerBalanced, PTL

=============================================================================
