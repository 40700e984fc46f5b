-------------------------- MODULE SyncDBRP_proofs ---------------------------
(***************************************************************************)
(* Lemmas about SyncDBRP: the windows of its chunks, and how its lists of  *)
(* bad chunks and the chunks that are left change.                         *)
(***************************************************************************)
EXTENDS SyncDBRP, ChunkWindow_proofs

\* A request without an answer.
LEMMA NoAnswerType ==
  ASSUME EnvTypeOK, NEW d \in Servers, NoAnswer(d)
  PROVE  /\ now' = now /\ up' = up
         /\ outages' \in [Servers -> Nat]
         /\ \A e \in Servers : outages'[e] <= MaxOutages[e]
         /\ \A e \in Servers : outages[e] <= outages'[e]
BY BoundsAssumption DEF EnvTypeOK, NoAnswer, Servers

\* The chunk that a step adds to a report has whole bounds.
LEMMA ThisChunkType ==
  ASSUME SyncTypeOK
  PROVE  ThisChunk \in Windows
<1>1. ChunkLength \in Int
  BY ChunkAssumption DEF ChunkLength
<1>2. ChunkSecond(ChunkLength) \in Int
  BY <1>1, SecondAssumption DEF ChunkSecond
<1>3. Unix(job.end) \in Int
  BY SecondAssumption DEF Unix, SyncTypeOK
<1>4. job.i \in Nat
  BY DEF SyncTypeOK
<1>5. ChunkStart(job.end, ChunkLength, job.i) \in Int
  <2> DEFINE s == ChunkSecond(ChunkLength)
             u == Unix(job.end)
             k == job.i
  <2>1. s \in Int /\ u \in Int /\ k \in Nat
    BY <1>2, <1>3, <1>4
  <2>2. u - (k + 1) * s \in Int
    <3> HIDE DEF s, u, k
    <3> QED BY <2>1
  <2> QED BY <2>2 DEF ChunkStart
<1>6. ChunkEnd(job.end, ChunkLength, job.i) \in Int
  <2> DEFINE s == ChunkSecond(ChunkLength)
             u == Unix(job.end)
             k == job.i
  <2>1. s \in Int /\ u \in Int /\ k \in Nat
    BY <1>2, <1>3, <1>4
  <2>2. u - k * s \in Int
    <3> HIDE DEF s, u, k
    <3> QED BY <2>1
  <2> QED BY <2>2 DEF ChunkEnd
<1> QED
  <2> DEFINE a == ChunkStart(job.end, ChunkLength, job.i)
             b == ChunkEnd(job.end, ChunkLength, job.i)
  <2>1. a \in Int /\ b \in Int
    BY <1>5, <1>6
  <2>2. a * Second \in Int /\ b * Second \in Int
    <3> HIDE DEF a, b
    <3> QED BY <2>1, SecondAssumption
  <2> QED BY <2>2 DEF ThisChunk, Windows

-----------------------------------------------------------------------------
\* Chunks of whole seconds

\* The chunks of both passes are whole seconds, as with the default durations of
\* sample.syncflux.toml.  (Module ChunkLoop has what happens with others.)
WholeChunks == \E k \in Nat \ {0} : Chunk = k * (RetryRatio * Second)

\* The chunk length of the second pass.
Short == Chunk \div RetryRatio

LEMMA Lengths ==
  ASSUME WholeChunks
  PROVE  /\ Chunk \in Nat \ {0} /\ Whole(Chunk)
         /\ Short \in Nat \ {0} /\ Whole(Short)
         /\ Chunk = RetryRatio * Short
<1>1. PICK k \in Nat \ {0} : Chunk = k * (RetryRatio * Second)
  BY DEF WholeChunks
<1>2. RetryRatio \in Nat \ {0} /\ Second \in Nat \ {0}
  BY ChunkAssumption, SecondAssumption
<1>3. k * Second \in Nat \ {0} /\ k * RetryRatio \in Nat \ {0}
  BY <1>2, Z3
<1>4. Chunk = (k * Second) * RetryRatio /\ Chunk = (k * RetryRatio) * Second
  BY <1>1, <1>2, Z3
<1>5. Short = k * Second
  BY <1>2, <1>3, <1>4, MultipleDiv DEF Short
<1>6. ChunkSecond(Short) = k
  BY <1>2, <1>5, MultipleDiv DEF ChunkSecond
<1>7. ChunkSecond(Chunk) = k * RetryRatio
  BY <1>2, <1>3, <1>4, MultipleDiv DEF ChunkSecond
<1>8. Chunk \in Nat \ {0}
  BY <1>2, <1>3, <1>4, Z3
<1>9. Chunk = RetryRatio * Short
  BY <1>2, <1>3, <1>4, <1>5, Z3
<1> QED BY <1>3, <1>4, <1>5, <1>6, <1>7, <1>8, <1>9 DEF Whole

LEMMA LengthWhole ==
  ASSUME WholeChunks PROVE ChunkLength \in Nat \ {0} /\ Whole(ChunkLength)
BY Lengths DEF ChunkLength, Short

-----------------------------------------------------------------------------
\* The lists of chunks

LEMMA ChunksAppend ==
  ASSUME NEW P, NEW l \in Seq(Windows), NEW w \in Windows
  PROVE  InChunks(P, Append(l, w)) =
           InChunks(P, l) \cup {p \in P : w.start < p[2] /\ p[2] < w.end}
<1> DEFINE m == Append(l, w)
<1>1. /\ Len(l) \in Nat /\ Len(m) = Len(l) + 1
      /\ \A k \in 1 .. Len(l) : m[k] = l[k]
      /\ m[Len(l) + 1] = w
  OBVIOUS
<1> HIDE DEF m
<1>2. 1 .. Len(m) = (1 .. Len(l)) \cup {Len(l) + 1}
  BY <1>1
<1>3. InChunks(P, m) = InChunks(P, l) \cup {p \in P : w.start < p[2] /\ p[2] < w.end}
  BY <1>1, <1>2 DEF InChunks
<1> QED BY <1>3 DEF m

LEMMA ChunksTail ==
  ASSUME NEW P, NEW l \in Seq(Windows), l # << >>
  PROVE  /\ Tail(l) \in Seq(Windows) /\ Head(l) \in Windows
         /\ InChunks(P, l) =
              InChunks(P, Tail(l)) \cup {p \in P : Head(l).start < p[2] /\ p[2] < Head(l).end}
<1>1. /\ Len(l) \in Nat \ {0} /\ Len(Tail(l)) = Len(l) - 1
      /\ Head(l) = l[1]
      /\ \A k \in 1 .. Len(Tail(l)) : Tail(l)[k] = l[k + 1]
      /\ Tail(l) \in Seq(Windows) /\ Head(l) \in Windows
  OBVIOUS
<1> DEFINE m == Tail(l)
           h == Head(l)
           In(w, p) == w.start < p[2] /\ p[2] < w.end
<1>2. ASSUME NEW p \in P, NEW k \in 1 .. Len(l), In(l[k], p)
      PROVE  In(h, p) \/ \E j \in 1 .. Len(m) : In(m[j], p)
  <2>1. CASE k = 1
    BY <1>1, <1>2, <2>1
  <2>2. CASE k # 1
    <3>1. k - 1 \in 1 .. Len(m) /\ m[k - 1] = l[k]
      BY <1>1, <2>2
    <3> QED BY <1>2, <3>1
  <2> QED BY <2>1, <2>2
<1>3. ASSUME NEW p \in P, NEW k \in 1 .. Len(m), In(m[k], p)
      PROVE  \E j \in 1 .. Len(l) : In(l[j], p)
  <2>1. k + 1 \in 1 .. Len(l) /\ m[k] = l[k + 1]
    BY <1>1
  <2> QED BY <1>3, <2>1
<1>4. ASSUME NEW p \in P, In(h, p) PROVE \E j \in 1 .. Len(l) : In(l[j], p)
  <2>1. 1 \in 1 .. Len(l) /\ h = l[1]
    BY <1>1
  <2> QED BY <1>4, <2>1
<1> HIDE DEF m, h
<1>5. InChunks(P, l) = InChunks(P, m) \cup {p \in P : In(h, p)}
  BY <1>2, <1>3, <1>4 DEF InChunks
<1> QED BY <1>1, <1>5 DEF m, h

-----------------------------------------------------------------------------
\* The chunks that are left

\* The points of the present chunk.
Present(P) == {p \in P : ThisChunk.start < p[2] /\ p[2] < ThisChunk.end}

\* A chunk ends: its points are no longer left, and all others are.
LEMMA RestStep ==
  ASSUME WholeChunks, SyncTypeOK, MoreChunks, job' = [job EXCEPT !.i = @ + 1],
         NEW P, \A p \in P : p[2] \in Int
  PROVE  /\ Rest(P)' = Rest(P) \ Present(P)
         /\ Present(P) \cap {p \in P : job.start <= p[2] /\ p[2] < job.end} \subseteq Rest(P)
<1> DEFINE n == NumChunks(job.start, job.end, ChunkLength, MaxRet)
           i == job.i
<1>1. /\ job'.pass = job.pass /\ job'.start = job.start /\ job'.end = job.end
      /\ job'.i = i + 1 /\ i \in Nat /\ job.end \in Int /\ i < n
  BY DEF SyncTypeOK, MoreChunks
<1>2. ChunkLength' = ChunkLength /\ n' = n
  BY <1>1 DEF ChunkLength
<1>3. Present(P) = {p \in P : InChunk(p[2], job.end, ChunkLength, i)}
  BY DEF Present, ThisChunk, InChunk
<1>4. n \in Int
  <2>1. job.start \in Int /\ job.end \in Int
    BY DEF SyncTypeOK
  <2> QED BY <2>1, LengthWhole, ChunkAssumption, NumChunksType
<1> HIDE DEF n, i
<1>5. Rest(P)' = {p \in P : /\ job.start <= p[2] /\ p[2] < job.end
                            /\ \E k \in i + 1 .. n - 1 : InChunk(p[2], job.end, ChunkLength, k)}
  BY <1>1, <1>2 DEF Rest, n
<1>6. Rest(P) = {p \in P : /\ job.start <= p[2] /\ p[2] < job.end
                           /\ \E k \in i .. n - 1 : InChunk(p[2], job.end, ChunkLength, k)}
  BY DEF Rest, n, i
<1>7. i .. n - 1 = {i} \cup (i + 1 .. n - 1)
  BY <1>1, <1>4
<1>8. ASSUME NEW p \in P, NEW k \in i + 1 .. n - 1, InChunk(p[2], job.end, ChunkLength, k)
      PROVE  ~InChunk(p[2], job.end, ChunkLength, i)
  <2>1. k \in Nat /\ i < k
    BY <1>1, <1>4
  <2> QED BY <1>1, <1>8, <2>1, LengthWhole, ChunksDisjoint
<1> QED BY <1>3, <1>5, <1>6, <1>7, <1>8

\* When the loop of Sync ends no chunk is left.
LEMMA NoRest ==
  ASSUME job.pass # "none", ~MoreChunks, WholeChunks, SyncTypeOK, NEW P PROVE Rest(P) = {}
<1> DEFINE n == NumChunks(job.start, job.end, ChunkLength, MaxRet)
<1>1. n \in Int
  <2>1. job.start \in Int /\ job.end \in Int
    BY DEF SyncTypeOK
  <2> QED BY <2>1, LengthWhole, ChunkAssumption, NumChunksType
<1>2. job.i \in Nat /\ ~(job.i < n)
  BY DEF MoreChunks, SyncTypeOK
<1> HIDE DEF n
<1>3. job.i .. n - 1 = {}
  BY <1>1, <1>2
<1> QED BY <1>3 DEF Rest, n

=============================================================================
