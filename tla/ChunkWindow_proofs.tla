------------------------- MODULE ChunkWindow_proofs -------------------------
(***************************************************************************)
(* The arithmetic of ChunkWindow, for every window, every chunk of whole   *)
(* seconds and every retention limit: which times the chunks of a call of  *)
(* Sync cover, and that no two of them overlap.                            *)
(***************************************************************************)
EXTENDS ChunkWindow, TLAPS

\* A chunk of whole seconds.
Whole(c) == c = ChunkSecond(c) * Second

-----------------------------------------------------------------------------
\* Arithmetic

\* On naturals GoDiv is the exact division, and one more step exceeds.
LEMMA DivBounds ==
  ASSUME NEW a \in Nat, NEW b \in Nat \ {0}
  PROVE  /\ GoDiv(a, b) = a \div b
         /\ a \div b \in Nat
         /\ b * (a \div b) <= a
         /\ a < (a \div b + 1) * b
<1>1. a \div b \in Nat
  BY SMT
<1>2. b * (a \div b) <= a
  BY SMT
<1>3. a < (a \div b + 1) * b
  BY SMT
<1> QED BY <1>1, <1>2, <1>3 DEF GoDiv

\* A multiple of m leaves no remainder.
LEMMA MultipleMod ==
  ASSUME NEW k \in Nat, NEW m \in Nat \ {0}
  PROVE  (k * m) % m = 0
BY Z3

\* A chunk of whole seconds is at least a second long.
LEMMA WholeChunk ==
  ASSUME NEW c \in Nat \ {0}, Whole(c)
  PROVE  ChunkSecond(c) \in Nat \ {0}
<1>1. ChunkSecond(c) \in Nat
  BY DivBounds, SecondAssumption DEF ChunkSecond
<1>2. ChunkSecond(c) # 0
  BY SecondAssumption DEF Whole
<1> QED BY <1>1, <1>2

\* The chunks reach back over the whole window, or over the retention limit.
LEMMA ChunksReach ==
  ASSUME NEW s \in Int, NEW e \in Int, s <= e, NEW c \in Nat \ {0}, NEW r \in Nat
  PROVE  /\ NumChunks(s, e, c, r) \in Nat
         /\ \/ NumChunks(s, e, c, r) * c > e - s
            \/ NumChunks(s, e, c, r) * c > r
<1> DEFINE h == GoDiv(e - s, c) + 1
           m == GoDiv(r, c) + 1
<1>1. e - s \in Nat
  OBVIOUS
<1>2. h \in Nat /\ e - s < h * c
  <2>1. /\ GoDiv(e - s, c) = (e - s) \div c /\ (e - s) \div c \in Nat
        /\ e - s < ((e - s) \div c + 1) * c
    BY <1>1, DivBounds
  <2>2. e - s < h * c
    BY <2>1
  <2> QED BY <2>1, <2>2
<1>3. m \in Nat /\ r < m * c
  <2>1. /\ GoDiv(r, c) = r \div c /\ r \div c \in Nat
        /\ r < (r \div c + 1) * c
    BY DivBounds
  <2>2. r < m * c
    BY <2>1
  <2> QED BY <2>1, <2>2
<1>4. NumChunks(s, e, c, r) = IF h > m THEN m ELSE h
  BY DEF NumChunks
<1> HIDE DEF h, m
<1>5. CASE h > m
  <2>1. NumChunks(s, e, c, r) = m
    BY <1>4, <1>5
  <2>2. m * c > r
    BY <1>3
  <2> QED BY <1>3, <2>1, <2>2
<1>6. CASE ~(h > m)
  <2>1. NumChunks(s, e, c, r) = h
    BY <1>4, <1>6
  <2>2. h * c > e - s
    BY <1>1, <1>2
  <2> QED BY <1>2, <2>1, <2>2
<1> QED BY <1>5, <1>6

\* The number of chunks of any window, also of a reversed one.
LEMMA NumChunksType ==
  ASSUME NEW s \in Int, NEW e \in Int, NEW c \in Nat \ {0}, NEW r \in Nat
  PROVE  NumChunks(s, e, c, r) \in Int
<1>1. \A a \in Int : GoDiv(a, c) \in Int
  BY SMT DEF GoDiv
<1>2. e - s \in Int /\ r \in Int
  OBVIOUS
<1>3. GoDiv(e - s, c) \in Int /\ GoDiv(r, c) \in Int
  BY <1>1, <1>2
<1> QED BY <1>3 DEF NumChunks

-----------------------------------------------------------------------------
\* The times of a chunk

\* Division of a multiple.
LEMMA MultipleDiv ==
  ASSUME NEW k \in Int, NEW m \in Nat \ {0}
  PROVE  (k * m) \div m = k
BY Z3

\* The last whole second of a time, in ticks.
LEMMA UnixBounds ==
  ASSUME NEW e \in Int
  PROVE  /\ Unix(e) \in Int /\ Unix(e) * Second \in Int
         /\ Unix(e) * Second <= e
<1>1. e \div Second \in Int /\ Second * (e \div Second) <= e
  BY SecondAssumption, Z3
<1>2. \A u \in Int : u * Second = Second * u /\ u * Second \in Int
  BY SecondAssumption, Z3
<1> QED BY <1>1, <1>2 DEF Unix

\* The bounds of chunk k of whole seconds, in ticks.
LEMMA ChunkBounds ==
  ASSUME NEW e \in Int, NEW c \in Nat \ {0}, Whole(c), NEW k \in Int
  PROVE  /\ ChunkEnd(e, c, k) * Second = Unix(e) * Second - k * c
         /\ ChunkStart(e, c, k) * Second = Unix(e) * Second - (k + 1) * c
         /\ k * c \in Int /\ (k + 1) * c \in Int /\ (k + 1) * c = k * c + c
<1> DEFINE u == Unix(e)
           s == ChunkSecond(c)
<1>1. u \in Int /\ s \in Nat \ {0}
  BY UnixBounds, WholeChunk
<1>2. /\ ChunkEnd(e, c, k) * Second = (u - k * s) * Second
      /\ ChunkStart(e, c, k) * Second = (u - (k + 1) * s) * Second
      /\ c = s * Second
  BY DEF ChunkEnd, ChunkStart, Whole
<1> HIDE DEF u, s
<1>3. \A j \in Int : (u - j * s) * Second = u * Second - j * (s * Second)
  BY <1>1, SecondAssumption, Z3
<1>4. k * c \in Int /\ (k + 1) * c \in Int /\ (k + 1) * c = k * c + c
  BY Z3
<1>5. k + 1 \in Int
  OBVIOUS
<1> QED BY <1>2, <1>3, <1>4, <1>5 DEF u

\* Each time of the window is asked for by a chunk, lies on a boundary or before
\* the retention limit.
LEMMA ChunksCover ==
  ASSUME NEW s \in Int, NEW e \in Int, s <= e,
         NEW c \in Nat \ {0}, Whole(c), NEW r \in Nat,
         NEW t \in Int, s <= t,
         ~OnBoundary(t, e, c), ~(t < Unix(e) * Second - r)
  PROVE  \E k \in 0 .. NumChunks(s, e, c, r) - 1 : InChunk(t, e, c, k)
<1> DEFINE u == Unix(e) * Second
           n == NumChunks(s, e, c, r)
           k == (u - t) \div c
<1>a. \A j \in Int : ChunkEnd(e, c, j) * Second = u - j * c
  BY ChunkBounds
<1>b. \A j \in Int : ChunkStart(e, c, j) * Second = u - (j + 1) * c
  BY ChunkBounds
<1>c. \A j \in Int : (j + 1) * c \in Int
  BY ChunkBounds
<1>1. u \in Int /\ u <= e
  BY UnixBounds
<1>2. n \in Nat /\ (n * c > e - s \/ n * c > r)
  BY ChunksReach
<1>3. u - t \in Nat \ {0} /\ (u - t) % c # 0 /\ ~(t < u - r)
  BY <1>1 DEF OnBoundary, Whole
<1> HIDE DEF u, n
<1>4. k \in Nat /\ k * c < u - t /\ u - t < (k + 1) * c
  <2>1. k \in Nat /\ c * k <= u - t /\ u - t < (k + 1) * c
    BY <1>3, DivBounds
  <2> HIDE DEF k
  <2>2. c * k = k * c
    BY <2>1
  <2>3. k * c # u - t
    BY <1>3, <2>1, MultipleMod
  <2> QED BY <1>3, <2>1, <2>2, <2>3
<1> HIDE DEF k
<1>5. n * c \in Nat /\ k * c \in Nat
  BY <1>2, <1>4
<1>6. k < n
  <2>1. n * c > u - t
    BY <1>1, <1>2, <1>3, <1>5
  <2>2. k * c < n * c
    BY <1>3, <1>4, <1>5, <2>1
  <2>3. \A a, b \in Nat : b <= a => b * c <= a * c
    BY Z3
  <2> QED BY <1>2, <1>4, <1>5, <2>2, <2>3
<1>7. /\ ChunkEnd(e, c, k) * Second = u - k * c
      /\ ChunkStart(e, c, k) * Second = u - (k + 1) * c
      /\ (k + 1) * c \in Int
  <2>1. k \in Int
    BY <1>4
  <2> QED BY <1>a, <1>b, <1>c, <2>1
<1>8. InChunk(t, e, c, k)
  <2>1. u - (k + 1) * c < t /\ t < u - k * c
    BY <1>1, <1>4, <1>5, <1>7
  <2> QED BY <1>7, <2>1 DEF InChunk
<1> QED BY <1>2, <1>4, <1>6, <1>8 DEF n

\* No time is in two chunks.
LEMMA ChunksDisjoint ==
  ASSUME NEW e \in Int, NEW c \in Nat \ {0}, Whole(c),
         NEW k \in Nat, NEW l \in Nat, k < l, NEW t \in Int, InChunk(t, e, c, k)
  PROVE  ~InChunk(t, e, c, l)
<1> DEFINE u == Unix(e) * Second
<1>1. u \in Int
  BY UnixBounds
<1>2. u - (k + 1) * c < t /\ (k + 1) * c \in Int
  BY ChunkBounds DEF InChunk
<1>3. InChunk(t, e, c, l) => t < u - l * c
  BY ChunkBounds DEF InChunk
<1>4. l * c \in Int
  BY ChunkBounds
<1> HIDE DEF u
<1>5. (k + 1) * c <= l * c
  <2>1. \A a, b \in Nat : b <= a => b * c <= a * c
    BY Z3
  <2> QED BY <2>1
<1> QED BY <1>1, <1>2, <1>3, <1>4, <1>5

\* A boundary of chunks is one of chunks q times shorter, and of those of a later
\* end that lies a number of these away.
LEMMA FinerBoundary ==
  ASSUME NEW e \in Int, NEW f \in Int, NEW t \in Int,
         NEW c \in Nat \ {0}, Whole(c),
         NEW d \in Nat \ {0}, Whole(d),
         NEW q \in Nat, d = q * c, NEW j \in Nat,
         Unix(f) * Second = Unix(e) * Second + j * c,
         t < Unix(e) * Second \/ f = e,
         OnBoundary(t, e, d)
  PROVE  OnBoundary(t, f, c)
<1> DEFINE u == Unix(e) * Second
           v == Unix(f) * Second
<1>1. u \in Int /\ v \in Int /\ v = u + j * c
  BY UnixBounds
<1>2. t >= u \/ (u - t) % d = 0
  BY DEF OnBoundary, Whole
<1> SUFFICES ASSUME t < v PROVE (v - t) % c = 0
  BY <1>1 DEF OnBoundary, Whole
<1>3. t < u
  BY <1>1
<1> HIDE DEF u, v
<1>4. u - t \in Nat /\ (u - t) % d = 0
  BY <1>1, <1>2, <1>3
<1> DEFINE h == (u - t) \div d
<1>5. h \in Nat /\ u - t = h * d
  BY <1>4, Z3
<1> HIDE DEF h
<1>6. v - t = (h * q + j) * c
  <2>1. h * d = (h * q) * c
    BY <1>5, Z3
  <2>2. h * q \in Nat
    BY <1>5
  <2>3. (h * q + j) * c = (h * q) * c + j * c
    BY <2>2, Z3
  <2>4. j * c \in Nat /\ (h * q) * c \in Nat
    BY <2>2
  <2> QED BY <1>1, <1>4, <1>5, <2>1, <2>3, <2>4
<1>7. h * q + j \in Nat
  BY <1>5
<1> QED BY <1>6, <1>7, MultipleMod

\* A time at a multiple of the chunk before the end is in no chunk.
LEMMA BoundaryInNone ==
  ASSUME NEW e \in Int, NEW c \in Nat \ {0}, Whole(c), NEW q \in Int, NEW t \in Int,
         t = Unix(e) * Second - q * c, NEW k \in Int
  PROVE  ~InChunk(t, e, c, k)
<1> DEFINE u == Unix(e) * Second
<1>1. u \in Int
  BY UnixBounds
<1>2. InChunk(t, e, c, k) => u - (k + 1) * c < t /\ t < u - k * c
  BY ChunkBounds DEF InChunk
<1>3. k * c \in Int /\ (k + 1) * c \in Int /\ q * c \in Int
  BY Z3
<1> HIDE DEF u
<1>4. \A a, b \in Int : a * c < b * c => a < b
  BY Z3
<1>5. InChunk(t, e, c, k) => q * c < (k + 1) * c /\ k * c < q * c
  BY <1>1, <1>2, <1>3 DEF u
<1>6. InChunk(t, e, c, k) => q < k + 1 /\ k < q
  BY <1>4, <1>5
<1> QED BY <1>6

=============================================================================
