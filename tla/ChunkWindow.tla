---------------------------- MODULE ChunkWindow ----------------------------
(***************************************************************************)
(* The arithmetic by which Sync (pkg/agent/sync.go) cuts a time window in  *)
(* chunks, and which points of the window its queries ask for.             *)
(*                                                                         *)
(* A time is a natural number of ticks.  The code works with time.Time and *)
(* time.Duration, which count nanoseconds, and with Unix(), which counts   *)
(* whole seconds: Second is the number of ticks in a second (10^9 in the   *)
(* code, 1 to 3 in the models).                                            *)
(***************************************************************************)
EXTENDS Integers

CONSTANT Second        \* ticks in a second

ASSUME SecondAssumption == Second \in Nat \ {0}

\* Go's integer division, which truncates towards zero (b > 0).
GoDiv(a, b) == IF a >= 0 THEN a \div b ELSE -((-a) \div b)

\* time.Time.Unix(): the whole seconds of a time.
Unix(t) == t \div Second

\* A mutant of NumChunks: no chunk for what the division leaves over.
WholeChunksOnly(start, end, chunk, maxret) ==
  LET hLength   == GoDiv(end - start, chunk)
      MaxLength == GoDiv(maxret, chunk)
  IN  IF hLength > MaxLength THEN MaxLength ELSE hLength

\* hLength: how many chunks Sync makes of the window start..end, at most one
\* more than there are in the maximum retention interval.
NumChunks(start, end, chunk, maxret) ==
  LET hLength   == GoDiv(end - start, chunk) + 1
      MaxLength == GoDiv(maxret, chunk) + 1
  IN  IF hLength > MaxLength THEN MaxLength ELSE hLength

\* chunkSecond: the length of a chunk in whole seconds, its fraction dropped.
ChunkSecond(chunk) == chunk \div Second

\* endsec and startsec of chunk i, counted from the newest (i = 0) backwards.
ChunkEnd(end, chunk, i)   == Unix(end) - i * ChunkSecond(chunk)
ChunkStart(end, chunk, i) == Unix(end) - (i + 1) * ChunkSecond(chunk)

\* A mutant of InChunk: the queries include the bounds.
InClosedChunk(t, end, chunk, i) ==
  /\ ChunkStart(end, chunk, i) * Second <= t
  /\ t <= ChunkEnd(end, chunk, i) * Second

\* "where time > startsec s and time < endsec s": both bounds are strict.
InChunk(t, end, chunk, i) ==
  /\ ChunkStart(end, chunk, i) * Second < t
  /\ t < ChunkEnd(end, chunk, i) * Second

\* The points of the window that lie where two chunks meet, or not before the
\* last whole second of the window.
OnBoundary(t, end, chunk) ==
  \/ t >= Unix(end) * Second
  \/ (Unix(end) * Second - t) % (ChunkSecond(chunk) * Second) = 0

=============================================================================
