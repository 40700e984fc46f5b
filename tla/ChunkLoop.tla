----------------------------- MODULE ChunkLoop -----------------------------
(***************************************************************************)
(* The loop of Sync (pkg/agent/sync.go) over the chunks of a window, alone:*)
(* which times its queries ask for, for any window and any chunk duration. *)
(* Module SyncDBRP has the same loop with servers, copies and errors.      *)
(***************************************************************************)
EXTENDS ChunkWindow

CONSTANTS
  Horizon,             \* the last tick a window may hold
  Chunks,              \* the chunk durations, in ticks
  MaxRet               \* the maximum retention interval, in ticks

ASSUME LoopAssumption ==
  /\ Horizon \in Nat /\ MaxRet \in Nat
  /\ Chunks \subseteq Nat \ {0}

VARIABLES
  start, end, chunk,   \* sEpoch, eEpoch and chunk of the call
  i,                   \* the loop's counter
  asked                \* the times asked for so far

vars == << start, end, chunk, i, asked >>

Init ==
  /\ start \in 0 .. Horizon
  /\ end \in start .. Horizon
  /\ chunk \in Chunks
  /\ i = 0
  /\ asked = {}

\* A mutant of AskChunk: the loop goes on to i = hLength.
AskOneMore ==
  /\ i <= NumChunks(start, end, chunk, MaxRet)
  /\ asked' = asked \cup {t \in 0 .. Horizon : InChunk(t, end, chunk, i)}
  /\ i' = i + 1
  /\ UNCHANGED << start, end, chunk >>

\* One round of the loop: chunk i is asked for.
AskChunk ==
  /\ i < NumChunks(start, end, chunk, MaxRet)
  /\ asked' = asked \cup {t \in 0 .. Horizon : InChunk(t, end, chunk, i)}
  /\ i' = i + 1
  /\ UNCHANGED << start, end, chunk >>

Spec == Init /\ [][AskChunk]_vars

\* The chunk is a number of whole seconds.
WholeSeconds == chunk # 0 /\ chunk = ChunkSecond(chunk) * Second

-----------------------------------------------------------------------------
\* The types, and the bound of the loop's counter.
TypeOK ==
  /\ start \in 0 .. Horizon
  /\ end \in start .. Horizon
  /\ chunk \in Chunks
  /\ i \in 0 .. NumChunks(start, end, chunk, MaxRet)
  /\ asked \subseteq 0 .. Horizon

\* When the loop ends, all of the window was asked for but its times on a
\* boundary and those before the retention limit: rounding to whole seconds,
\* the extra chunk and the limit leave no other hole at either end.
WindowAsked ==
  WholeSeconds /\ i = NumChunks(start, end, chunk, MaxRet) =>
    \A t \in start .. end :
      \/ t \in asked
      \/ OnBoundary(t, end, chunk)
      \/ t < Unix(end) * Second - MaxRet

\* Nothing is asked for after the end, nor further before the start than a chunk
\* and the fraction of a second - also when the window is reversed, where a chunk
\* before its end is asked for nevertheless.
AsksOnlyNear ==
  \A t \in asked :
    /\ t < end
    /\ t > (IF start <= end THEN start ELSE end) - chunk - Second

\* No time is asked for by two chunks, so that a point is read and written once.
AskedOnce == [][\A t \in asked : ~InChunk(t, end, chunk, i)]_vars

\* sample.syncflux.toml: data-chuck-duration is the "duration for each small,
\* read from master -> write to slave, chuck of data".  The same for a duration
\* that is not whole seconds: the loop counts chunks of the one length and asks
\* for chunks of another.
WindowAskedForAnyChunk ==
  i = NumChunks(start, end, chunk, MaxRet) =>
    \A t \in start .. end :
      \/ t \in asked
      \/ \E k \in 0 .. i : t = ChunkEnd(end, chunk, k) * Second
      \/ t >= Unix(end) * Second
      \/ t < Unix(end) * Second - MaxRet

=============================================================================
