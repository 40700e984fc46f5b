------------------------- MODULE CommandLine_proofs -------------------------
(***************************************************************************)
(* Theorems about ChunkLoop and CommandLine.  First the loop alone, for    *)
(* every window, every chunk and every retention limit: what it asks for.  *)
(* Then a run of the program, for all flags, durations and clocks: what a  *)
(* command asks for, when it panics, and what a signal does to it.         *)
(***************************************************************************)
EXTENDS CommandLine, ChunkWindow_proofs


-----------------------------------------------------------------------------
\* The loop alone: type correctness

\* What the steps of the loop rely on: any two times, which may be reversed, and
\* any chunk that does not divide by zero.
LoopOK ==
  /\ start \in 0 .. Horizon /\ end \in 0 .. Horizon
  /\ chunk \in Nat \ {0}
  /\ i \in Nat
  /\ asked \subseteq 0 .. Horizon

LEMMA Types ==
  ASSUME LoopOK
  PROVE  /\ start \in Nat /\ end \in Nat
         /\ start \in Int /\ end \in Int
         /\ chunk \in Nat \ {0}
         /\ Unix(end) \in Nat /\ Unix(end) * Second <= end
         /\ ChunkSecond(chunk) \in Nat
         /\ i \in Nat
<1>1. start \in Nat /\ end \in Nat /\ chunk \in Nat \ {0}
  BY LoopAssumption DEF LoopOK
<1>2. Unix(end) \in Nat /\ Second * Unix(end) <= end
  BY <1>1, SecondAssumption, DivBounds DEF Unix
<1>3. ChunkSecond(chunk) \in Nat
  BY <1>1, SecondAssumption, DivBounds DEF ChunkSecond
<1>4. Unix(end) * Second = Second * Unix(end)
  <2> DEFINE u == Unix(end)
  <2>1. u \in Nat
    BY <1>2
  <2> HIDE DEF u
  <2>2. u * Second = Second * u
    BY <2>1, SecondAssumption
  <2> QED BY <2>2 DEF u
<1>5. i \in Nat
  BY DEF LoopOK
<1> QED BY <1>1, <1>2, <1>3, <1>4, <1>5

LEMMA LoopTypes ==
  ASSUME TypeOK PROVE LoopOK /\ start <= end
BY LoopAssumption DEF TypeOK, LoopOK

LEMMA TypeInit == Init => TypeOK
<1> SUFFICES ASSUME Init PROVE TypeOK
  OBVIOUS
<1>1. start \in Nat /\ end \in Nat /\ start <= end /\ chunk \in Nat \ {0}
  BY LoopAssumption DEF Init
<1>2. start \in Int /\ end \in Int
  BY <1>1
<1>3. NumChunks(start, end, chunk, MaxRet) \in Nat
  BY <1>1, <1>2, ChunksReach, LoopAssumption
<1> QED BY <1>3 DEF Init, TypeOK

LEMMA TypeStep == TypeOK /\ [AskChunk]_vars => TypeOK'
<1> SUFFICES ASSUME TypeOK, [AskChunk]_vars PROVE TypeOK'
  OBVIOUS
<1>1. CASE UNCHANGED vars
  BY <1>1 DEF vars, TypeOK
<1>2. CASE AskChunk
  <2>1. start' = start /\ end' = end /\ chunk' = chunk
    BY <1>2 DEF AskChunk
  <2>2. NumChunks(start, end, chunk, MaxRet) \in Nat
    BY LoopTypes, Types, ChunksReach, LoopAssumption
  <2>3. i' \in 0 .. NumChunks(start, end, chunk, MaxRet)
    BY <1>2, <2>2 DEF AskChunk, TypeOK
  <2>4. asked' \subseteq 0 .. Horizon
    BY <1>2 DEF AskChunk, TypeOK
  <2> QED BY <2>1, <2>3, <2>4 DEF TypeOK
<1> QED BY <1>1, <1>2

\* Every variable keeps its type.
THEOREM TypeCorrect == Spec => []TypeOK
<1> QED BY TypeInit, TypeStep, PTL DEF Spec

-----------------------------------------------------------------------------
\* Coverage

\* After i chunks the newer part of the window is asked for, but boundaries.
Suffix ==
  WholeSeconds =>
    \A t \in 0 .. Horizon :
      ChunkEnd(end, chunk, i) * Second < t => t \in asked \/ OnBoundary(t, end, chunk)

LEMMA SuffixInit == LoopOK /\ i = 0 => Suffix
<1> SUFFICES ASSUME LoopOK, i = 0, NEW t \in 0 .. Horizon,
                    ChunkEnd(end, chunk, i) * Second < t
             PROVE  OnBoundary(t, end, chunk)
  BY DEF Suffix
<1>1. ChunkEnd(end, chunk, 0) = Unix(end)
  BY Types DEF ChunkEnd
<1>2. Unix(end) * Second \in Nat
  BY Types, SecondAssumption
<1> QED BY <1>1, <1>2 DEF OnBoundary

LEMMA SuffixStep == LoopOK /\ Suffix /\ [AskChunk]_vars => Suffix'
<1> SUFFICES ASSUME LoopOK, Suffix, [AskChunk]_vars PROVE Suffix'
  OBVIOUS
<1>1. CASE UNCHANGED vars
  BY <1>1 DEF vars, Suffix, WholeSeconds
<1>2. CASE AskChunk
  <2>0. end' = end /\ chunk' = chunk /\ i' = i + 1
    BY <1>2 DEF AskChunk
  <2> SUFFICES ASSUME WholeSeconds, NEW t \in 0 .. Horizon,
                      ChunkEnd(end, chunk, i + 1) * Second < t
               PROVE  t \in asked' \/ OnBoundary(t, end, chunk)
    BY <2>0 DEF Suffix, WholeSeconds
  <2> DEFINE u == Unix(end)
             s == ChunkSecond(chunk)
             high == ChunkEnd(end, chunk, i) * Second
  <2>1. u \in Nat /\ s \in Nat \ {0} /\ i \in Nat /\ t \in Nat
    <3>1. Whole(chunk)
      BY DEF WholeSeconds, Whole
    <3>2. s \in Nat \ {0}
      BY <3>1, Types, WholeChunk
    <3> QED BY <3>2, Types, LoopAssumption
  <2>2. high = u * Second - i * (s * Second)
    <3>1. high = (u - i * s) * Second
      BY DEF ChunkEnd
    <3> HIDE DEF u, s, high
    <3> QED BY <2>1, <3>1, SecondAssumption, Z3
  <2>3. CASE t > high
    BY <1>2, <2>3 DEF Suffix, AskChunk
  <2>4. CASE t < high
    <3>1. InChunk(t, end, chunk, i)
      BY <2>4 DEF InChunk, ChunkStart, ChunkEnd
    <3> QED BY <1>2, <3>1 DEF AskChunk
  <2>5. CASE t = high
    <3>1. u * Second - t = i * (s * Second)
      <4> HIDE DEF u, s, high
      <4>1. u * Second \in Nat /\ i * (s * Second) \in Nat
        BY <2>1, SecondAssumption
      <4> QED BY <2>1, <2>2, <2>5, <4>1
    <3>2. s * Second \in Nat \ {0}
      <4> HIDE DEF s
      <4> QED BY <2>1, SecondAssumption
    <3>3. (u * Second - t) % (s * Second) = 0
      BY <2>1, <3>1, <3>2, MultipleMod
    <3> QED BY <3>3 DEF OnBoundary
  <2>6. high \in Int
    <3> HIDE DEF u, s, high
    <3>1. u * Second \in Nat /\ i * (s * Second) \in Nat
      BY <2>1, SecondAssumption
    <3> QED BY <2>2, <3>1
  <2> HIDE DEF high
  <2> QED BY <2>1, <2>3, <2>4, <2>5, <2>6
<1> QED BY <1>1, <1>2

LEMMA SuffixEnds == LoopOK /\ Suffix => WindowAsked
<1> SUFFICES ASSUME LoopOK, Suffix, WholeSeconds,
                    i = NumChunks(start, end, chunk, MaxRet),
                    NEW t \in start .. end,
                    ~(t < Unix(end) * Second - MaxRet)
             PROVE  t \in asked \/ OnBoundary(t, end, chunk)
  BY DEF WindowAsked
<1> DEFINE u == Unix(end)
           s == ChunkSecond(chunk)
<1>1. u \in Nat /\ s \in Nat /\ u * Second <= end
  BY Types
<1>2. i \in Nat /\ (i * chunk > end - start \/ i * chunk > MaxRet)
  <2>1. start <= end
    BY Types
  <2> QED BY <2>1, Types, ChunksReach, LoopAssumption
<1>3. ChunkEnd(end, chunk, i) * Second = u * Second - i * chunk
  <2>1. ChunkEnd(end, chunk, i) * Second = (u - i * s) * Second /\ chunk = s * Second
    BY DEF ChunkEnd, WholeSeconds
  <2> HIDE DEF u, s
  <2>2. (u - i * s) * Second = u * Second - i * (s * Second)
    BY <1>1, <1>2, SecondAssumption, Z3
  <2> QED BY <2>1, <2>2
<1>4. u * Second \in Nat /\ i * chunk \in Nat
  <2> HIDE DEF u
  <2> QED BY <1>1, <1>2, Types, SecondAssumption
<1>5. u * Second - i * chunk < t
  BY <1>1, <1>2, <1>4, Types, LoopAssumption
<1>6. t \in 0 .. Horizon
  BY Types, LoopAssumption DEF LoopOK
<1> QED BY <1>3, <1>5, <1>6 DEF Suffix

\* The whole window is asked for, boundaries and retention limit apart.
THEOREM Coverage == Spec => []WindowAsked
<1>1. Init => TypeOK /\ Suffix
  BY TypeInit, LoopTypes, SuffixInit DEF Init
<1>2. (TypeOK /\ Suffix) /\ [AskChunk]_vars => (TypeOK /\ Suffix)'
  BY TypeStep, LoopTypes, SuffixStep
<1>3. TypeOK /\ Suffix => WindowAsked
  BY LoopTypes, SuffixEnds
<1> QED BY <1>1, <1>2, <1>3, PTL DEF Spec

-----------------------------------------------------------------------------
\* No time is asked for twice

\* What was asked for is newer than the chunk to come.
Newer == \A t \in asked : ChunkEnd(end, chunk, i) * Second < t

LEMMA NewerStep == LoopOK /\ Newer /\ [AskChunk]_vars => Newer'
<1> SUFFICES ASSUME LoopOK, Newer, [AskChunk]_vars PROVE Newer'
  OBVIOUS
<1>1. CASE UNCHANGED vars
  BY <1>1 DEF vars, Newer
<1>2. CASE AskChunk
  <2>0. end' = end /\ chunk' = chunk /\ i' = i + 1
    BY <1>2 DEF AskChunk
  <2> SUFFICES ASSUME NEW t \in asked'
               PROVE  ChunkEnd(end, chunk, i + 1) * Second < t
    BY <2>0 DEF Newer
  <2> DEFINE u == Unix(end)
             s == ChunkSecond(chunk)
             low == ChunkEnd(end, chunk, i + 1) * Second
             high == ChunkEnd(end, chunk, i) * Second
  <2>1. u \in Nat /\ s \in Nat /\ i \in Nat /\ t \in Nat
    BY <1>2, Types, LoopAssumption DEF LoopOK, AskChunk
  <2>2. CASE t \in asked
    <3>1. high < t
      BY <2>2 DEF Newer
    <3>2. low <= high /\ low \in Int /\ high \in Int
      <4>1. low = (u - (i + 1) * s) * Second /\ high = (u - i * s) * Second
        BY DEF ChunkEnd
      <4> HIDE DEF u, s, low, high
      <4>2. low = u * Second - (i * (s * Second)) - s * Second
        BY <2>1, <4>1, SecondAssumption, Z3
      <4>3. high = u * Second - i * (s * Second)
        BY <2>1, <4>1, SecondAssumption, Z3
      <4>4. s * Second \in Nat /\ u * Second \in Nat
        BY <2>1, SecondAssumption
      <4>5. i * (s * Second) \in Nat
        BY <2>1, <4>4
      <4> QED BY <4>2, <4>3, <4>4, <4>5
    <3>3. low < t
      <4> HIDE DEF low, high
      <4> QED BY <2>1, <3>1, <3>2
    <3> QED BY <3>3
  <2>3. CASE t \notin asked
    BY <1>2, <2>3 DEF AskChunk, InChunk, ChunkStart, ChunkEnd
  <2> QED BY <2>2, <2>3
<1> QED BY <1>1, <1>2

LEMMA NewerApart == LoopOK /\ Newer => \A t \in asked : ~InChunk(t, end, chunk, i)
<1> SUFFICES ASSUME LoopOK, Newer, NEW t \in asked
             PROVE  ~(t < ChunkEnd(end, chunk, i) * Second)
  BY DEF InChunk
<1> DEFINE high == ChunkEnd(end, chunk, i) * Second
           u == Unix(end)
           s == ChunkSecond(chunk)
<1>1. high < t
  BY DEF Newer
<1>2. t \in Nat /\ u \in Nat /\ s \in Nat /\ i \in Nat
  BY Types, LoopAssumption DEF LoopOK
<1>3. high \in Int
  <2>1. high = (u - i * s) * Second
    BY DEF ChunkEnd
  <2> HIDE DEF u, s, high
  <2>2. u - i * s \in Int
    BY <1>2
  <2> QED BY <2>1, <2>2, SecondAssumption
<1>4. ~(t < high)
  <2> HIDE DEF high
  <2> QED BY <1>1, <1>2, <1>3
<1> QED BY <1>4

\* No point is asked for, and so read and written, twice by the chunks of a call.
THEOREM NoOverlap == Spec => AskedOnce
<1>1. Init => TypeOK /\ Newer
  BY TypeInit DEF Init, Newer
<1>2. (TypeOK /\ Newer) /\ [AskChunk]_vars => (TypeOK /\ Newer)'
  BY TypeStep, LoopTypes, NewerStep
<1>3. TypeOK /\ Newer => \A t \in asked : ~InChunk(t, end, chunk, i)
  BY LoopTypes, NewerApart
<1> QED BY <1>1, <1>2, <1>3, PTL DEF Spec, AskedOnce

-----------------------------------------------------------------------------
\* The copy stays near its window

\* The older end of the window.
Oldest == IF start <= end THEN start ELSE end

\* A chunk that the loop comes to begins inside the window, counted in durations.
LEMMA ChunkWithin ==
  ASSUME LoopOK, i < NumChunks(start, end, chunk, MaxRet)
  PROVE  i * chunk <= end - Oldest
<1> DEFINE q == (end - start) \div chunk
<1>1. start \in Nat /\ end \in Nat /\ end - start \in Int /\ chunk \in Nat \ {0} /\ i \in Nat
  BY Types
<1>2. NumChunks(start, end, chunk, MaxRet) <= GoDiv(end - start, chunk) + 1
  <2>1. GoDiv(MaxRet, chunk) \in Int /\ GoDiv(end - start, chunk) \in Int
    <3>1. \A a \in Int : GoDiv(a, chunk) \in Int
      BY <1>1, SMT DEF GoDiv
    <3> QED BY <1>1, <3>1, LoopAssumption
  <2> QED BY <2>1 DEF NumChunks
<1>3. NumChunks(start, end, chunk, MaxRet) \in Int
  BY <1>1, Types, NumChunksType, LoopAssumption
<1>4. CASE start <= end
  <2>1. GoDiv(end - start, chunk) = q /\ q \in Nat /\ chunk * q <= end - start
    BY <1>1, <1>4, DivBounds
  <2> HIDE DEF q
  <2>2. i <= q
    BY <1>1, <1>2, <1>3, <2>1
  <2>3. \A n, m, c \in Nat : n <= m => n * c <= c * m
    BY Z3
  <2>4. i * chunk <= chunk * q
    BY <1>1, <2>1, <2>2, <2>3
  <2>5. i * chunk \in Nat /\ chunk * q \in Nat
    BY <1>1, <2>1
  <2>6. Oldest = start
    BY <1>4 DEF Oldest
  <2> QED BY <1>1, <2>1, <2>4, <2>5, <2>6
<1>5. CASE ~(start <= end)
  <2>1. GoDiv(end - start, chunk) <= 0
    <3>1. start - end \in Nat
      BY <1>1, <1>5
    <3>2. (start - end) \div chunk \in Nat
      BY <1>1, <3>1, DivBounds
    <3>3. GoDiv(end - start, chunk) = -((start - end) \div chunk)
      <4>1. ~(end - start >= 0) /\ -(end - start) = start - end
        BY <1>1, <1>5
      <4> QED BY <4>1 DEF GoDiv
    <3> QED BY <3>2, <3>3
  <2>2. GoDiv(end - start, chunk) \in Int
    BY <1>1, SMT DEF GoDiv
  <2>3. i = 0
    BY <1>1, <1>2, <1>3, <2>1, <2>2
  <2>4. Oldest = end
    BY <1>5 DEF Oldest
  <2> QED BY <1>1, <2>3, <2>4
<1> QED BY <1>4, <1>5

LEMMA ChunkNear ==
  ASSUME LoopOK, i < NumChunks(start, end, chunk, MaxRet),
         NEW t \in Nat, InChunk(t, end, chunk, i)
  PROVE  t < end /\ t > Oldest - chunk - Second
<1> DEFINE u == Unix(end)
           s == ChunkSecond(chunk)
<1>1. /\ u \in Nat /\ s \in Nat /\ i \in Nat
      /\ Oldest \in Nat /\ end \in Nat /\ chunk \in Nat \ {0}
  BY Types DEF Oldest
<1>2. s * Second <= chunk
  <2>1. Second * s <= chunk
    BY <1>1, DivBounds, SecondAssumption DEF ChunkSecond
  <2>2. Second * s = s * Second
    <3> HIDE DEF s
    <3> QED BY <1>1, SecondAssumption
  <2> QED BY <2>1, <2>2
<1>3. u * Second <= end /\ end < u * Second + Second
  <2>1. end < (end \div Second + 1) * Second
    BY <1>1, DivBounds, SecondAssumption
  <2>2. end < (u + 1) * Second
    BY <2>1 DEF Unix
  <2>3. (u + 1) * Second = u * Second + Second
    <3> HIDE DEF u
    <3> QED BY <1>1, SecondAssumption
  <2> QED BY <2>2, <2>3, Types
<1>4. i * chunk <= end - Oldest
  BY ChunkWithin
<1>5. (u - (i + 1) * s) * Second < t /\ t < (u - i * s) * Second
  BY DEF InChunk, ChunkStart, ChunkEnd
<1> HIDE DEF u, s
<1>6. /\ (u - (i + 1) * s) * Second = u * Second - i * (s * Second) - s * Second
      /\ (u - i * s) * Second = u * Second - i * (s * Second)
  BY <1>1, SecondAssumption, Z3
<1>7. i * (s * Second) <= i * chunk
  <2>1. \A n, a, b \in Nat : a <= b => n * a <= n * b
    BY Z3
  <2>2. s * Second \in Nat
    BY <1>1, SecondAssumption
  <2> QED BY <1>1, <1>2, <2>1, <2>2
<1>8. /\ u * Second \in Nat /\ s * Second \in Nat
      /\ i * (s * Second) \in Nat /\ i * chunk \in Nat
  BY <1>1, SecondAssumption
<1> DEFINE us == u * Second
           ss == s * Second
           is == i * (s * Second)
           ic == i * chunk
<1>9. us \in Nat /\ ss \in Nat /\ is \in Nat /\ ic \in Nat
  BY <1>8
<1>10. us - is - ss < t /\ t < us - is
  BY <1>5, <1>6
<1>11. ss <= chunk /\ us <= end /\ end < us + Second /\ ic <= end - Oldest /\ is <= ic
  BY <1>2, <1>3, <1>4, <1>7
<1> HIDE DEF us, ss, is, ic
<1> QED BY <1>1, <1>9, <1>10, <1>11, SecondAssumption

LEMMA NearStep == LoopOK /\ AsksOnlyNear /\ [AskChunk]_vars => AsksOnlyNear'
<1> SUFFICES ASSUME LoopOK, AsksOnlyNear, [AskChunk]_vars PROVE AsksOnlyNear'
  OBVIOUS
<1>1. CASE UNCHANGED vars
  BY <1>1 DEF vars, AsksOnlyNear
<1>2. CASE AskChunk
  <2>1. /\ start' = start /\ end' = end /\ chunk' = chunk
        /\ i < NumChunks(start, end, chunk, MaxRet)
    BY <1>2 DEF AskChunk
  <2> SUFFICES ASSUME NEW t \in asked'
               PROVE  t < end /\ t > Oldest - chunk - Second
    BY <2>1 DEF AsksOnlyNear, Oldest
  <2>2. CASE t \in asked
    BY <2>2 DEF AsksOnlyNear, Oldest
  <2>3. CASE t \notin asked
    <3>1. t \in Nat /\ InChunk(t, end, chunk, i)
      BY <1>2, <2>3, LoopAssumption DEF AskChunk
    <3> QED BY <2>1, <3>1, ChunkNear
  <2> QED BY <2>2, <2>3
<1> QED BY <1>1, <1>2

\* Whatever the window and the chunk, whole seconds or not: nothing is asked for
\* after the end, nor more than a chunk and a fraction of a second before the start.
THEOREM StaysNear == Spec => []AsksOnlyNear
<1>1. Init => TypeOK /\ AsksOnlyNear
  BY TypeInit DEF Init, AsksOnlyNear
<1>2. (TypeOK /\ AsksOnlyNear) /\ [AskChunk]_vars => (TypeOK /\ AsksOnlyNear)'
  BY TypeStep, LoopTypes, NearStep
<1> QED BY <1>1, <1>2, PTL DEF Spec

-----------------------------------------------------------------------------
\* A run of the program: the inductive invariant

\* The loop begins with the copy, and keeps what is proved of it above - for
\* a window that may be reversed, too.
LoopInv ==
  /\ pc # "copy" => i = 0 /\ asked = {}
  /\ chunk # 0 => Suffix /\ Newer
  /\ AsksOnlyNear

\* The end of the window is read from the clock before its start is: the start may be
\* late by what the clock went on since the process started, the end is never early.
\* The window of a policy is not reversed.
WindowInv ==
  /\ pc \in {"config", "notify", "end"} => end = Launch
  /\ pc \in {"config", "notify", "end", "start"} => start = Launch - DefaultBack
  /\ pc = "copy" /\ args.full => start <= end
  /\ ~(pc = "copy" /\ args.full) =>
       /\ pc \notin {"config", "notify", "end"} => end >= Said(args.end, Launch)
       /\ pc \notin {"config", "notify", "end", "start"} =>
            start <= Said(args.start, Launch - DefaultBack) + (clock - Launch)

\* A process panics for a chunk of length zero, or in the copy of a reversed window.
EndInv ==
  exit = "panic" => chunk = 0 \/ (pc = "copy" /\ NumChunks(start, end, chunk, MaxRet) < 0)

CmdInv == CmdTypeOK /\ LoopInv /\ WindowInv /\ EndInv

-----------------------------------------------------------------------------
\* The times of the flags

Early == clock \in Launch .. Latest

LEMMA SaidType ==
  ASSUME NEW arg \in TimeArgs, NEW default \in Int
  PROVE  Said(arg, default) \in Int
<1>1. arg.value \in Nat /\ arg.value * Second \in Int /\ Launch - arg.value \in Int
  BY ArgumentsAssumption, SecondAssumption
<1>2. arg.kind \in Kinds
  BY ArgumentsAssumption
<1>3. CASE arg.kind = "unix"
  BY <1>1, <1>3 DEF Said
<1>4. CASE arg.kind = "back"
  BY <1>1, <1>4 DEF Said
<1>5. CASE arg.kind = "date"
  BY <1>1, <1>5 DEF Said
<1>6. CASE arg.kind \notin {"unix", "back", "date"}
  BY <1>6 DEF Said
<1> QED BY <1>3, <1>4, <1>5, <1>6

LEMMA FlagTime ==
  ASSUME NEW arg \in TimeArgs, arg.kind # "bad", Early, NEW default \in 0 .. Horizon
  PROVE  /\ InputTime(arg, default) \in 0 .. Horizon
         /\ Said(arg, default) \in Int
         /\ InputTime(arg, default) >= Said(arg, default)
         /\ InputTime(arg, default) <= Said(arg, default) + (clock - Launch)
<1>1. /\ arg.value \in Nat /\ clock \in Nat /\ Launch \in Nat /\ Launch <= clock
      /\ clock <= Horizon /\ Horizon \in Nat /\ Second \in Nat
      /\ arg.kind \in {"none", "unix", "back", "date"}
  BY ArgumentsAssumption, LoopAssumption, SecondAssumption DEF Early, Kinds
<1>2. CASE arg.kind = "none"
  <2>1. InputTime(arg, default) = default /\ Said(arg, default) = default
    BY <1>2 DEF InputTime, Said
  <2> QED BY <1>1, <2>1
<1>3. CASE arg.kind = "unix"
  <2> DEFINE v == arg.value * Second
  <2>1. InputTime(arg, default) = v /\ Said(arg, default) = v
    BY <1>3 DEF InputTime, Said
  <2>2. v \in Nat /\ v <= Horizon
    <3>1. v <= Horizon
      BY <1>3, TimesAssumption
    <3>2. v \in Nat
      BY <1>1
    <3> QED BY <3>1, <3>2
  <2> HIDE DEF v
  <2> QED BY <1>1, <2>1, <2>2
<1>4. CASE arg.kind = "back"
  <2>1. InputTime(arg, default) = clock - arg.value /\ Said(arg, default) = Launch - arg.value
    BY <1>4 DEF InputTime, Said
  <2>2. arg.value <= Launch
    BY <1>4, TimesAssumption
  <2> QED BY <1>1, <2>1, <2>2
<1>5. CASE arg.kind = "date"
  <2>1. InputTime(arg, default) = arg.value /\ Said(arg, default) = arg.value
    BY <1>5 DEF InputTime, Said
  <2>2. arg.value <= Horizon
    BY <1>5, TimesAssumption
  <2> QED BY <1>1, <2>1, <2>2
<1> QED BY <1>1, <1>2, <1>3, <1>4, <1>5

-----------------------------------------------------------------------------
\* Initial states

LEMMA DefaultTimes ==
  /\ Launch \in 0 .. Horizon /\ Launch - DefaultBack \in 0 .. Horizon
  /\ Launch \in Launch .. Latest /\ Horizon \in Nat
BY ArgumentsAssumption, LoopAssumption

LEMMA CmdInvInit == CmdInit => CmdInv
<1> SUFFICES ASSUME CmdInit PROVE CmdInv
  OBVIOUS
<1>1. CmdTypeOK
  BY DefaultTimes DEF CmdInit, CmdTypeOK, Signals
<1>2. LoopInv
  BY DEF CmdInit, LoopInv, AsksOnlyNear
<1>3. WindowInv
  BY DEF CmdInit, WindowInv
<1>4. EndInv
  BY DEF CmdInit, EndInv
<1> QED BY <1>1, <1>2, <1>3, <1>4 DEF CmdInv

-----------------------------------------------------------------------------
\* Steps

\* No step but those of main has a hand in the window and the loop.
LEMMA WindowSame ==
  ASSUME UNCHANGED << vars, args, pc >>, CmdInv, clock' \in Launch .. Latest, clock <= clock'
  PROVE  LoopInv' /\ WindowInv'
<1>1. LoopInv'
  BY DEF CmdInv, LoopInv, Suffix, Newer, AsksOnlyNear, WholeSeconds, vars
<1>2. WindowInv'
  <2>1. /\ clock \in Int /\ clock' \in Int /\ Launch \in Int /\ start \in Int /\ end \in Int
    BY ArgumentsAssumption DEF CmdInv, CmdTypeOK
  <2>2. CASE pc \in {"config", "notify", "end", "start"} \/ (pc = "copy" /\ args.full)
    BY <2>2 DEF CmdInv, WindowInv, vars, Said
  <2>3. CASE pc \notin {"config", "notify", "end", "start"} /\ ~(pc = "copy" /\ args.full)
    <3> DEFINE say == Said(args.start, Launch - DefaultBack)
    <3>1. start <= say + (clock - Launch) /\ end >= Said(args.end, Launch)
      BY <2>3 DEF CmdInv, WindowInv
    <3>2. say \in Int
      <4>1. args.start \in TimeArgs /\ Launch - DefaultBack \in Int
        BY ArgumentsAssumption DEF CmdInv, CmdTypeOK, Arguments
      <4> QED BY <4>1, SaidType
    <3>3. say' = say /\ Said(args.end, Launch)' = Said(args.end, Launch)
      BY DEF Said
    <3>4. start' <= say' + (clock' - Launch)
      <4>1. start' = start /\ start <= say + (clock - Launch) /\ say' = say
        BY <3>1, <3>3 DEF vars
      <4> HIDE DEF say
      <4>2. start <= say + (clock' - Launch)
        <5>1. \A a, b, c, d, l \in Int : a <= b + (c - l) /\ c <= d => a <= b + (d - l)
          OBVIOUS
        <5> QED BY <2>1, <3>2, <4>1, <5>1
      <4> QED BY <4>1, <4>2
    <3> QED BY <2>3, <3>1, <3>3, <3>4 DEF WindowInv, vars
  <2> QED BY <2>2, <2>3
<1> QED BY <1>1, <1>2

\* The steps of the goroutine, of the clock, and those that end the process.
LEMMA OtherStep ==
  ASSUME CmdInv, UNCHANGED << vars, args, pc >>, clock' \in Launch .. Latest, clock <= clock',
         handler' \in {"none", "starting", "ready", "ending", "gone"},
         signal' \in Signals \cup {"none"},
         exit' \in {"running", "done", "bad", "panic", "signalled", "killed"}, EndInv'
  PROVE  CmdInv'
<1>1. CmdTypeOK'
  BY DEF CmdInv, CmdTypeOK, vars
<1> QED BY <1>1, WindowSame DEF CmdInv

LEMMA SuffixBegins == (LoopOK /\ i = 0 => Suffix)'
BY SuffixInit, PTL

\* The steps of main before the loop: each sets a part of the window.
LEMMA BeforeCopy ==
  ASSUME CmdInv, i' = 0, asked' = {}, start' \in 0 .. Horizon, end' \in 0 .. Horizon, chunk' \in Nat
  PROVE  LoopInv'
<1>1. ASSUME chunk' # 0 PROVE Suffix' /\ Newer'
  <2>1. LoopOK' /\ i' = 0
    BY <1>1 DEF LoopOK
  <2>2. Suffix'
    BY <2>1, SuffixBegins
  <2>3. Newer'
    BY DEF Newer
  <2> QED BY <2>2, <2>3
<1>2. AsksOnlyNear'
  BY DEF AsksOnlyNear
<1> QED BY <1>1, <1>2 DEF LoopInv

LEMMA MainStep ==
  ASSUME CmdInv, exit = "running",
         NEW place \in {"notify", "end", "start", "chunk", "action", "copy", "serve"},
         pc # "copy", UNCHANGED << i, asked, args, clock, signal, exit >>, pc' = place,
         handler' \in {"none", "starting", "ready", "ending", "gone"},
         start' \in 0 .. Horizon, end' \in 0 .. Horizon, chunk' \in Nat, WindowInv'
  PROVE  CmdInv'
<1>1. i' = 0 /\ asked' = {}
  BY DEF CmdInv, LoopInv
<1>2. CmdTypeOK'
  BY <1>1 DEF CmdInv, CmdTypeOK
<1>3. LoopInv'
  BY <1>1, BeforeCopy
<1>4. EndInv'
  BY DEF CmdInv, EndInv
<1> QED BY <1>2, <1>3, <1>4 DEF CmdInv

LEMMA CmdInvStep ==
  ASSUME CmdInv, [CmdNext]_cmdVars
  PROVE  CmdInv'
<1>0. /\ CmdTypeOK /\ EndInv /\ clock \in Launch .. Latest /\ clock \in Int
      /\ start \in 0 .. Horizon /\ end \in 0 .. Horizon /\ chunk \in Nat
      /\ args.start \in TimeArgs /\ args.end \in TimeArgs /\ args.chunk \in ChunkArgs
      /\ Latest \in 0 .. Horizon /\ Launch \in Nat /\ Horizon \in Nat
  BY ArgumentsAssumption, LoopAssumption DEF CmdInv, CmdTypeOK, Arguments
\* The steps that end the process.
<1>1. ASSUME exit = "running", NEW how \in {"done", "bad", "signalled", "killed"}, Exit(how)
      PROVE  CmdInv'
  <2>1. EndInv'
    BY <1>1 DEF Exit, vars, CmdInv, EndInv
  <2>2. clock' \in Launch .. Latest /\ clock <= clock'
    BY <1>0, <1>1 DEF Exit
  <2> QED BY <1>1, <2>1, <2>2, OtherStep DEF Exit, CmdInv, CmdTypeOK
<1>2. CASE UNCHANGED cmdVars
  <2>1. EndInv'
    BY <1>2 DEF cmdVars, vars, CmdInv, EndInv
  <2> QED BY <1>0, <1>2, <2>1, OtherStep DEF cmdVars, CmdInv, CmdTypeOK
<1>3. CASE CmdTick
  <2>1. EndInv'
    BY <1>3 DEF CmdTick, vars, CmdInv, EndInv
  <2>2. clock' \in Launch .. Latest /\ clock <= clock'
    BY <1>0, <1>3 DEF CmdTick
  <2> QED BY <1>3, <2>1, <2>2, OtherStep DEF CmdTick, CmdInv, CmdTypeOK
<1>4. CASE HandlerReady \/ \E s \in Signals : TakeSignal(s) \/ LoseSignal(s)
  <2>1. EndInv'
    BY <1>4 DEF HandlerReady, TakeSignal, LoseSignal, vars, CmdInv, EndInv
  <2> QED BY <1>0, <1>4, <2>1, OtherStep
          DEF HandlerReady, TakeSignal, LoseSignal, CmdInv, CmdTypeOK
<1>5. CASE CopyPanics
  <2>1. EndInv'
    BY <1>5 DEF CopyPanics, Exit, At, vars, CmdInv, EndInv
  <2> QED BY <1>0, <1>5, <2>1, OtherStep DEF CopyPanics, Exit, CmdInv, CmdTypeOK
\* A chunk of length zero, met before the copy.
<1>z. ASSUME exit = "running", chunk = 0, Exit("panic") PROVE CmdInv'
  <2>1. EndInv'
    BY <1>z DEF Exit, vars, EndInv
  <2> QED BY <1>0, <1>z, <2>1, OtherStep DEF Exit, CmdInv, CmdTypeOK
<1>6. CASE OtherAction \/ CopyEnds \/ ServeFails \/ Kill \/ EndBySignal
  BY <1>1, <1>6, <1>z DEF OtherAction, CopyEnds, ServeFails, Kill, EndBySignal, At
\* The statements of main.
<1>7. CASE ReadConfig
  <2>1. CASE Exit("bad")
    BY <1>1, <1>7, <2>1 DEF ReadConfig, At
  <2>2. CASE chunk' = ConfigChunk /\ GoTo("notify") /\ UNCHANGED << start, end >>
    <3>1. WindowInv'
      BY <1>7, <2>2 DEF ReadConfig, At, GoTo, CmdInv, WindowInv
    <3> QED BY <1>0, <1>7, <2>2, <3>1, MainStep, ArgumentsAssumption
            DEF ReadConfig, At, GoTo, CmdTypeOK, EndInv
  <2> QED BY <1>7, <2>1, <2>2 DEF ReadConfig
<1>8. CASE Notify
  <2>1. WindowInv'
    BY <1>8 DEF Notify, At, vars, CmdInv, WindowInv
  <2> QED BY <1>0, <1>8, <2>1, MainStep DEF Notify, At, vars
<1>9. CASE ParseEnd
  <2>1. CASE Exit("bad")
    BY <1>1, <1>9, <2>1 DEF ParseEnd, At
  <2>2. CASE /\ args.end.kind # "bad" /\ end' = InputTime(args.end, end)
             /\ GoTo("start") /\ UNCHANGED << start, chunk >>
    <3>1. end = Launch /\ start = Launch - DefaultBack
      BY <1>9 DEF ParseEnd, At, CmdInv, WindowInv
    <3>2. end' \in 0 .. Horizon /\ end' >= Said(args.end, Launch)
      BY <1>0, <2>2, <3>1, FlagTime DEF Early
    <3>3. WindowInv'
      BY <1>9, <2>2, <3>1, <3>2 DEF GoTo, WindowInv, Said
    <3> QED BY <1>0, <1>9, <2>2, <3>2, <3>3, MainStep DEF ParseEnd, At, GoTo, CmdTypeOK, EndInv
  <2> QED BY <1>9, <2>1, <2>2 DEF ParseEnd
<1>10. CASE ParseStart
  <2>1. CASE Exit("bad")
    BY <1>1, <1>10, <2>1 DEF ParseStart, At
  <2>2. CASE /\ args.start.kind # "bad" /\ start' = InputTime(args.start, start)
             /\ GoTo("chunk") /\ UNCHANGED << end, chunk >>
    <3>1. start = Launch - DefaultBack /\ end >= Said(args.end, Launch)
      BY <1>10 DEF ParseStart, At, CmdInv, WindowInv
    <3>2. /\ start' \in 0 .. Horizon
          /\ start' <= Said(args.start, Launch - DefaultBack) + (clock - Launch)
      BY <1>0, <2>2, <3>1, FlagTime DEF Early
    <3>3. WindowInv'
      BY <1>10, <2>2, <3>1, <3>2 DEF GoTo, WindowInv, Said
    <3> QED BY <1>0, <1>10, <2>2, <3>2, <3>3, MainStep DEF ParseStart, At, GoTo, CmdTypeOK, EndInv
  <2> QED BY <1>10, <2>1, <2>2 DEF ParseStart
<1>11. CASE ParseChunk
  <2>1. CASE Exit("bad")
    BY <1>1, <1>11, <2>1 DEF ParseChunk, At
  <2>2. CASE /\ chunk' = IF args.chunk.kind = "none" THEN chunk ELSE args.chunk.value
             /\ GoTo("action") /\ UNCHANGED << start, end >>
    <3>1. WindowInv'
      BY <1>11, <2>2 DEF ParseChunk, At, GoTo, CmdInv, WindowInv, Said
    <3>2. chunk' \in Nat
      BY <1>0, <2>2, ArgumentsAssumption
    <3> QED BY <1>0, <1>11, <2>2, <3>1, <3>2, MainStep DEF ParseChunk, At, GoTo, CmdTypeOK, EndInv
  <2> QED BY <1>11, <2>1, <2>2 DEF ParseChunk
<1>12. CASE StartCopy
  <2>1. CASE args.full
    <3>1. PICK duration \in Durations : GetFirstLastTime(duration) /\ UNCHANGED chunk
      BY <1>12, <2>1 DEF StartCopy
    <3> DEFINE back == IF duration = 0 THEN MaxRet ELSE duration
    <3>2. back \in Nat /\ back <= Launch
      BY ArgumentsAssumption, LoopAssumption, TimesAssumption
    <3>3. end' = clock /\ start' = clock - back
      BY <3>1 DEF GetFirstLastTime
    <3> HIDE DEF back
    <3>4. end' \in 0 .. Horizon /\ start' \in 0 .. Horizon /\ start' <= end'
      BY <1>0, <3>2, <3>3
    <3>5. WindowInv'
      BY <1>12, <2>1, <3>4 DEF StartCopy, GoTo, WindowInv
    <3> QED BY <1>0, <1>12, <3>1, <3>4, <3>5, MainStep DEF StartCopy, At, GoTo, CmdTypeOK, EndInv
  <2>2. CASE ~args.full
    <3>1. UNCHANGED << start, end, chunk >>
      BY <1>12, <2>2 DEF StartCopy, window
    <3>2. WindowInv'
      BY <1>12, <2>2, <3>1 DEF StartCopy, At, GoTo, CmdInv, WindowInv, Said
    <3> QED BY <1>0, <1>12, <3>1, <3>2, MainStep DEF StartCopy, At, GoTo, CmdTypeOK, EndInv
  <2> QED BY <2>1, <2>2
<1>13. CASE StartServing
  <2>1. CASE chunk = 0 /\ Exit("panic")
    BY <1>13, <1>z, <2>1 DEF StartServing, At
  <2>2. CASE GoTo("serve") /\ UNCHANGED window
    <3>1. UNCHANGED << start, end, chunk >>
      BY <2>2 DEF window
    <3>2. WindowInv'
      BY <1>13, <2>2, <3>1 DEF StartServing, At, GoTo, CmdInv, WindowInv, Said
    <3> QED BY <1>0, <1>13, <2>2, <3>1, <3>2, MainStep DEF StartServing, At, GoTo, CmdTypeOK, EndInv
  <2> QED BY <1>13, <2>1, <2>2 DEF StartServing
\* The loop.
<1>14. CASE CopyChunk
  <2>1. /\ AskChunk /\ pc = "copy" /\ exit = "running" /\ chunk # 0
        /\ UNCHANGED << start, end, chunk, args, clock, pc, handler, signal, exit >>
    BY <1>14 DEF CopyChunk, At, AskChunk
  <2>2. LoopOK /\ Suffix /\ Newer /\ AsksOnlyNear
    BY <1>0, <2>1 DEF LoopOK, CmdInv, CmdTypeOK, LoopInv
  <2>3. LoopInv'
    BY <2>1, <2>2, SuffixStep, NewerStep, NearStep DEF LoopInv
  <2>4. CmdTypeOK'
    <3>1. i \in Nat /\ i < NumChunks(start, end, chunk, MaxRet) /\ i' = i + 1
      BY <2>1 DEF AskChunk, CmdInv, CmdTypeOK
    <3>2. NumChunks(start, end, chunk, MaxRet) \in Int
      BY <2>2, Types, NumChunksType, LoopAssumption
    <3>3. i' \in Nat /\ i' <= NumChunks(start, end, chunk, MaxRet)
      BY <3>1, <3>2
    <3>4. asked' \subseteq 0 .. Horizon
      BY <1>0, <2>1 DEF AskChunk, CmdTypeOK
    <3> QED BY <1>0, <2>1, <3>3, <3>4 DEF CmdTypeOK
  <2>5. WindowInv'
    BY <2>1 DEF CmdInv, WindowInv, Said
  <2>6. EndInv'
    BY <2>1 DEF CmdInv, EndInv
  <2> QED BY <2>3, <2>4, <2>5, <2>6 DEF CmdInv
<1> QED
  BY <1>2, <1>3, <1>4, <1>5, <1>6, <1>7, <1>8, <1>9, <1>10, <1>11, <1>12, <1>13, <1>14
  DEF CmdNext, Main

\* The invariant that the theorems below follow from.
THEOREM CmdInvariance == CmdSpec => []CmdInv
BY CmdInvInit, CmdInvStep, PTL DEF CmdSpec

\* Every variable of a run keeps its type, and the window its bounds.
THEOREM CmdTypeCorrect == CmdSpec => []CmdTypeOK
<1>1. CmdInv => CmdTypeOK
  BY DEF CmdInv
<1> QED BY <1>1, CmdInvariance, PTL

-----------------------------------------------------------------------------
\* What a command asks for

\* A command that gets through its chunks has asked for its whole window, boundaries
\* and retention limit apart - whatever flags, defaults and clock made of the window.
THEOREM CommandCovers == CmdSpec => []WindowAsked
<1>1. CmdInv => WindowAsked
  <2> SUFFICES ASSUME CmdInv, chunk # 0 PROVE WindowAsked
    BY DEF WindowAsked, WholeSeconds
  <2>1. LoopOK /\ Suffix
    BY DEF LoopOK, CmdInv, CmdTypeOK, LoopInv
  <2> QED BY <2>1, SuffixEnds
<1> QED BY <1>1, CmdInvariance, PTL

\* And for nothing after its end or more than a chunk before its start.
THEOREM CommandStaysNear == CmdSpec => []AsksOnlyNear
<1>1. CmdInv => AsksOnlyNear
  BY DEF CmdInv, LoopInv
<1> QED BY <1>1, CmdInvariance, PTL

\* It asks for no time twice: a new window is made before the first chunk only.
THEOREM CommandAsksOnce == CmdSpec => AskedOnce
<1>1. CmdInv /\ [CmdNext]_cmdVars =>
        [\A t \in asked : ~InChunk(t, end, chunk, i)]_vars
  <2> SUFFICES ASSUME CmdInv PROVE \A t \in asked : ~InChunk(t, end, chunk, i)
    OBVIOUS
  <2>1. CASE chunk = 0
    <3>1. ASSUME NEW t \in asked PROVE ~InChunk(t, end, chunk, i)
      <4>1. ChunkSecond(0) = 0
        BY SecondAssumption DEF ChunkSecond
      <4>2. Unix(end) \in Int /\ i \in Nat
        BY UnixBounds DEF CmdInv, CmdTypeOK
      <4>3. ChunkStart(end, chunk, i) = ChunkEnd(end, chunk, i)
        BY <2>1, <4>1, <4>2 DEF ChunkStart, ChunkEnd
      <4>4. ChunkEnd(end, chunk, i) * Second \in Int /\ t \in Int
        <5>1. ChunkEnd(end, chunk, i) \in Int
          BY <2>1, <4>1, <4>2 DEF ChunkEnd
        <5> QED BY <5>1, SecondAssumption DEF CmdInv, CmdTypeOK
      <4> QED BY <4>3, <4>4 DEF InChunk
    <3> QED BY <3>1
  <2>2. CASE chunk # 0
    <3>1. LoopOK /\ Newer
      BY <2>2 DEF LoopOK, CmdInv, CmdTypeOK, LoopInv
    <3> QED BY <3>1, NewerApart
  <2> QED BY <2>1, <2>2
<1> QED BY <1>1, CmdInvariance, PTL DEF CmdSpec, AskedOnce

-----------------------------------------------------------------------------
\* How a command ends

\* A list of negative length takes a window that is reversed by two chunks.
LEMMA Reversed ==
  ASSUME NEW s \in Int, NEW e \in Int, NEW c \in Nat \ {0}, NumChunks(s, e, c, MaxRet) < 0
  PROVE  s - e >= 2 * c
<1>1. GoDiv(MaxRet, c) \in Nat
  BY DivBounds, LoopAssumption
<1>2. \A a \in Int : GoDiv(a, c) \in Int
  BY SMT DEF GoDiv
<1>3. GoDiv(e - s, c) + 1 < 0 /\ GoDiv(e - s, c) \in Int
  BY <1>1, <1>2 DEF NumChunks
<1>4. ~(e - s >= 0)
  <2>1. e - s >= 0 => GoDiv(e - s, c) \in Nat
    BY DivBounds
  <2> QED BY <1>3, <2>1
<1>5. s - e \in Nat /\ -(e - s) = s - e
  BY <1>4
<1> DEFINE q == (s - e) \div c
<1>6. GoDiv(e - s, c) = -q
  BY <1>4, <1>5 DEF GoDiv
<1>7. q \in Nat /\ c * q <= s - e
  BY <1>5, DivBounds
<1> HIDE DEF q
<1>8. q >= 2
  BY <1>3, <1>6, <1>7
<1>9. 2 * c <= c * q
  <2>1. \A a, b \in Nat : b >= 2 => 2 * a <= a * b
    BY Z3
  <2> QED BY <1>7, <1>8, <2>1
<1>10. c * q \in Nat
  BY <1>7
<1> QED BY <1>7, <1>9, <1>10

\* A command panics for a zero chunk, for flags that say an end before the start, or
\* when the arguments took the time of two chunks to read - and for nothing else.
THEOREM PanicsOnlyIfReversed == CmdSpec => []PanicOnlyIfReversed
<1>1. CmdInv => PanicOnlyIfReversed
  <2> DEFINE from == Said(args.start, Launch - DefaultBack)
             to   == Said(args.end, Launch)
  <2> SUFFICES ASSUME CmdInv, exit = "panic", chunk # 0, args.full \/ ~(from > to)
               PROVE  clock - Launch >= 2 * chunk
    BY DEF PanicOnlyIfReversed
  <2>1. /\ start \in Int /\ end \in Int /\ chunk \in Nat \ {0}
        /\ clock \in Int /\ Launch \in Int
    BY ArgumentsAssumption DEF CmdInv, CmdTypeOK
  <2>2. pc = "copy" /\ NumChunks(start, end, chunk, MaxRet) < 0
    BY DEF CmdInv, EndInv
  <2>3. start - end >= 2 * chunk
    BY <2>1, <2>2, Reversed
  <2>4. ~args.full
    BY <2>1, <2>2, <2>3 DEF CmdInv, WindowInv
  <2>5. start <= from + (clock - Launch) /\ end >= to
    BY <2>2, <2>4 DEF CmdInv, WindowInv
  <2>6. from \in Int /\ to \in Int
    <3>1. args.start \in TimeArgs /\ args.end \in TimeArgs /\ Launch - DefaultBack \in Int
      BY ArgumentsAssumption DEF CmdInv, CmdTypeOK, Arguments
    <3> QED BY <2>1, <3>1, SaidType
  <2>7. ~(from > to)
    BY <2>4
  <2> HIDE DEF from, to
  <2> QED BY <2>1, <2>3, <2>5, <2>6, <2>7
<1> QED BY <1>1, CmdInvariance, PTL

=============================================================================
