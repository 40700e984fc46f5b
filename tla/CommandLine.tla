---------------------------- MODULE CommandLine ----------------------------
(***************************************************************************)
(* A run of the program as it is called (pkg/main.go, pkg/util.go): from   *)
(* the start of the process, through its configuration and its arguments,  *)
(* to the window that a copy is made of, and to the end of the process.    *)
(* The loop over the chunks of that window is the one of ChunkLoop; module *)
(* Agent has what a command does on the servers before it.                 *)
(*                                                                         *)
(* The clock is read three times: for the defaults, before main, and then  *)
(* for -end and for -start, in this order.  A goroutine takes signals.     *)
(***************************************************************************)
EXTENDS ChunkLoop

CONSTANTS
  Actions,             \* the values of -action
  TimeArgs,            \* the values of -start and of -end, see Arguments
  ChunkArgs,           \* the values of -chunk
  ConfigChunk,         \* data-chuck-duration
  Durations,           \* the durations of a retention policy, 0 for one without
  DefaultBack,         \* ticks that starttime lies before the start of the process
  Launch,              \* when the process starts
  Latest               \* bound: the last tick at which the arguments are parsed

Kinds == {"none", "bad", "unix", "back", "date"}

ASSUME ArgumentsAssumption ==
  /\ TimeArgs \subseteq [kind : Kinds, value : Nat]
  /\ ChunkArgs \subseteq [kind : {"none", "bad", "duration"}, value : Nat]
  /\ ConfigChunk \in Nat /\ Durations \subseteq Nat
  /\ DefaultBack \in Nat /\ Launch \in Nat /\ DefaultBack <= Launch
  /\ Latest \in Launch .. Horizon

\* The times of the model are 0 .. Horizon: no flag and no policy makes a window that
\* reaches beyond them.
ASSUME TimesAssumption ==
  /\ \A arg \in TimeArgs :
       /\ arg.kind = "unix" => arg.value * Second <= Horizon
       /\ arg.kind = "back" => arg.value <= Launch
       /\ arg.kind = "date" => arg.value <= Horizon
  /\ MaxRet <= Launch
  /\ \A duration \in Durations : duration <= Launch

VARIABLES
  args,                \* the flags of this run
  clock,
  pc,                  \* the statement main is at
  handler,             \* the goroutine that waits for a signal
  signal,              \* the last signal sent to it, from when it waits for one
  exit                 \* how the process ended

cmdVars == << vars, args, clock, pc, handler, signal, exit >>

Arguments == [action : Actions, full : BOOLEAN,
              start : TimeArgs, end : TimeArgs, chunk : ChunkArgs]

Signals == {"TERM", "INT", "HUP"}

Copies == {"copy", "fullcopy"}

CmdTypeOK ==
  /\ args \in Arguments
  /\ clock \in Launch .. Latest
  /\ pc \in {"config", "notify", "end", "start", "chunk", "action", "copy", "serve"}
  /\ handler \in {"none", "starting", "ready", "ending", "gone"}
  /\ signal \in Signals \cup {"none"}
  /\ exit \in {"running", "done", "bad", "panic", "signalled", "killed"}
  /\ start \in 0 .. Horizon /\ end \in 0 .. Horizon
  /\ chunk \in Nat
  /\ asked \subseteq 0 .. Horizon
  /\ i \in Nat
  /\ asked # {} => i <= NumChunks(start, end, chunk, MaxRet)

CmdInit ==
  /\ args \in Arguments
  /\ clock = Launch
  /\ pc = "config" /\ handler = "none" /\ signal = "none" /\ exit = "running"
  /\ start = Launch - DefaultBack /\ end = Launch
  /\ chunk = 0
  /\ i = 0 /\ asked = {}

-----------------------------------------------------------------------------
At(place) == exit = "running" /\ pc = place

Exit(how) == exit' = how /\ UNCHANGED << vars, args, clock, pc, handler, signal >>

\* The window of the copy and its chunks.
window == << start, end, chunk >>

GoTo(place) == pc' = place /\ UNCHANGED << i, asked, args, clock, handler, signal, exit >>

\* Time passes; after the arguments and the window nothing reads the clock.
CmdTick ==
  /\ exit = "running" /\ pc \notin {"copy", "serve"}
  /\ clock < Latest
  /\ clock' = clock + 1
  /\ UNCHANGED << vars, args, pc, handler, signal, exit >>

\* parseInputTime: seconds since the epoch, a duration before now, or a date.  A
\* flag that is not given leaves the default.
InputTime(arg, default) ==
  CASE arg.kind = "unix" -> arg.value * Second
    [] arg.kind = "back" -> clock - arg.value
    [] arg.kind = "date" -> arg.value
    [] arg.kind = "none" -> default

\* init: the file is read, or there is none that can be.
ReadConfig ==
  /\ At("config")
  /\ \/ /\ chunk' = ConfigChunk
        /\ GoTo("notify") /\ UNCHANGED << start, end >>
     \/ Exit("bad")

Notify ==
  /\ At("notify")
  /\ pc' = "end" /\ handler' = "starting"
  /\ UNCHANGED << vars, args, clock, signal, exit >>

\* A mutant of ParseEnd: the time goes to the start.
EndIsStart ==
  /\ At("end")
  /\ \/ args.end.kind = "bad" /\ Exit("bad")
     \/ /\ args.end.kind # "bad"
        /\ start' = InputTime(args.end, start)
        /\ GoTo("start") /\ UNCHANGED << end, chunk >>

ParseEnd ==
  /\ At("end")
  /\ \/ args.end.kind = "bad" /\ Exit("bad")
     \/ /\ args.end.kind # "bad"
        /\ end' = InputTime(args.end, end)
        /\ GoTo("start") /\ UNCHANGED << start, chunk >>

ParseStart ==
  /\ At("start")
  /\ \/ args.start.kind = "bad" /\ Exit("bad")
     \/ /\ args.start.kind # "bad"
        /\ start' = InputTime(args.start, start)
        /\ GoTo("chunk") /\ UNCHANGED << end, chunk >>

ParseChunk ==
  /\ At("chunk")
  /\ \/ args.chunk.kind = "bad" /\ Exit("bad")
     \/ /\ args.chunk.kind # "bad"
        /\ chunk' = IF args.chunk.kind = "none" THEN chunk ELSE args.chunk.value
        /\ GoTo("action") /\ UNCHANGED << start, end >>

-----------------------------------------------------------------------------
\* The switch over the actions; a copy of everything has the window of the policy.
GetFirstLastTime(duration) ==
  /\ end' = clock
  /\ start' = clock - (IF duration = 0 THEN MaxRet ELSE duration)

StartCopy ==
  /\ At("action") /\ args.action \in Copies
  /\ IF args.full
       THEN \E duration \in Durations : GetFirstLastTime(duration) /\ UNCHANGED chunk
       ELSE UNCHANGED window
  /\ GoTo("copy")

\* The monitors and the web server are started.  The initial replication comes
\* before that, if it is configured, and copies a window that is never reversed.
StartServing ==
  /\ At("action") /\ args.action = "hamonitor"
  /\ \/ GoTo("serve") /\ UNCHANGED window
     \/ chunk = 0 /\ Exit("panic")

\* The actions without a window, and those that main does not know.
OtherAction ==
  /\ At("action") /\ args.action \notin Copies \cup {"hamonitor"}
  /\ Exit("done")

\* No chunk duration divides by zero; a window that is reversed by two chunks or
\* more makes a list of negative length.
CopyPanics ==
  /\ At("copy")
  /\ chunk # 0 => NumChunks(start, end, chunk, MaxRet) < 0
  /\ Exit("panic")

CopyChunk ==
  /\ At("copy") /\ chunk # 0
  /\ AskChunk
  /\ UNCHANGED << args, clock, pc, handler, signal, exit >>

CopyEndsLate ==        \* a mutant
  /\ At("copy") /\ chunk # 0
  /\ NumChunks(start, end, chunk, MaxRet) > 0
  /\ i >= NumChunks(start, end, chunk, MaxRet)
  /\ Exit("done")

CopyEnds ==
  /\ At("copy") /\ chunk # 0
  /\ NumChunks(start, end, chunk, MaxRet) >= 0
  /\ i >= NumChunks(start, end, chunk, MaxRet)
  /\ Exit("done")

\* ListenAndServe returns an error: main returns, and the monitors end with it.  Or
\* the copy of a recovery divides by zero, in the supervisor's goroutine.
ServeFails ==
  /\ At("serve")
  /\ \/ Exit("done")
     \/ chunk = 0 /\ Exit("panic")

-----------------------------------------------------------------------------
\* The goroutine reaches its select.
HandlerReady ==
  /\ exit = "running" /\ handler = "starting"
  /\ handler' = "ready"
  /\ UNCHANGED << vars, args, clock, pc, signal, exit >>

\* The goroutine takes one signal, and waits for no other.
TakeSignal(s) ==
  /\ exit = "running" /\ handler = "ready"
  /\ handler' = IF s = "HUP" THEN "gone" ELSE "ending"
  /\ signal' = s
  /\ UNCHANGED << vars, args, clock, pc, exit >>

\* The channel has no buffer: a signal that comes when the goroutine does not wait
\* is lost.  (One that comes before it waits is lost too, and leaves no trace.)
LoseSignal(s) ==
  /\ exit = "running" /\ handler \in {"ending", "gone"}
  /\ signal' = s
  /\ UNCHANGED << vars, args, clock, pc, handler, exit >>

\* Before main asked for them, each signal ends the process.
Kill == exit = "running" /\ handler = "none" /\ Exit("killed")

EndBySignal == exit = "running" /\ handler = "ending" /\ Exit("signalled")

-----------------------------------------------------------------------------
Main ==
  \/ ReadConfig \/ Notify \/ ParseEnd \/ ParseStart \/ ParseChunk
  \/ StartCopy \/ StartServing \/ OtherAction
  \/ CopyPanics \/ CopyChunk \/ CopyEnds

CmdNext ==
  \/ Main \/ ServeFails \/ CmdTick
  \/ HandlerReady \/ EndBySignal \/ Kill
  \/ \E s \in Signals : TakeSignal(s) \/ LoseSignal(s)

CmdSpec == CmdInit /\ [][CmdNext]_cmdVars

\* Both goroutines are scheduled.
FairCmdSpec == CmdSpec /\ WF_cmdVars(Main) /\ WF_cmdVars(HandlerReady \/ EndBySignal)

-----------------------------------------------------------------------------
\* The times that the flags say, at the moment the process starts.
Said(arg, default) ==
  CASE arg.kind = "unix" -> arg.value * Second
    [] arg.kind = "back" -> Launch - arg.value
    [] arg.kind = "date" -> arg.value
    [] OTHER             -> default

\* A command fails in the middle only when the flags give no chunk duration or say
\* an end before the start - which -end alone does, when it is in the past: the
\* default start is 86400 nanoseconds before now.  That -start is read from the
\* clock later than -end does not reverse the window of a command that is quick.
\* (A response that is missing ends the process too: see Agent and HACluster.)
PanicOnlyIfReversed ==
  exit = "panic" =>
    \/ chunk = 0
    \/ ~args.full /\ Said(args.start, Launch - DefaultBack) > Said(args.end, Launch)
    \/ clock - Launch >= 2 * chunk

\* main.go: "Exiting for requested user SIGTERM", and the same for SIGINT.  A signal
\* that asks a process to end, sent when its goroutine waits for signals or later,
\* ends it; the init script of the package stops the service by a TERM.
TermEnds == signal \in {"TERM", "INT"} ~> exit # "running"

\* Every action but hamonitor ends, whatever the window, the chunk and the signals.
CommandReturns == <>(exit # "running" \/ pc = "serve")

=============================================================================
