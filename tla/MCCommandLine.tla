--------------------------- MODULE MCCommandLine ---------------------------
(***************************************************************************)
(* The instance of CommandLine for model checking.                         *)
(***************************************************************************)
EXTENDS CommandLine

Flag(kind, values) == {[kind |-> kind, value |-> v] : v \in values}

SomeTimes ==
  Flag("none", {0}) \cup Flag("bad", {0}) \cup Flag("unix", {1, 3})
    \cup Flag("back", {0, 4, 7}) \cup Flag("date", 0 .. Horizon)

SomeChunks ==
  Flag("none", {0}) \cup Flag("bad", {0}) \cup Flag("duration", {0, 2, 4, 6, 9})

\* No flag is given but the action.
NoTimes  == Flag("none", {0})
NoChunks == Flag("none", {0})

=============================================================================
