----------------------------- MODULE CopyLedger -----------------------------
(***************************************************************************)
(* What a call of SyncDBRP promises, without servers, requests, workers or *)
(* the arithmetic of chunks: a ledger of the points of its window.  Each   *)
(* of them is still to be asked for, or in a part that failed and is to be *)
(* repeated, or copied, or in a part that is reported as bad in the end -  *)
(* unless it was never going to be asked for, or was lost on the way.      *)
(*                                                                         *)
(* Module Sync, with the steps of the workers, implements it.              *)
(***************************************************************************)
EXTENDS TLAPS

VARIABLES
  source,              \* the points of the window that the master holds
  target,              \* the points of the window that the slave holds
  todo,                \* points of chunks that are not through yet
  failed,              \* points of bad chunks, to be repeated
  reported,            \* points of chunks that failed again
  skipped,             \* points that no query asks for
  lost                 \* points that the master's answers left out

ledger == << source, target, todo, failed, reported, skipped, lost >>

\* A call begins, and nothing is forgotten but what is skipped.
LedgerInit ==
  /\ source \subseteq target \cup todo \cup skipped
  /\ failed = {} /\ reported = {} /\ lost = {}

\* The slave gets points that the master holds, and loses none.
Written == target \subseteq target' /\ target' \subseteq target \cup source

\* Points of the present chunk arrive, and others are left out of an answer.
Progress ==
  /\ Written
  /\ lost \subseteq lost'
  /\ UNCHANGED << source, todo, failed, reported, skipped >>

\* The points of a chunk of the first or second pass that went well.
Through(chunk) == chunk \cap source \subseteq target' \cup lost

ChunkCopied ==
  /\ Written
  /\ todo' \subseteq todo /\ failed' \subseteq failed
  /\ Through(todo \ todo') /\ Through(failed \ failed')
  /\ UNCHANGED << source, reported, skipped, lost >>

ChunkFailed ==
  /\ Written
  /\ failed' = failed \cup (todo \ todo')
  /\ todo' \subseteq todo
  /\ UNCHANGED << source, reported, skipped, lost >>

ChunkGivenUp ==
  /\ Written
  /\ reported \cup (failed \ failed') \subseteq reported'
  /\ failed' \subseteq failed
  /\ UNCHANGED << source, todo, skipped, lost >>

\* A bad chunk is cut in smaller ones: their bounds are not asked for.
ChunkCut ==
  /\ failed' \subseteq failed /\ failed \ failed' \subseteq skipped
  /\ UNCHANGED << source, target, todo, reported, skipped, lost >>

LedgerNext ==
  Progress \/ ChunkCopied \/ ChunkFailed \/ ChunkGivenUp \/ ChunkCut

LedgerSpec == LedgerInit /\ [][LedgerNext]_ledger

-----------------------------------------------------------------------------
\* At any time each point of the master is accounted for.
Accounted ==
  source \subseteq target \cup todo \cup failed \cup reported \cup skipped \cup lost

\* No step of SyncDBRP forgets a point: when nothing is left to do and to repeat,
\* each point of the window is on the slave, in the report, or was never asked for.
THEOREM LedgerBalanced == LedgerSpec => []Accounted
<1>1. LedgerInit => Accounted
  BY DEF LedgerInit, Accounted
<1>2. Accounted /\ [LedgerNext]_ledger => Accounted'
  <2> SUFFICES ASSUME Accounted, [LedgerNext]_ledger PROVE Accounted'
    OBVIOUS
  <2>1. CASE Progress
    BY <2>1 DEF Progress, Written, Accounted
  <2>2. CASE ChunkCopied
    BY <2>2 DEF ChunkCopied, Written, Through, Accounted
  <2>3. CASE ChunkFailed
    BY <2>3 DEF ChunkFailed, Written, Accounted
  <2>4. CASE ChunkGivenUp
    BY <2>4 DEF ChunkGivenUp, Written, Accounted
  <2>5. CASE ChunkCut
    BY <2>5 DEF ChunkCut, Accounted
  <2>6. CASE UNCHANGED ledger
    BY <2>6 DEF ledger, Accounted
  <2>7. QED
    BY <2>1, <2>2, <2>3, <2>4, <2>5, <2>6 DEF LedgerNext
<1>3. QED
  BY <1>1, <1>2, PTL DEF LedgerSpec

=============================================================================
