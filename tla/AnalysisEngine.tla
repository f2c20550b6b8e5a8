--------------------------- MODULE AnalysisEngine ---------------------------
(***************************************************************************)
(* lib/analysis/engine.ts: one Stockfish worker for the whole app.  Calls  *)
(* of analyze are chained on a promise, a call that runs puts its resolver *)
(* into the single field "pending" and posts the position to the worker,   *)
(* and the next "bestmove" line resolves whatever is pending.  A failed    *)
(* start of the worker is remembered: every later call rejects.            *)
(***************************************************************************)
EXTENDS Integers, Sequences

CONSTANT MaxQueue  \* bound: analyses that wait at once

(* A page asks for two when it is opened.                                  *)
ASSUME MaxQueueAssumption == MaxQueue \in Nat /\ MaxQueue >= 2

VARIABLES
  boot,    \* ensureReady: "none", "booting", "ready" or "failed"
  queue,   \* analyses asked for and not yet settled: [kind, fen, beat]
  resolver,\* pending: the job whose promise the next bestmove resolves
  told     \* positions the worker was told to search and has not answered

engineVars == <<boot, queue, resolver, told>>

NoJob == [kind |-> "none"]

EngineInit == boot = "none" /\ queue = <<>> /\ resolver = NoJob /\ told = <<>>

Room(n) == Len(queue) + n <= MaxQueue

(* The first call starts the worker. *)
analyze(jobs) ==
  /\ queue' = queue \o jobs
  /\ boot' = IF boot = "none" THEN "booting" ELSE boot
  /\ UNCHANGED <<resolver, told>>

(* uciok and readyok, or an error before them. *)
WorkerBoots(ok) ==
  /\ boot = "booting"
  /\ boot' = IF ok THEN "ready" ELSE "failed"
  /\ UNCHANGED <<queue, resolver, told>>

\* mutant
StartSearchUnqueued ==
  /\ boot = "ready" /\ Len(queue) > Len(told)
  /\ resolver' = queue[Len(told) + 1]
  /\ told' = Append(told, resolver'.fen)
  /\ UNCHANGED <<boot, queue>>

(* The job at the head of the queue runs when the one before it is settled *)
StartSearch ==
  /\ boot = "ready" /\ queue # <<>> /\ resolver = NoJob
  /\ resolver' = Head(queue)
  /\ told' = Append(told, Head(queue).fen)
  /\ UNCHANGED <<boot, queue>>

(* handleLine of a bestmove: job is resolved with the analysis of fen. *)
BestMove(job, fen) ==
  /\ told # <<>> /\ resolver # NoJob
  /\ job = resolver /\ fen = Head(told)
  /\ resolver' = NoJob /\ told' = Tail(told) /\ queue' = Tail(queue)
  /\ UNCHANGED boot

(* run rejects, and useAnalysis answers null. *)
SearchRejected(job) ==
  /\ boot = "failed" /\ queue # <<>> /\ job = Head(queue)
  /\ queue' = Tail(queue)
  /\ UNCHANGED <<boot, resolver, told>>
=============================================================================
