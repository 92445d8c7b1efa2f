----------------------------- MODULE PanelWorker -----------------------------
(***************************************************************************)
(* The worker process of the panel: main_loop and run_job of               *)
(* h3_48gb/worker.py.  What is here is the part both engines share: the    *)
(* loop over the queue and the order lease - body - marker - unlease -     *)
(* finish.  The body of a generate job is the engine's: SglangWorker and   *)
(* MlxWorker give it, from control point "body" to Decide.                 *)
(*                                                                         *)
(* There is one worker: a second one fails on worker.lock and exits before *)
(* it touches the queue.  Each step below is one call into the queue, one  *)
(* read of a flag, or one write of a file; between two of them anybody     *)
(* else may run, and the process may die.                                  *)
(***************************************************************************)
EXTENDS JobQueue

CONSTANTS
    NoJob,
    Gate,       \* what follows the pause check: "claim", or "llm" on MLX
    MaxKills,   \* bound on kill -9, panics and second stop signals
    MaxStops    \* bound on first stop signals

ASSUME WorkerAssumption ==
    /\ NoJob \notin Job
    /\ Gate \in {"claim", "llm"}
    /\ MaxKills \in Nat /\ MaxStops \in Nat

VARIABLES
    wpc,       \* the worker's control point; "down": there is no worker
    cur,       \* run_job's job
    code,      \* run_job's exit_code = 0
    claimed,   \* cur came from claim, not from state.resumable
    stopping,  \* the stop event: a first signal has arrived
    stops,     \* how many first signals were sent
    kills      \* how many times the worker was killed

wvars == <<wpc, cur, code, claimed, stopping, stops, kills>>

LoopPoints == {"down", "top", "paused?", Gate, "claim"}
RunPoints  == {"lease", "body", "mark", "unlease", "finish", "drain"}

WInit ==
    /\ wpc = "down"
    /\ cur = NoJob
    /\ code = FALSE
    /\ claimed = FALSE
    /\ stopping = FALSE
    /\ stops = 0
    /\ kills = 0

-----------------------------------------------------------------------------
Go(pc) == wpc' = pc /\ UNCHANGED <<cur, code, claimed, stopping, stops, kills>>

Begin(j, fromClaim) ==
    /\ wpc' = "lease"
    /\ cur' = j
    /\ claimed' = fromClaim
    /\ UNCHANGED <<code, stopping, stops, kills>>

\* The body's outcome: run_job goes on to the marker.
Decide(ok) ==
    /\ wpc' = "mark"
    /\ code' = ok
    /\ UNCHANGED <<cur, claimed, stopping, stops, kills>>

\* Locals go with the process, or with the iteration.
Forget(pc) ==
    /\ wpc' = pc
    /\ cur' = NoJob
    /\ code' = FALSE
    /\ claimed' = FALSE

-----------------------------------------------------------------------------
(* main_loop                                                               *)

WStart ==
    /\ wpc = "down"
    /\ wpc' = "top"
    /\ stopping' = FALSE
    /\ UNCHANGED <<cur, code, claimed, stops, kills>>
    /\ UNCHANGED qvars

\* The loop's condition: a set stop event ends the process, and only here.
WExit ==
    /\ wpc = "top"
    /\ stopping
    /\ Go("down")
    /\ UNCHANGED qvars

\* Mutant: the loop does not look at state.resumable.
WReconcileNoResume ==
    /\ wpc = "top"
    /\ ~stopping
    /\ Reconcile
    /\ Go(IF Alive # {} THEN "top" ELSE "paused?")

WReconcile ==
    /\ wpc = "top"
    /\ ~stopping
    /\ Reconcile
    /\ \/ Alive # {} /\ Go("top")
       \/ Alive = {} /\ Resumable = {} /\ Go("paused?")
       \/ /\ Alive = {}
          /\ \E j \in Resumable : (\A i \in Resumable : j <= i) /\ Begin(j, FALSE)

\* Mutant: the pause test is inverted.
WPauseCheckInverted ==
    /\ wpc = "paused?"
    /\ Go(IF paused THEN Gate ELSE "top")
    /\ UNCHANGED qvars

WPauseCheck ==
    /\ wpc = "paused?"
    /\ Go(IF paused THEN "top" ELSE Gate)
    /\ UNCHANGED qvars

WClaim ==
    /\ wpc = "claim"
    /\ \E j \in Job : Claim(j) /\ Begin(j, TRUE)

WClaimNone ==
    /\ wpc = "claim"
    /\ ~\E j \in Job : Claimable(j)
    /\ Go("top")
    /\ UNCHANGED qvars

-----------------------------------------------------------------------------
(* run_job                                                                 *)

WLease ==
    /\ wpc = "lease"
    /\ TakeLease(cur)
    /\ Go("body")

WMark ==
    /\ wpc = "mark"
    /\ WriteMarker(cur, code)
    /\ Go("unlease")

WUnlease ==
    /\ wpc = "unlease"
    /\ DropLease({cur})
    /\ Go("finish")

\* pause_if_drained follows run_job only for a job that claim returned.
WFinish ==
    /\ wpc = "finish"
    /\ Finish(cur, code)
    /\ IF claimed THEN Go("drain")
       ELSE Forget("top") /\ UNCHANGED <<stopping, stops, kills>>

WDrain ==
    /\ wpc = "drain"
    /\ PauseIfDrained
    /\ Forget("top")
    /\ UNCHANGED <<stopping, stops, kills>>

WLoop ==
    \/ WExit \/ WReconcile \/ WPauseCheck \/ WClaim \/ WClaimNone
    \/ WLease \/ WMark \/ WUnlease \/ WFinish \/ WDrain

-----------------------------------------------------------------------------
(* Signals.  The first one only sets the event.                            *)

WStopSignal ==
    /\ wpc # "down"
    /\ ~stopping
    /\ stops < MaxStops
    /\ stopping' = TRUE
    /\ stops' = stops + 1
    /\ UNCHANGED <<wpc, cur, code, claimed, kills>>
    /\ UNCHANGED qvars

\* kill -9, a panic, the default handler after a second signal, or an exception
\* run_job lets through (its log or its marker cannot be written): the flocks
\* the process held (S) go with it, its writes stay.
WDie(S) ==
    /\ wpc # "down"
    /\ kills < MaxKills
    /\ kills' = kills + 1
    /\ Forget("down")
    /\ stopping' = FALSE
    /\ UNCHANGED stops
    /\ DropLease(S)

-----------------------------------------------------------------------------
(* The page's requests that touch the queue and no other part of a worker. *)

Page ==
    \/ \E j \in Job, s \in Stem : Submit(j, s) \/ Update(j, s)
    \/ \E j \in Job : SubmitKilled(j) \/ MoveToFront(j) \/ Cancel(j) \/ DeleteFinished(j)
    \/ \E p \in BOOLEAN : p # paused /\ SetPaused(p)
=============================================================================
