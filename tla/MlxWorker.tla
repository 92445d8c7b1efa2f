------------------------------ MODULE MlxWorker ------------------------------
(***************************************************************************)
(* The panel on the Mac: the worker runs a generate job as a child process *)
(* in a session of its own (run_job, KIND_GENERATE, of worker.py), which   *)
(* computes under the lock of its checkpoint and writes the clip itself    *)
(* (cli.run_generate).  Beside it the page's chat may raise a local LLM,   *)
(* and to learn whether the GPU is busy it calls reconcile.                *)
(***************************************************************************)
EXTENDS PanelWorker

CONSTANTS Pid, NoPid

ASSUME MlxAssumption ==
    /\ Gate = "llm"
    /\ IsFiniteSet(Pid)
    /\ NoPid \notin Pid

VARIABLES
    gen,       \* the generator processes
    child,     \* the process run_job has started and not waited for
    stem,      \* the stem in the args run_job holds since it got the job
    llm,       \* a local LLM answers on its port
    chat,      \* where the page's chat turn is
    orphaned   \* history: workers that died while their child ran on

evars == <<gen, child, stem, llm, chat, orphaned>>
vars == <<qvars, wvars, evars>>

Free == [at |-> "free", job |-> NoJob, stem |-> NoStem]
Exits == {"ok", "bad"}
Live(p) == gen[p].at \in {"load", "diffuse", "save", "write"}

TypeOK ==
    /\ QTypeOK
    /\ wpc \in LoopPoints \cup RunPoints \cup {"assign", "wait"}
    /\ cur \in Job \cup {NoJob}
    /\ code \in BOOLEAN /\ claimed \in BOOLEAN /\ stopping \in BOOLEAN
    /\ stops \in Nat /\ kills \in Nat
    /\ gen \in [Pid -> [at: {"free", "load", "diffuse", "save", "write"} \cup Exits,
                        job: Job \cup {NoJob}, stem: Stem \cup {NoStem}]]
    /\ child \in Pid \cup {NoPid}
    /\ stem \in Stem \cup {NoStem}
    /\ llm \in BOOLEAN
    /\ chat \in {"off", "raise"}
    /\ orphaned \in Nat

Init ==
    /\ QInit
    /\ WInit
    /\ gen = [p \in Pid |-> Free]
    /\ child = NoPid
    /\ stem = NoStem
    /\ llm = FALSE
    /\ chat = "off"
    /\ orphaned = 0

-----------------------------------------------------------------------------
(* The worker.                                                             *)

PageSame == UNCHANGED <<llm, chat, orphaned>>

\* The Job object run_job works from is the one claim returned.
Loop ==
    /\ WLoop
    /\ stem' = IF cur' = NoJob THEN NoStem
               ELSE IF wpc = "claim" THEN file[cur'].stem ELSE stem
    /\ UNCHANGED <<gen, child>>
    /\ PageSame

\* _llm_holds_gpu.
LlmGate ==
    /\ wpc = "llm"
    /\ Go(IF llm THEN "top" ELSE "claim")
    /\ UNCHANGED qvars /\ UNCHANGED <<gen, child, stem>>
    /\ PageSame

\* The child runs before spawn returns.
Spawn ==
    /\ wpc = "body"
    /\ \E p \in Pid :
          /\ gen[p] = Free
          /\ gen' = [gen EXCEPT ![p] = [at |-> "load", job |-> cur, stem |-> stem]]
          /\ child' = p
    /\ Go("assign")
    /\ UNCHANGED qvars /\ UNCHANGED stem
    /\ PageSame

\* _current_child = proc: from here on the second signal finds the child.
Assign ==
    /\ wpc = "assign"
    /\ Go("wait")
    /\ UNCHANGED qvars /\ UNCHANGED <<gen, child, stem>>
    /\ PageSame

\* Mutant: only a child that exits with 0 is noticed.
WaitForSuccess ==
    /\ wpc = "wait"
    /\ gen[child].at = "ok"
    /\ Decide(TRUE)
    /\ gen' = [gen EXCEPT ![child] = Free]
    /\ child' = NoPid
    /\ UNCHANGED qvars /\ UNCHANGED stem
    /\ PageSame

Wait ==
    /\ wpc = "wait"
    /\ gen[child].at \in Exits
    /\ Decide(gen[child].at = "ok")
    /\ gen' = [gen EXCEPT ![child] = Free]
    /\ child' = NoPid
    /\ UNCHANGED qvars /\ UNCHANGED stem
    /\ PageSame

\* q.finish raises QueueError: the job is not in running/.  Nobody catches it,
\* and the process ends with its lock released.
FinishRaises ==
    /\ wpc = "finish"
    /\ dir[cur] # "running"
    /\ Forget("down")
    /\ stopping' = FALSE
    /\ stem' = NoStem
    /\ UNCHANGED <<stops, kills>> /\ UNCHANGED qvars /\ UNCHANGED <<gen, child>>
    /\ PageSame

Start == WStart /\ UNCHANGED evars
StopSignal == WStopSignal /\ UNCHANGED evars

-----------------------------------------------------------------------------
(* The generator.                                                          *)

GenSame == UNCHANGED <<child, stem>> /\ UNCHANGED wvars /\ PageSame
At(p, from, to) == gen[p].at = from /\ gen' = [gen EXCEPT ![p].at = to] /\ GenSame

SameRun(p, q) == gen[p].job = gen[q].job /\ gen[p].stem = gen[q].stem

\* Loading, and then the checkpoint's flock, which is not waited for: taken by
\* another process, the run is over (checkpoint_locked).
Lock(p) ==
    /\ UNCHANGED qvars
    /\ \/ At(p, "load", "diffuse") /\ ~\E q \in Pid : gen[q].at = "diffuse" /\ SameRun(p, q)
       \/ At(p, "load", "bad")

\* Diffusion and decoding end, or fail; the checkpoint's lock goes either way.
Diffused(p) == UNCHANGED qvars /\ (At(p, "diffuse", "save") \/ At(p, "diffuse", "bad"))

\* save_mp4 writes to the clip's own path.
SaveBegins(p) == At(p, "save", "write") /\ PutClip(gen[p].stem, "bad")

\* Then the .wav and the report; one of them may fail.
SaveEnds(p) ==
    \/ At(p, "write", "ok") /\ PutClip(gen[p].stem, "good")
    \/ At(p, "write", "bad") /\ \E d \in {"bad", "good"} : PutClip(gen[p].stem, d)

Reaped(p) ==
    /\ p # child
    /\ gen[p].at \in Exits
    /\ gen' = [gen EXCEPT ![p] = Free]
    /\ GenSame /\ UNCHANGED qvars

Generator(p) == Lock(p) \/ Diffused(p) \/ SaveBegins(p) \/ SaveEnds(p) \/ Reaped(p)

-----------------------------------------------------------------------------
(* Deaths.                                                                 *)

\* A child that runs is left alone.
Left == orphaned' = IF child # NoPid /\ Live(child) THEN orphaned + 1 ELSE orphaned

\* Whoever was running goes on without a worker, and without a lease.
Kill9 ==
    /\ WDie({cur})
    /\ child' = NoPid /\ stem' = NoStem
    /\ Left
    /\ UNCHANGED <<gen, llm, chat>>

\* Mutant: only caffeinate, the direct child, gets the signal.
SecondSignalParentOnly ==
    /\ stopping
    /\ WDie({cur})
    /\ child' = NoPid /\ stem' = NoStem
    /\ UNCHANGED gen
    /\ PageSame

\* The child's whole process group gets a SIGTERM first, once _current_child names it.
SecondSignal ==
    /\ stopping
    /\ WDie({cur})
    /\ \/ /\ wpc = "assign"
          /\ Left /\ UNCHANGED gen
       \/ /\ wpc # "assign"
          /\ gen' = [p \in Pid |-> IF p = child THEN Free ELSE gen[p]]
          /\ UNCHANGED orphaned
    /\ child' = NoPid /\ stem' = NoStem
    /\ UNCHANGED <<llm, chat>>

PowerCut ==
    /\ WDie({cur})
    /\ gen' = [p \in Pid |-> Free]
    /\ child' = NoPid /\ stem' = NoStem
    /\ llm' = FALSE /\ chat' = "off"
    /\ UNCHANGED orphaned

-----------------------------------------------------------------------------
(* The page.                                                               *)

Aside(A) == A /\ UNCHANGED <<wvars, gen, child, stem, orphaned>>

PageRequest == Aside(Page) /\ UNCHANGED <<llm, chat>>

\* A chat turn with a local model: _generation_running is reconcile(root).alive,
\* and reconcile moves whatever it finds without a lease.
ChatLook ==
    /\ chat = "off"
    /\ Aside(Reconcile)
    /\ chat' = IF Alive = {} THEN "raise" ELSE "off"
    /\ UNCHANGED llm

\* ensure_up, then the turn itself.
ChatRaise ==
    /\ chat = "raise"
    /\ chat' = "off"
    /\ llm' = TRUE
    /\ Aside(UNCHANGED qvars)

\* The person confirms POST /api/llm/unload.
Unload ==
    /\ llm
    /\ llm' = FALSE
    /\ Aside(UNCHANGED qvars) /\ UNCHANGED chat

WorkerStep == Loop \/ LlmGate \/ Spawn \/ Assign \/ Wait \/ FinishRaises \/ Start

Next ==
    \/ WorkerStep \/ StopSignal
    \/ \E p \in Pid : Generator(p)
    \/ Kill9 \/ SecondSignal \/ PowerCut
    \/ PageRequest \/ ChatLook \/ ChatRaise \/ Unload

Spec == Init /\ [][Next]_vars

\* The worker and the generators run, and somebody starts a dead worker again.
FairSpec == Spec /\ WF_vars(WorkerStep) /\ \A p \in Pid : WF_vars(Generator(p))

-----------------------------------------------------------------------------
(* The properties.                                                         *)

\* At most one generation holds the GPU, but for those that a worker left running by
\* dying of SIGKILL, or of a second signal between spawn's fork and the assignment of
\* _current_child (worker.py:1205 promises one, without the exceptions).
OneGeneration == Cardinality({p \in Pid : Live(p)}) <= 1 + orphaned

\* A job the worker took is filed or put back, chat turns and orphans or not.
RunningIsSettled == \A j \in Job : dir[j] = "running" ~> dir[j] # "running"

=============================================================================
