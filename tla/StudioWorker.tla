---------------------------- MODULE StudioWorker ----------------------------
(***************************************************************************)
(* The studio's tasks (h3_48gb/studio): rows of SQLite, written by the API *)
(* process (enqueue, cancel) and by one worker process that takes them one *)
(* at a time, waits for the card, submits to ComfyUI, follows, fetches and *)
(* verifies.                                                               *)
(*                                                                         *)
(* Every step is one transaction or one request; the press of "cancel" and *)
(* the engine move between them.  The worker may die anywhere and is       *)
(* started again; an exception may escape one task (`Raise`).  MaxFaults   *)
(* bounds deaths and exceptions together, MaxStatusErrors is the code's    *)
(* MAX_STATUS_ERRORS, and a task is retried once (MAX_ATTEMPTS is 2).      *)
(*                                                                         *)
(* Every kind built today is a picture of one priority: the queue is in    *)
(* the order of the rows, and a task is its row number.                    *)
(***************************************************************************)
EXTENDS Naturals, FiniteSets

CONSTANTS NTasks, MaxFaults, MaxStatusErrors

ASSUME StudioAssumption ==
    NTasks \in Nat /\ MaxFaults \in Nat /\ MaxStatusErrors \in Nat \ {0}

Task == 1..NTasks
NoTask == 0

VARIABLES
    status,    \* the task table: one row per task,
    pressed,   \* those whose cancel_requested_at is set,
    attempts,
    ref,       \* what engine_ref names: a prompt, a file of the output folder
    restarted, \* those whose engine was started after the stamps they carry
    pc,        \* the worker process,
    cur,       \* its task,
    from,      \* who goes on when the task is left: the loop, or a phase of recover,
    todo,      \* what recover still has to do,
    got,       \* the ref it was answered,
    errors,    \* and how often the engine did not answer
    asked,     \* IdleRelease._asked
    acquired,  \* gate.acquired: we took the card since the last release
    engine,    \* ComfyUI's process: "off", "starting", "up"
    own,       \* the dispatcher's record of it names us
    prompt,    \* ComfyUI's last prompt of the task: its queue and history
    files,     \* the tasks whose output folder holds a result
    faults,    \* bound: deaths and exceptions so far
    doubled,   \* history: submitted while an earlier copy was there or on its way
    blind,     \* history: a recovery failed at its first transaction, and none ended since
    slipped    \* history: the gate was left while our engine was still starting

rows == <<status, pressed, attempts, ref, restarted>>
worker == <<pc, cur, from, todo, got, errors>>
idle == <<asked, acquired, slipped>>
comfy == <<engine, own, prompt, files>>
bounds == <<faults, doubled, blind>>
vars == <<rows, worker, idle, comfy, bounds>>

Ends == {"succeeded", "failed", "cancelled"}
Waiting == {"waiting_gpu", "waiting_ready"}
Accepted == {"running", "cancelling", "downloading", "verifying"}
OnEngine == Accepted \cup {"waiting_ready", "submitting"}
Statuses == Ends \cup Waiting \cup Accepted
            \cup {"new", "queued", "submitting", "submit_unknown"}
Places == {"dead", "recover", "cut", "rows", "loop", "spec", "gate", "probe", "submit", "answer",
           "ask", "adopt", "regate", "follow", "poll", "find", "lost", "download",
           "verify", "stop", "stopwait"}
Refs == {"none", "prompt", "file"}

\* An engine that starts is younger than the stamps the worker may still compare:
\* engine_submitted_at and, before it is written, submit_attempt_at.
Stamped(t) ==
    \/ status[t] \in Accepted \cup {"submitting"}
    \/ status[t] = "submit_unknown" /\ t \in todo \cup {cur}
NewEngine ==
    /\ restarted' = restarted \cup {t \in Task : Stamped(t)}
    /\ UNCHANGED <<status, pressed, attempts, ref>>

Listed == {"live", "done", "failed", "stopped"}

TypeOK ==
    /\ status \in [Task -> Statuses] /\ pressed \in SUBSET Task
    /\ attempts \in [Task -> 0..1] /\ ref \in [Task -> Refs]
    /\ restarted \in SUBSET Task
    /\ pc \in Places /\ cur \in Task \cup {NoTask} /\ from \in {"loop", "cut", "rows"}
    /\ todo \in SUBSET Task /\ got \in Refs /\ errors \in 0..(MaxStatusErrors - 1)
    /\ asked \in BOOLEAN /\ acquired \in BOOLEAN
    /\ engine \in {"off", "starting", "up"} /\ own \in BOOLEAN
    /\ prompt \in [Task -> Listed \cup {"none", "sent"}]
    /\ files \in SUBSET Task
    /\ faults \in 0..MaxFaults /\ doubled \in SUBSET Task
    /\ blind \in BOOLEAN /\ slipped \in BOOLEAN

Init ==
    /\ status = [t \in Task |-> "new"] /\ pressed = {} /\ attempts = [t \in Task |-> 0]
    /\ ref = [t \in Task |-> "none"] /\ restarted = {}
    /\ pc = "recover" /\ cur = NoTask /\ from = "loop" /\ todo = {} /\ got = "none"
    /\ errors = 0
    /\ asked = FALSE /\ acquired = FALSE /\ slipped = FALSE
    /\ engine = "off" /\ own = FALSE
    /\ prompt = [t \in Task |-> "none"] /\ files = {}
    /\ faults = 0 /\ doubled = {} /\ blind = FALSE

At(place) == pc = place
Goto(place) == pc' = place /\ UNCHANGED <<cur, from, todo, got, errors>>
Afresh(place) ==
    pc' = place /\ cur' = NoTask /\ from' = "loop" /\ todo' = {} /\ got' = "none" /\ errors' = 0
Leave ==
    /\ pc' = from /\ cur' = NoTask /\ got' = "none" /\ errors' = 0
    /\ UNCHANGED <<from, todo>>
Status(t, s) ==
    status' = [status EXCEPT ![t] = s] /\ UNCHANGED <<pressed, attempts, ref, restarted>>
\* The ref of a task at rest is kept in the row and read by nobody: left out here.
End(t, s) ==
    /\ status' = [status EXCEPT ![t] = s]
    /\ ref' = [ref EXCEPT ![t] = "none"] /\ restarted' = restarted \ {t}
    /\ UNCHANGED <<pressed, attempts>>
\* `_unknown`, `_fail`, `_cancelled`: written whatever the row says by then.
Unknown == End(cur, "submit_unknown") /\ Leave
Fail == End(cur, "failed") /\ Leave
Cancelled == End(cur, "cancelled") /\ Leave

-----------------------------------------------------------------------------
(* The API process                                                         *)

Enqueue(t) ==
    /\ status[t] = "new"
    /\ \A u \in Task : u < t => status[u] # "new"
    /\ Status(t, "queued")
    /\ UNCHANGED <<worker, idle, comfy, bounds>>

\* cancel_task: nobody follows a queued task nor one in submit_unknown, it ends here.
Press(t) ==
    /\ status[t] \notin Ends \cup {"new"}
    /\ pressed' = pressed \cup {t}
    /\ IF status[t] \in {"queued", "submit_unknown"}
       THEN /\ status' = [status EXCEPT ![t] = "cancelled"]
            /\ ref' = [ref EXCEPT ![t] = "none"] /\ restarted' = restarted \ {t}
       ELSE UNCHANGED <<status, ref, restarted>>
    /\ UNCHANGED <<attempts, worker, idle, comfy, bounds>>

-----------------------------------------------------------------------------
(* After a restart                                                         *)

\* Mutant: only a task that waits for the card is queued again.
RecoverWaitingGpu ==
    /\ At("recover")
    /\ status' = [t \in Task |->
          IF status[t] = "waiting_gpu" THEN "queued"
          ELSE IF status[t] = "submitting" THEN "submit_unknown" ELSE status[t]]
    /\ pc' = "cut" /\ from' = "cut" /\ todo' = {t \in Task : status[t] = "submitting"}
    /\ UNCHANGED <<pressed, attempts, ref, restarted, cur, got, errors, idle, comfy, bounds>>

\* The first transaction.  `_recovered` is set before it.
Recover ==
    /\ At("recover")
    /\ status' = [t \in Task |->
          IF status[t] \in Waiting /\ t \in pressed THEN "cancelled"
          ELSE IF status[t] \in Waiting THEN "queued"
          ELSE IF status[t] = "submitting" THEN "submit_unknown" ELSE status[t]]
    /\ pc' = "cut" /\ from' = "cut" /\ todo' = {t \in Task : status[t] = "submitting"}
    /\ UNCHANGED <<pressed, attempts, ref, restarted, cur, got, errors, idle, comfy, bounds>>

RecoverFails ==
    /\ At("recover")
    /\ faults < MaxFaults
    /\ faults' = faults + 1
    /\ blind' = TRUE
    /\ Afresh("loop")
    /\ UNCHANGED <<rows, idle, comfy, doubled>>

\* What `find` may answer: the queue, the history, then the files; not seeing the
\* engine is an error, unless the files are there.
Find(t) ==
    IF engine = "up" /\ prompt[t] \in Listed
    THEN {"prompt", IF t \in files THEN "file" ELSE "error"}
    ELSE IF t \in files THEN {"file"}
    ELSE IF engine = "up" THEN {"none", "error"} ELSE {"error"}

\* _resolve_cut asks once; "could not ask" leaves the task as it is.
CutFind ==
    /\ At("cut")
    /\ \E t \in todo : \E found \in Find(t) :
         /\ todo' = todo \ {t}
         /\ IF found \in {"none", "error"} THEN UNCHANGED <<pc, cur, got>>
            ELSE pc' = "adopt" /\ cur' = t /\ got' = found
    /\ UNCHANGED <<from, errors, rows, idle, comfy, bounds>>

\* Mutant: a cancel that was under way is not carried on.
RecoverRowsRunning ==
    /\ At("cut") /\ todo = {}
    /\ pc' = "rows" /\ from' = "rows"
    /\ todo' = {t \in Task : status[t] = "running" /\ ref[t] # "none"}
    /\ UNCHANGED <<cur, got, errors, rows, idle, comfy, bounds>>

RecoverRows ==
    /\ At("cut") /\ todo = {}
    /\ pc' = "rows" /\ from' = "rows"
    /\ todo' = {t \in Task : status[t] \in Accepted /\ ref[t] # "none"}
    /\ UNCHANGED <<cur, got, errors, rows, idle, comfy, bounds>>

Resume ==
    /\ At("rows")
    /\ \E t \in todo : pc' = "regate" /\ cur' = t /\ todo' = todo \ {t}
    /\ UNCHANGED <<from, got, errors, rows, idle, comfy, bounds>>

Recovered ==
    /\ At("rows") /\ todo = {}
    /\ Afresh("loop")
    /\ blind' = FALSE
    /\ UNCHANGED <<rows, idle, comfy, faults, doubled>>

-----------------------------------------------------------------------------
(* The loop                                                                *)

Queued == {t \in Task : status[t] = "queued"}

\* _claim: cancelled ones met on the way end here.
Claim ==
    /\ At("loop")
    /\ \E t \in Queued :
         /\ t \notin pressed
         /\ \A u \in Queued : u < t => u \in pressed
         /\ status' = [u \in Task |->
               IF u = t THEN "waiting_gpu"
               ELSE IF u \in Queued /\ u < t THEN "cancelled" ELSE status[u]]
         /\ pc' = "spec" /\ cur' = t
    /\ UNCHANGED <<pressed, attempts, ref, restarted, from, todo, got, errors, idle, comfy, bounds>>

\* The inputs build, or they do not.
Build ==
    /\ At("spec")
    /\ Fail \/ (Goto("gate") /\ UNCHANGED rows)
    /\ UNCHANGED <<idle, comfy, bounds>>

EngineGone == [t \in Task |-> "none"]

\* 15 minutes without a task: a restarted worker asks /status whether an engine of
\* its own is up, once, and only an answer counts; then it releases what it has.
IdleAsks ==
    /\ At("loop") /\ Queued = {}
    /\ ~acquired /\ ~asked
    /\ asked' = TRUE
    /\ acquired' = own
    /\ UNCHANGED <<rows, worker, slipped, comfy, bounds>>

IdleReleases ==
    /\ At("loop") /\ Queued = {}
    /\ acquired
    /\ acquired' = FALSE
    /\ IF own THEN engine' = "off" /\ own' = FALSE /\ prompt' = EngineGone
              ELSE UNCHANGED <<engine, own, prompt>>
    /\ UNCHANGED <<rows, worker, asked, slipped, files, bounds>>

-----------------------------------------------------------------------------
(* The gate, for a new task and for one that is followed on                *)

InGate == At("gate") \/ At("regate")

\* "starting": the dispatcher begins our engine, and the wait goes on.
GateStarts ==
    /\ InGate
    /\ engine = "off"
    /\ engine' = "starting" /\ own' = TRUE
    /\ NewEngine
    /\ UNCHANGED <<worker, idle, prompt, files, bounds>>

\* "ready", and cool: the card is ours.
GateReady ==
    /\ InGate
    /\ engine = "up" /\ own
    /\ acquired' = TRUE /\ slipped' = FALSE
    /\ IF At("gate") THEN Status(cur, "waiting_ready") /\ Goto("probe")
                     ELSE UNCHANGED rows /\ Goto("follow")
    /\ UNCHANGED <<asked, comfy, bounds>>

\* A press ends the wait, for the card or (acquired) for it to cool down.
GateCancelled ==
    /\ InGate
    /\ cur \in pressed
    /\ \/ UNCHANGED acquired
       \/ engine = "up" /\ own /\ acquired' = TRUE
    /\ slipped' = (own /\ ~acquired')
    /\ IF At("gate") THEN Cancelled
                     ELSE Status(cur, "cancelling") /\ Goto("stop")
    /\ UNCHANGED <<asked, comfy, bounds>>

\* The engine died, or did not answer in time and was stopped: "failed".  A task that
\* was followed on keeps its ref (_crashed).
GateFails ==
    /\ InGate
    /\ engine = "off" \/ own
    /\ IF At("gate") THEN Fail ELSE Unknown
    /\ engine' = "off" /\ own' = FALSE /\ prompt' = EngineGone /\ slipped' = FALSE
    /\ UNCHANGED <<asked, acquired, files, bounds>>

-----------------------------------------------------------------------------
(* To the engine                                                           *)

\* A foreign task in ComfyUI's queue is waited for.
ProbeReady == engine = "up" /\ \A u \in Task \ {cur} : prompt[u] # "live"

\* `submitting` and submit_attempt_at are written in the transaction that looks at
\* the press once more; READY_TIMEOUT_SECONDS fail the task.
Probe ==
    /\ At("probe")
    /\ \/ cur \in pressed /\ Cancelled
       \/ /\ ProbeReady /\ cur \notin pressed
          /\ status' = [status EXCEPT ![cur] = "submitting"]
          /\ restarted' = restarted \ {cur}
          /\ UNCHANGED <<pressed, attempts, ref>>
          /\ Goto("submit")
       \/ Fail
    /\ UNCHANGED <<idle, comfy, bounds>>

\* A template that changed or an upload that fails: refused here, nothing was sent.
Submit ==
    /\ At("submit")
    /\ \/ Fail /\ UNCHANGED <<prompt, doubled>>
       \/ /\ Goto("answer")
          /\ prompt' = IF engine = "up" THEN [prompt EXCEPT ![cur] = "sent"] ELSE prompt
          /\ doubled' = IF prompt[cur] \in {"sent", "live"} THEN doubled \cup {cur}
                        ELSE doubled
          /\ UNCHANGED rows
    /\ UNCHANGED <<idle, engine, own, files, faults, blind>>

Heard(found) == pc' = "adopt" /\ got' = found /\ UNCHANGED <<cur, from, todo, errors>>

\* The ref; a refusal (4xx); a timeout or a broken connection, at any moment.
Answer ==
    /\ At("answer")
    /\ \/ /\ prompt[cur] \in Listed
          /\ Heard("prompt")
          /\ UNCHANGED <<rows, prompt>>
       \/ /\ prompt[cur] = "sent"
          /\ prompt' = [prompt EXCEPT ![cur] = "none"]
          /\ Fail
       \/ Status(cur, "submit_unknown") /\ Goto("ask") /\ UNCHANGED prompt
    /\ UNCHANGED <<idle, engine, own, files, bounds>>

\* Mutant: not found means not taken, and the task is queued again.
AskAgain ==
    /\ At("ask")
    /\ \E found \in Find(cur) :
         IF found \in {"none", "error"} THEN Status(cur, "queued") /\ Leave
         ELSE Heard(found) /\ UNCHANGED rows
    /\ UNCHANGED <<idle, comfy, bounds>>

\* One look after an uncertain submit: not found stays submit_unknown.
Ask ==
    /\ At("ask")
    /\ \E found \in Find(cur) :
         IF found \in {"none", "error"} THEN Leave ELSE Heard(found)
    /\ UNCHANGED <<rows, idle, comfy, bounds>>

\* engine_ref and `running` in one transaction, whatever the row says by now.
Adopt ==
    /\ At("adopt")
    /\ status' = [status EXCEPT ![cur] = "running"] /\ ref' = [ref EXCEPT ![cur] = got]
    /\ restarted' = IF from = "cut" THEN restarted ELSE restarted \ {cur}
    /\ pc' = IF from = "cut" THEN "regate" ELSE "follow"
    /\ got' = "none"
    /\ UNCHANGED <<pressed, attempts, cur, from, todo, errors, idle, comfy, bounds>>

-----------------------------------------------------------------------------
(* Following                                                               *)

Follow ==
    /\ At("follow")
    /\ IF cur \in pressed THEN Status(cur, "cancelling") /\ Goto("stop")
                          ELSE UNCHANGED rows /\ Goto("poll")
    /\ UNCHANGED <<idle, comfy, bounds>>

\* What `status` says of the row's ref.
Says(t) ==
    IF ref[t] = "file" THEN {"done"}
    ELSE IF engine # "up" THEN {"error"}
    ELSE {"error", IF prompt[t] \in Listed THEN prompt[t] ELSE "lost"}

Polled(place) == pc' = place /\ errors' = 0 /\ UNCHANGED <<cur, from, todo, got>>

\* Mutant: errors are never counted out.
PollForEver ==
    /\ At("poll")
    /\ \E s \in Says(cur) :
         \/ s = "error" /\ Goto("follow") /\ UNCHANGED rows
         \/ s = "live" /\ Polled("follow") /\ UNCHANGED rows
         \/ s = "done" /\ Polled("download") /\ Status(cur, "downloading")
         \/ s \in {"failed", "stopped"} /\ Fail
         \/ s = "lost" /\ Polled("find") /\ UNCHANGED rows
    /\ UNCHANGED <<idle, comfy, bounds>>

Missed ==
    /\ errors + 1 < MaxStatusErrors
    /\ pc' = "follow" /\ errors' = errors + 1
    /\ UNCHANGED <<cur, from, todo, got, rows>>

Poll ==
    /\ At("poll")
    /\ \E s \in Says(cur) :
         \/ s = "error" /\ Missed
         \/ s = "error" /\ errors + 1 >= MaxStatusErrors /\ Unknown
         \/ s = "live" /\ Polled("follow") /\ UNCHANGED rows
         \/ s = "done" /\ Polled("download") /\ Status(cur, "downloading")
         \/ s \in {"failed", "stopped"} /\ Fail
         \/ s = "lost" /\ Polled("find") /\ UNCHANGED rows
    /\ UNCHANGED <<idle, comfy, bounds>>

\* `lost`: the files may still be there.  A prompt once off ComfyUI's lists does not
\* come back, so `find` never names the ref that was just lost.
FollowFind ==
    /\ At("find")
    /\ \E found \in Find(cur) :
         \/ found = "error" /\ Unknown
         \/ /\ found \in {"prompt", "file"}
            /\ ref' = [ref EXCEPT ![cur] = found]
            /\ UNCHANGED <<status, pressed, attempts, restarted>>
            /\ Goto("follow")
         \/ found = "none" /\ Goto("lost") /\ UNCHANGED rows
    /\ UNCHANGED <<idle, comfy, bounds>>

\* restarted_since: no record of the engine is a proof too; no answer is none.
\* The press is looked at again in the transaction that queues the task.
Lost ==
    /\ At("lost")
    /\ \/ Unknown
       \/ /\ engine = "off" \/ cur \in restarted
          /\ \/ cur \in pressed /\ Cancelled
             \/ cur \notin pressed /\ attempts[cur] = 1 /\ Fail
             \/ /\ cur \notin pressed /\ attempts[cur] = 0
                /\ status' = [status EXCEPT ![cur] = "queued"]
                /\ attempts' = [attempts EXCEPT ![cur] = 1]
                /\ ref' = [ref EXCEPT ![cur] = "none"] /\ restarted' = restarted \ {cur}
                /\ UNCHANGED pressed
                /\ Leave
    /\ UNCHANGED <<idle, comfy, bounds>>

Download ==
    /\ At("download")
    /\ \/ Fail
       \/ /\ cur \in files
          /\ ref[cur] = "file" \/ (engine = "up" /\ prompt[cur] = "done")
          /\ Status(cur, "verifying") /\ Goto("verify")
    /\ UNCHANGED <<idle, comfy, bounds>>

\* Mutant: the result is attached though cancel was pressed.
VerifyAttaches ==
    /\ At("verify")
    /\ \/ Fail
       \/ End(cur, "succeeded") /\ Leave
    /\ UNCHANGED <<idle, comfy, bounds>>

\* One transaction: the press, the check of the files, the asset, `succeeded`.
Verify ==
    /\ At("verify")
    /\ IF cur \in pressed THEN Cancelled
       ELSE Fail \/ (End(cur, "succeeded") /\ Leave)
    /\ UNCHANGED <<idle, comfy, bounds>>

\* The engine is asked to stop; an error is swallowed.
StopAsk ==
    /\ At("stop")
    /\ Goto("stopwait")
    /\ \/ UNCHANGED prompt
       \/ /\ engine = "up" /\ prompt[cur] = "live" /\ ref[cur] = "prompt"
          /\ \E s \in {"stopped", "none"} : prompt' = [prompt EXCEPT ![cur] = s]
    /\ UNCHANGED <<rows, idle, engine, own, files, bounds>>

\* Confirmed, finished, or unconfirmed after CANCEL_WAIT_SECONDS: cancelled.
StopWait ==
    /\ At("stopwait")
    /\ Cancelled
    /\ UNCHANGED <<idle, comfy, bounds>>

Step ==
    \/ Recover \/ CutFind \/ RecoverRows \/ Resume \/ Recovered
    \/ Claim \/ Build \/ IdleAsks \/ IdleReleases
    \/ GateStarts \/ GateReady \/ GateCancelled \/ GateFails
    \/ Probe \/ Submit \/ Answer \/ Ask \/ Adopt
    \/ Follow \/ Poll \/ FollowFind \/ Lost \/ Download \/ Verify \/ StopAsk \/ StopWait

-----------------------------------------------------------------------------
(* Exceptions, deaths, the engine, other people                            *)

\* Anything escapes the task (a write that waited 5 s for the database, say).
Raise ==
    /\ cur # NoTask /\ faults < MaxFaults
    /\ faults' = faults + 1
    /\ IF status[cur] \in Ends \cup {"queued", "submit_unknown"}
       THEN UNCHANGED rows /\ Leave
       ELSE IF ref[cur] # "none" THEN Unknown ELSE Fail
    /\ slipped' = (slipped \/ (InGate /\ own /\ ~acquired))
    /\ UNCHANGED <<asked, acquired, comfy, doubled, blind>>

Die ==
    /\ ~At("dead") /\ faults < MaxFaults
    /\ faults' = faults + 1
    /\ Afresh("dead")
    /\ asked' = FALSE /\ acquired' = FALSE /\ slipped' = FALSE
    /\ UNCHANGED <<rows, comfy, doubled, blind>>

Start ==
    /\ At("dead")
    /\ Goto("recover")
    /\ UNCHANGED <<rows, idle, comfy, bounds>>

EngineBoots ==
    /\ engine = "starting"
    /\ engine' = "up"
    /\ UNCHANGED <<rows, worker, idle, own, prompt, files, bounds>>

\* It dies, or is released by hand: queue and history are gone, the files stay.
EngineEnds ==
    /\ engine # "off"
    /\ engine' = "off" /\ own' = FALSE /\ prompt' = EngineGone
    /\ slipped' = FALSE
    /\ UNCHANGED <<rows, worker, asked, acquired, files, bounds>>

\* Another client (scripts/make_image.py) has it started for itself.
OtherStarts ==
    /\ engine = "off"
    /\ engine' = "starting"
    /\ NewEngine
    /\ UNCHANGED <<worker, idle, own, prompt, files, bounds>>

\* The request arrives, late or not, or never does.
EngineTakes(t) ==
    /\ engine = "up" /\ prompt[t] = "sent"
    /\ \E s \in {"live", "none"} : prompt' = [prompt EXCEPT ![t] = s]
    /\ UNCHANGED <<rows, worker, idle, engine, own, files, bounds>>

\* The files are written just before the history says "done".
EngineFinishes(t) ==
    /\ prompt[t] = "live"
    /\ \/ prompt' = [prompt EXCEPT ![t] = "done"] /\ files' = files \cup {t}
       \/ prompt' = [prompt EXCEPT ![t] = "failed"] /\ UNCHANGED files
    /\ UNCHANGED <<rows, worker, idle, engine, own, bounds>>

\* A person interrupts the prompt, or takes it off ComfyUI's queue.
Meddle(t) ==
    /\ prompt[t] = "live"
    /\ \E s \in {"stopped", "none"} : prompt' = [prompt EXCEPT ![t] = s]
    /\ UNCHANGED <<rows, worker, idle, engine, own, files, bounds>>

World ==
    \/ EngineBoots \/ EngineEnds \/ OtherStarts
    \/ \E t \in Task : EngineTakes(t) \/ EngineFinishes(t) \/ Meddle(t)

Next ==
    \/ Step \/ Start \/ World
    \/ \E t \in Task : Enqueue(t) \/ Press(t)
    \/ RecoverFails \/ Raise \/ Die

\* The worker is scheduled and started again (the container's restart policy); every
\* round of the gate looks at the press; ComfyUI computes what it has taken.
Fairness ==
    /\ WF_vars(Step) /\ WF_vars(Start) /\ WF_vars(GateCancelled)
    /\ WF_vars(\E t \in Task : EngineFinishes(t))

Spec == Init /\ [][Next]_vars /\ Fairness

-----------------------------------------------------------------------------
(* What should hold                                                        *)

\* "Never a blind resubmit": a task is not sent while an earlier copy of it is in
\* ComfyUI or still on its way there, whoever dies and whatever is lost.
OneCopy == doubled = {}

\* A press of "cancel" holds: the result of a cancelled task is never attached, even
\* if the engine finishes first.
NeverAttached ==
    [][\A t \in Task : t \in pressed /\ status'[t] = "succeeded"
          => status[t] = "succeeded"]_vars

\* The worker at rest has forgotten nobody: every task is queued, at an end or in the
\* hands of a person, unless the first transaction of its recovery failed.
NoneAbandoned ==
    At("loop") /\ ~blind =>
        \A t \in Task : status[t] \in Ends \cup {"new", "queued", "submit_unknown"}

\* "One GPU task at a time": no two rows at once are on the engine.
OneOnEngine ==
    blind \/ \A t, u \in Task :
        status[t] \in OnEngine /\ status[u] \in OnEngine => t = u

\* An end is an end, but for one: a task cancelled while the worker still asks ComfyUI
\* about its uncertain submit is shown running again until it is stopped.
EndsStay ==
    [][\A t \in Task : status[t] \in Ends =>
          \/ status'[t] = status[t]
          \/ /\ status[t] = "cancelled" /\ status'[t] = "running"
             /\ At("adopt") /\ cur = t]_vars

\* The idle worker can give back the engine it had started, unless it left the gate
\* before it was told "ready": acquired is not set then, and /status was asked already.
HeldIsReleasable ==
    At("loop") /\ own => acquired \/ ~asked \/ slipped

\* The worker always comes back from a task and from a recovery, whatever ComfyUI
\* answers or does not: only the card is waited for without a limit, and a press ends
\* that wait too.  With NoneAbandoned: what is taken, and what is cancelled, is settled.
WorkerReturns == ~At("loop") ~> At("loop") \/ (InGate /\ cur \notin pressed)
=============================================================================
