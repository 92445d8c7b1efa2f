---------------------------- MODULE ProjectChain ----------------------------
(***************************************************************************)
(* A project's scenes, its optional upscale and its assembly on sglang:    *)
(* project.json (src/h3_48gb/project.py) against the jobs of the queue.    *)
(* assemble.advance_project takes the chain one step further; the worker   *)
(* calls it after every job of the project, the pages from their buttons.  *)
(* Each holds the project lock for one read-modify-write at a time, so     *)
(* what one of them read may be gone when it writes.                       *)
(***************************************************************************)
EXTENDS Naturals, FiniteSets

CONSTANTS Pages,        \* requests the web server handles at a time
          NScenes,      \* scenes of the project
          Fresh,        \* the fresh_start scenes: they inherit no keyframe
          MaxPresses,   \* bound on the buttons pressed after the approval
          MaxFaults,    \* bound on deaths, failed submissions and failed jobs
          Null

ASSUME ChainAssumption ==
  /\ NScenes \in Nat \ {0} /\ Fresh \subseteq 1..NScenes
  /\ Null \notin Nat \cup {"approve"} \cup [take : Nat, from : Nat \cup {Null}]
  /\ "worker" \notin Pages

VARIABLES file,      \* project.json: scene, stage, final, route
          jobs,      \* the project's jobs in pending/ and running/
          nextId,    \* the next job's id; a take is named by the job that shot it
          op,        \* where each process is, and what it carries
          approved,  \* the script gate
          presses, faults,
          torn,      \* what was written over a reset nobody re-read (history)
          blame      \* why the chain may have stopped (history)

vars == <<file, jobs, nextId, op, approved, presses, faults, torn, blame>>

Worker == "worker"
Scenes == 1..NScenes
Procs  == Pages \cup {Worker}
Takes == 1..(nextId - 1)

SceneStatuses == {"pending", "running", "done", "failed"}
StageStatuses == {"draft", "running", "done", "failed"}
Final == 0         \* beside the scenes in torn
Claiming == 0      \* the placeholder job_id of a scene that is being submitted

Blank == [status |-> "pending", job |-> Null, clip |-> Null, ltx |-> Null]
Idle  == [pc |-> "idle", req |-> Null, kind |-> Null, i |-> 0, job |-> Null,
          proj |-> Null, ok |-> TRUE, fails |-> FALSE, stale |-> FALSE]

Init ==
  /\ file = [scene |-> [i \in Scenes |-> Blank],
             stage |-> [s \in {"scenes", "upscale", "assembly"} |-> "draft"],
             final |-> Null, route |-> TRUE]
  /\ jobs = {} /\ nextId = 1
  /\ op = [p \in Procs |-> Idle]
  /\ approved = FALSE
  /\ presses = 0 /\ faults = 0
  /\ torn = {} /\ blame = {}

-----------------------------------------------------------------------------
(* What project.json says.                                                 *)

Chained(i) == i > 1 /\ i \notin Fresh
Failed(f)  == \E i \in Scenes : f.scene[i].status = "failed"
AllDone(f) == \A i \in Scenes : f.scene[i].status = "done"
TakesOf(f)  == [i \in Scenes |-> IF f.scene[i].clip = Null THEN Null
                                ELSE f.scene[i].clip.take]

\* The scene next in line: the first that is not done, if it is pending.
Ready(f) == {i \in Scenes : /\ f.scene[i].status = "pending"
                            /\ \A k \in 1..(i - 1) : f.scene[k].status = "done"}

\* Scene i and the scenes that inherit from it, up to the next fresh start.
Tail(i) == {k \in Scenes : k = i \/ (k > i /\ \A l \in (i + 1)..k : l \notin Fresh)}

(* What a locked mutator leaves of it.                                     *)

Staged(f, s, v)         == [f EXCEPT !.stage[s] = v]
SceneSet(f, i, v, job)  == [f EXCEPT !.scene[i].status = v, !.scene[i].job = job]
FinalSet(f, takes)      == [f EXCEPT !.final = takes]

\* Mutant: the part is attached to whatever take the scene has by now.
LtxOfOldTake(f, i, take) == [f EXCEPT !.scene[i].ltx = take]

\* set_scene_ltx_if_current: the part of an old take is dropped.
LtxSet(f, i, take) ==
  IF TakesOf(f)[i] = take THEN [f EXCEPT !.scene[i].ltx = take] ELSE f

-----------------------------------------------------------------------------
(* Where a process goes next. A read makes what it carries current again.  *)

Goto(p, pc)    == op' = [op EXCEPT ![p].pc = pc]
Advance(p, b)  == op' = [op EXCEPT ![p] = [Idle EXCEPT !.pc = "look", !.fails = b,
                                                       !.req = op[p].req]]
Ended(p) == IF op[p].req = "approve" THEN [Idle EXCEPT !.pc = "approve"] ELSE Idle
End(p)   == op' = [op EXCEPT ![p] = Ended(p)]

\* Between a read of the project and a write that does not look again.
Carrying == {"halt", "scenesDone", "stage", "submit", "record", "rollback", "submitStage",
             "stageRuns", "stageFails", "write", "joined", "finished", "unjoined"}

\* The scenes in reset, and the stages, are not what the others have read.
Upset(p, reset) ==
  op' = [q \in Procs |->
           IF q = p THEN [Idle EXCEPT !.pc = "look"]
           ELSE [op[q] EXCEPT !.stale = @ \/ /\ op[q].pc \in Carrying
                                             /\ op[q].i \in reset \cup {0}]]

\* A write by a process whose scenes were reset since it read them.
Scar(p, what) ==
  /\ torn'  = IF op[p].stale THEN torn \cup what ELSE torn
  /\ blame' = IF op[p].stale THEN blame \cup {"raced"} ELSE blame

Fault == faults < MaxFaults /\ faults' = faults + 1
Press == presses < MaxPresses /\ presses' = presses + 1

NewJob(kind, i, from) ==
  [id |-> nextId, kind |-> kind, scene |-> i, from |-> from,
   state |-> "pending", cancel |-> FALSE]

\* Submitted, and the project does not say so yet.
Unrecorded(j) == \E p \in Procs : op[p].pc \in {"record", "stageRuns"} /\ op[p].proj = j.id

Post(job) == jobs' = jobs \cup {job} /\ nextId' = nextId + 1

-----------------------------------------------------------------------------
(* advance_project                                                         *)

\* Every scene is done: the upscale if the route has it, then the assembly.
Stages(p, f) ==
  LET next == IF f.route /\ f.stage.upscale = "draft" THEN "upscale"
              ELSE IF (f.route => f.stage.upscale = "done") /\ f.stage.assembly = "draft"
              THEN "assembly" ELSE "none"
  IN IF next = "none" THEN End(p)
     ELSE op' = [op EXCEPT ![p].pc = "submitStage", ![p].kind = next, ![p].stale = FALSE]

Look(p) ==
  /\ op[p].pc = "look"
  /\ \/ /\ Failed(file)
        /\ IF file.stage.scenes = "failed" THEN End(p)
           ELSE op' = [op EXCEPT ![p].pc = "halt", ![p].stale = FALSE]
     \/ /\ ~Failed(file)
        /\ \E i \in Ready(file) :
             op' = [op EXCEPT ![p].pc = "claim", ![p].i = i, ![p].stale = FALSE]
     \/ /\ ~Failed(file) /\ ~AllDone(file) /\ Ready(file) = {}
        /\ End(p)
     \/ /\ AllDone(file)
        /\ IF file.stage.scenes = "done" THEN Stages(p, file)
           ELSE op' = [op EXCEPT ![p].pc = "scenesDone", ![p].stale = FALSE]
  /\ UNCHANGED <<file, jobs, nextId, approved, presses, faults, torn, blame>>

\* A failed scene stops the chain; a failed submission by the worker too.
Halt(p) ==
  /\ op[p].pc = "halt"
  /\ file' = Staged(file, "scenes", "failed")
  /\ End(p) /\ Scar(p, {})
  /\ UNCHANGED <<jobs, nextId, approved, presses, faults>>

ScenesDone(p) ==
  /\ op[p].pc = "scenesDone"
  /\ file' = Staged(file, "scenes", "done")
  /\ Stages(p, file') /\ Scar(p, {})
  /\ UNCHANGED <<jobs, nextId, approved, presses, faults>>

\* claim_next_scene: found and claimed under one lock, refused when it is another.
Claim(p) ==
  /\ op[p].pc = "claim"
  /\ IF op[p].i \in Ready(file)
     THEN /\ file' = SceneSet(file, op[p].i, "running", Claiming)
          /\ op' = [op EXCEPT ![p].pc = IF file.stage.scenes = "draft" THEN "stage" ELSE "submit",
                              ![p].proj = TakesOf(file), ![p].stale = FALSE]
     ELSE End(p) /\ UNCHANGED file
  /\ UNCHANGED <<jobs, nextId, approved, presses, faults, torn, blame>>

StageScenes(p) ==
  /\ op[p].pc = "stage"
  /\ file' = Staged(file, "scenes", "running")
  /\ op' = [op EXCEPT ![p].pc = "submit", ![p].proj = TakesOf(file)]
  /\ UNCHANGED <<jobs, nextId, approved, presses, faults, torn, blame>>

\* The keyframe of the previous scene's clip as read at the claim, then the job.
Submit(p) ==
  /\ op[p].pc = "submit"
  /\ LET i == op[p].i
         from == IF Chained(i) THEN op[p].proj[i - 1] ELSE Null
     IN \/ /\ Chained(i) => from # Null
           /\ Post(NewJob("scene", i, from))
           /\ op' = [op EXCEPT ![p].pc = "record", ![p].proj = nextId]
           /\ UNCHANGED faults
        \/ /\ Goto(p, "rollback")
           /\ IF Chained(i) /\ from = Null THEN UNCHANGED faults ELSE Fault
           /\ UNCHANGED <<jobs, nextId>>
  /\ UNCHANGED <<file, approved, presses, torn, blame>>

Record(p) ==
  /\ op[p].pc = "record"
  /\ file' = SceneSet(file, op[p].i, "running", op[p].proj)
  /\ End(p) /\ Scar(p, {op[p].i})
  /\ UNCHANGED <<jobs, nextId, approved, presses, faults>>

\* Mutant: the worker's failed submission leaves the scene silently pending.
RollbackSilently(p) ==
  /\ op[p].pc = "rollback"
  /\ file' = SceneSet(file, op[p].i, "pending", Null)
  /\ IF op[p].req = "approve" THEN Goto(p, "unstage") ELSE op' = [op EXCEPT ![p] = Idle]
  /\ torn'  = IF op[p].stale THEN torn \cup {op[p].i} ELSE torn
  /\ blame' = blame \cup (IF op[p].fails THEN {} ELSE {"refused"})
                    \cup (IF op[p].stale THEN {"raced"} ELSE {})
  /\ UNCHANGED <<jobs, nextId, approved, presses, faults>>

\* Nobody watches the worker's chain: the scene fails. A page answers the error
\* and leaves the scene pending for the next press.
Rollback(p) ==
  /\ op[p].pc = "rollback"
  /\ file' = SceneSet(file, op[p].i, IF op[p].fails THEN "failed" ELSE "pending", Null)
  /\ IF op[p].fails THEN Goto(p, "halt")
     ELSE IF op[p].req = "approve" THEN Goto(p, "unstage") ELSE op' = [op EXCEPT ![p] = Idle]
  /\ torn'  = IF op[p].stale THEN torn \cup {op[p].i} ELSE torn
  /\ blame' = blame \cup (IF op[p].fails THEN {} ELSE {"refused"})
                    \cup (IF op[p].stale THEN {"raced"} ELSE {})
  /\ UNCHANGED <<jobs, nextId, approved, presses, faults>>

\* A refused approval puts the scenes stage back.
Unstage(p) ==
  /\ op[p].pc = "unstage"
  /\ file' = IF file.stage.scenes = "running" THEN Staged(file, "scenes", "draft") ELSE file
  /\ op' = [op EXCEPT ![p] = Idle]
  /\ UNCHANGED <<jobs, nextId, approved, presses, faults, torn, blame>>

\* The job first, the stage after it.
SubmitStage(p) ==
  /\ op[p].pc = "submitStage"
  /\ \/ /\ Post(NewJob(op[p].kind, 0, Null))
        /\ op' = [op EXCEPT ![p].pc = "stageRuns", ![p].proj = nextId]
        /\ UNCHANGED <<faults, blame>>
     \/ /\ Fault
        /\ IF op[p].fails THEN Goto(p, "stageFails") /\ UNCHANGED blame
           ELSE op' = [op EXCEPT ![p] = Idle] /\ blame' = blame \cup {"refused"}
        /\ UNCHANGED <<jobs, nextId>>
  /\ UNCHANGED <<file, approved, presses, torn>>

StageRuns(p) ==
  /\ op[p].pc = "stageRuns"
  /\ file' = Staged(file, op[p].kind, "running")
  /\ End(p) /\ Scar(p, {})
  /\ UNCHANGED <<jobs, nextId, approved, presses, faults>>

StageFails(p) ==
  /\ op[p].pc = "stageFails"
  /\ file' = Staged(file, op[p].kind, "failed")
  /\ op' = [op EXCEPT ![p] = Idle]
  /\ Scar(p, {})
  /\ UNCHANGED <<jobs, nextId, approved, presses, faults>>

AdvanceStep(p) ==
  \/ Look(p) \/ Halt(p) \/ ScenesDone(p) \/ Claim(p) \/ StageScenes(p) \/ Submit(p)
  \/ Record(p) \/ Rollback(p) \/ Unstage(p) \/ SubmitStage(p) \/ StageRuns(p) \/ StageFails(p)

-----------------------------------------------------------------------------
(* The pages' buttons                                                      *)

\* approve/script: the snapped scenes are saved whole, over whatever is there.
Approve(p) ==
  /\ op[p].pc = "idle" /\ ~approved /\ Press
  /\ op' = [op EXCEPT ![p].pc = "save", ![p].proj = file, ![p].req = "approve"]
  /\ UNCHANGED <<file, jobs, nextId, approved, faults, torn, blame>>

Save(p) ==
  /\ op[p].pc = "save"
  /\ file' = op[p].proj
  /\ Advance(p, FALSE)
  /\ blame' = IF file # file' THEN blame \cup {"saved"} ELSE blame
  /\ torn'  = IF file # file' THEN torn \cup Scenes ELSE torn
  /\ UNCHANGED <<jobs, nextId, approved, presses, faults>>

Approved(p) ==
  /\ op[p].pc = "approve"
  /\ approved' = TRUE
  /\ op' = [op EXCEPT ![p] = Idle]
  /\ UNCHANGED <<file, jobs, nextId, presses, faults, torn, blame>>

\* The waiting jobs of scene i and of all that follow.
TailJobs(i) == {j \in jobs : j.state = "pending" /\ j.kind = "scene" /\ j.scene >= i}

Upscales(state) == {j \in jobs : j.state = state /\ j.kind = "upscale"}

\* scenes/<idx>/retry: the waiting jobs go, a running upscale is asked to stop.
Retry(p, i) ==
  /\ op[p].pc = "idle" /\ Press
  /\ file.scene[i].status # "pending"
  /\ jobs' = {IF j \in Upscales("running") THEN [j EXCEPT !.cancel = TRUE] ELSE j :
                 j \in jobs \ (TailJobs(i) \cup Upscales("pending"))}
  /\ blame' = IF \E j \in TailJobs(i) : j.scene \notin Tail(i)
              THEN blame \cup {"removed"} ELSE blame
  /\ op' = [op EXCEPT ![p].pc = "invalidate", ![p].i = i]
  /\ UNCHANGED <<file, nextId, approved, faults, torn>>

\* invalidate_scene_chain
Invalidate(p) ==
  /\ op[p].pc = "invalidate"
  /\ LET reset == Tail(op[p].i)
     IN /\ file' = [file EXCEPT
             !.scene = [k \in Scenes |-> IF k \in reset THEN Blank ELSE @[k]],
             !.stage = [s \in DOMAIN @ |-> "draft"],
             !.final = Null]
        /\ Upset(p, reset)
        /\ torn' = torn \ (reset \cup {Final})
  /\ UNCHANGED <<jobs, nextId, approved, presses, faults, blame>>

\* assembly/retry and upscale/retry: only from failed.
RetryStage(p, s) ==
  /\ op[p].pc = "idle" /\ Press
  /\ file.stage[s] = "failed"
  /\ op' = [op EXCEPT ![p].pc = "draft", ![p].kind = s]
  /\ UNCHANGED <<file, jobs, nextId, approved, faults, torn, blame>>

Draft(p) ==
  /\ op[p].pc = "draft"
  /\ file' = Staged(file, op[p].kind, "draft")
  /\ Advance(p, FALSE)
  /\ UNCHANGED <<jobs, nextId, approved, presses, faults, torn, blame>>

\* The route may change while no upscale and no assembly is in the queue.
Route(p) ==
  /\ op[p].pc = "idle" /\ Press
  /\ \A j \in jobs : j.kind = "scene"
  /\ Goto(p, "route")
  /\ UNCHANGED <<file, jobs, nextId, approved, faults, torn, blame>>

SetRoute(p) ==
  /\ op[p].pc = "route"
  /\ file' = [file EXCEPT !.route = ~@]
  /\ IF file.stage.assembly \in {"done", "failed"} THEN Goto(p, "rebuild") ELSE Advance(p, FALSE)
  /\ UNCHANGED <<jobs, nextId, approved, presses, faults, torn, blame>>

\* The final was built for the old route.
Rebuild(p) ==
  /\ op[p].pc = "rebuild"
  /\ file' = FinalSet(Staged(file, "assembly", "draft"), Null)
  /\ Upset(p, {})
  /\ UNCHANGED <<jobs, nextId, approved, presses, faults, torn, blame>>

\* The queue page cancels a waiting job; only an upscale tells its project.
Cancel(p, j) ==
  /\ op[p].pc = "idle" /\ Press
  /\ j.state = "pending"
  /\ jobs' = jobs \ {j}
  /\ IF j.kind = "upscale" /\ file.stage.upscale = "running"
     THEN /\ file' = Staged(file, "upscale", "failed")
          /\ blame' = IF Unrecorded(j) THEN blame \cup {"outran"} ELSE blame
     ELSE UNCHANGED file /\ blame' = blame \cup {"removed"}
  /\ UNCHANGED <<nextId, op, approved, faults, torn>>

PageStep(p) ==
  \/ Approve(p) \/ Save(p) \/ Approved(p) \/ Invalidate(p) \/ Draft(p)
  \/ Route(p) \/ SetRoute(p) \/ Rebuild(p)
  \/ \E i \in Scenes : Retry(p, i)
  \/ \E s \in {"upscale", "assembly"} : RetryStage(p, s)
  \/ \E j \in jobs : Cancel(p, j)

-----------------------------------------------------------------------------
(* The worker                                                              *)

w == op[Worker]
Same(j) == j.id = w.job
Filed   == jobs' = {j \in jobs : ~Same(j)}
MyJob   == CHOOSE j \in jobs : Same(j)
WGoto(pc) == Goto(Worker, pc)
ToFile  == op' = [op EXCEPT ![Worker] = [Idle EXCEPT !.pc = "file", !.job = w.job]]

\* claim: the oldest waiting job.
Take ==
  /\ w.pc = "idle"
  /\ \E j \in jobs :
       /\ j.state = "pending"
       /\ \A k \in jobs : k.state = "pending" => j.id <= k.id
       /\ jobs' = (jobs \ {j}) \cup {[j EXCEPT !.state = "running"]}
       /\ op' = [op EXCEPT ![Worker].job = j.id, ![Worker].i = j.scene,
                           ![Worker].pc = CASE j.kind = "scene" -> "shoot"
                                            [] j.kind = "upscale" -> "wanted"
                                            [] j.kind = "assembly" -> "gather"]
       /\ blame' = IF Unrecorded(j) THEN blame \cup {"outran"} ELSE blame
  /\ UNCHANGED <<file, nextId, approved, presses, faults, torn>>

\* A scene's job ends and is filed, before the project hears of it.
Shoot ==
  /\ w.pc = "shoot"
  /\ \E ok \in BOOLEAN :
       /\ IF ok THEN UNCHANGED faults ELSE Fault
       /\ op' = [op EXCEPT ![Worker].pc = "check", ![Worker].ok = ok,
                           ![Worker].proj = [take |-> w.job, from |-> MyJob.from]]
  /\ Filed
  /\ UNCHANGED <<file, nextId, approved, presses, torn, blame>>

\* Mutant: any job that names the scene speaks for it.
CheckNobody ==
  /\ w.pc = "check"
  /\ op' = [op EXCEPT ![Worker].pc = "write", ![Worker].stale = FALSE]
  /\ UNCHANGED <<file, jobs, nextId, approved, presses, faults, torn, blame>>

\* _handle_project_scene_result: a job the scene no longer names is ignored.
Check ==
  /\ w.pc = "check"
  /\ IF file.scene[w.i].job = w.job
     THEN op' = [op EXCEPT ![Worker].pc = "write", ![Worker].stale = FALSE]
     ELSE op' = [op EXCEPT ![Worker] = Idle]
  /\ UNCHANGED <<file, jobs, nextId, approved, presses, faults, torn, blame>>

Write ==
  /\ w.pc = "write"
  /\ file' = [file EXCEPT !.scene[w.i].status = IF w.ok THEN "done" ELSE "failed",
                          !.scene[w.i].clip = IF w.ok THEN w.proj ELSE @]
  /\ Advance(Worker, TRUE)
  /\ Scar(Worker, {w.i})
  /\ UNCHANGED <<jobs, nextId, approved, presses, faults>>

\* The card is refused: the job's body never starts.
NoCard ==
  /\ w.pc = "wanted"
  /\ Fault /\ WGoto("markUpscale")
  /\ UNCHANGED <<file, jobs, nextId, approved, presses, torn, blame>>

\* run_upscale: nothing is done for a stage that was reset.
Wanted ==
  /\ w.pc = "wanted"
  /\ IF file.stage.upscale = "running" THEN WGoto("takes") ELSE ToFile
  /\ UNCHANGED <<file, jobs, nextId, approved, presses, faults, torn, blame>>

ReadTakes ==
  /\ w.pc = "takes"
  /\ op' = [op EXCEPT ![Worker].proj = TakesOf(file), ![Worker].i = 0,
                      ![Worker].ok = AllDone(file),
                      ![Worker].pc = IF AllDone(file) THEN "part" ELSE "closeUpscale"]
  /\ UNCHANGED <<file, jobs, nextId, approved, presses, faults, torn, blame>>

\* One part after another, until the take of one is no longer the scene's.
Part ==
  /\ w.pc = "part"
  /\ LET n == w.i + 1
         current == TakesOf(file)[n] = w.proj[n]
     IN /\ file' = LtxSet(file, n, w.proj[n])
        /\ op' = [op EXCEPT ![Worker].i = n,
                            ![Worker].pc = IF current /\ n < NScenes THEN "part"
                                           ELSE "closeUpscale"]
  /\ UNCHANGED <<jobs, nextId, approved, presses, faults, torn, blame>>

\* upscale_part: ffmpeg or ComfyUI fails, or the person has asked it to stop.
PartBroken ==
  /\ w.pc = "part"
  /\ IF MyJob.cancel THEN UNCHANGED faults ELSE Fault
  /\ op' = [op EXCEPT ![Worker].ok = FALSE, ![Worker].pc = "closeUpscale"]
  /\ UNCHANGED <<file, jobs, nextId, approved, presses, torn, blame>>

\* finish_upscale: done or failed for the takes it had, draft for any other.
CloseUpscale ==
  /\ w.pc = "closeUpscale"
  /\ LET current == TakesOf(file) = w.proj
         complete == \A i \in Scenes : file.scene[i].ltx # Null
         v == IF ~current \/ (w.ok /\ ~complete) THEN "draft"
              ELSE IF w.ok THEN "done" ELSE "failed"
     IN file' = Staged(file, "upscale", v)
  /\ IF w.ok THEN ToFile ELSE WGoto("markUpscale")
  /\ UNCHANGED <<jobs, nextId, approved, presses, faults, torn, blame>>

MarkUpscale ==
  /\ w.pc = "markUpscale"
  /\ file' = IF file.stage.upscale = "running" THEN Staged(file, "upscale", "failed") ELSE file
  /\ ToFile
  /\ UNCHANGED <<jobs, nextId, approved, presses, faults, torn, blame>>

\* assemble.run: what it will join is read once, at the start.
Gather ==
  /\ w.pc = "gather"
  /\ LET fit == /\ AllDone(file)
                /\ file.route => /\ file.stage.upscale = "done"
                                 /\ \A i \in Scenes : file.scene[i].ltx = TakesOf(file)[i]
     IN \/ /\ fit
           /\ op' = [op EXCEPT ![Worker].proj = TakesOf(file), ![Worker].pc = "joined",
                               ![Worker].stale = FALSE]
           /\ UNCHANGED faults
        \/ /\ IF fit THEN Fault ELSE UNCHANGED faults
           /\ op' = [op EXCEPT ![Worker].pc = "unjoined", ![Worker].stale = FALSE]
  /\ UNCHANGED <<file, jobs, nextId, approved, presses, torn, blame>>

Joined ==
  /\ w.pc = "joined"
  /\ file' = FinalSet(file, w.proj)
  /\ WGoto("finished") /\ Scar(Worker, {Final})
  /\ UNCHANGED <<jobs, nextId, approved, presses, faults>>

Finished ==
  /\ w.pc = "finished"
  /\ file' = Staged(file, "assembly", "done")
  /\ ToFile /\ Scar(Worker, {Final})
  /\ UNCHANGED <<jobs, nextId, approved, presses, faults>>

Unjoined ==
  /\ w.pc = "unjoined"
  /\ file' = Staged(file, "assembly", "failed")
  /\ ToFile /\ Scar(Worker, {Final})
  /\ UNCHANGED <<jobs, nextId, approved, presses, faults>>

\* The upscale's and the assembly's job is filed, then the chain goes on.
FileJob ==
  /\ w.pc = "file"
  /\ Filed
  /\ Advance(Worker, FALSE)
  /\ UNCHANGED <<file, nextId, approved, presses, faults, torn, blame>>

WorkerStep ==
  \/ Take \/ Shoot \/ Check \/ Write \/ NoCard \/ Wanted \/ ReadTakes \/ Part
  \/ PartBroken \/ CloseUpscale \/ MarkUpscale \/ Gather \/ Joined \/ Finished \/ Unjoined \/ FileJob

\* A process dies. The job the worker was running waits again; nothing else is made up for.
Die(p) ==
  /\ op[p].pc # "idle" /\ Fault
  /\ op' = [op EXCEPT ![p] = Idle]
  /\ LET mine == {j \in jobs : p = Worker /\ Same(j) /\ j.state = "running"}
     IN /\ jobs' = (jobs \ mine) \cup {[j EXCEPT !.state = "pending"] : j \in mine}
        /\ blame' = IF mine = {} THEN blame \cup {"died"} ELSE blame
  /\ UNCHANGED <<file, nextId, approved, presses, torn>>

Next ==
  \/ WorkerStep
  \/ \E p \in Pages : PageStep(p)
  \/ \E p \in Procs : AdvanceStep(p) \/ Die(p)

Spec == Init /\ [][Next]_vars

-----------------------------------------------------------------------------
(* Properties                                                              *)

\* Every scene, stage and job has its type; in particular a stage never gets a
\* status that only scenes have (project.STAGE_STATUSES has no "pending").
TypeOK ==
  /\ \A i \in Scenes :
       LET s == file.scene[i] IN
       /\ s.status \in SceneStatuses
       /\ s.job \in Takes \cup {Null, Claiming}
       /\ s.clip = Null \/ (s.clip.take \in Takes /\ s.clip.from \in Takes \cup {Null})
       /\ s.ltx \in Takes \cup {Null}
  /\ \A s \in DOMAIN file.stage : file.stage[s] \in StageStatuses
  /\ file.final = Null \/ \A i \in Scenes : file.final[i] \in Takes
  /\ \A j, k \in jobs : j.id = k.id => j = k
  /\ torn \subseteq Scenes \cup {Final}
  /\ blame \subseteq {"died", "raced", "saved", "removed", "refused", "outran"}

\* A chained scene that is done was shot from the take the scene before it has
\* now, however retries, stale jobs and the worker's bookkeeping interleave; the
\* only exceptions are scenes written over a reset made between somebody's look
\* and its write (_submit_next_scene_sglang's record, the worker's result, a blind
\* save), which `torn` names until the scene is reset again.
ChainIsFresh ==
  \A i \in Scenes :
    Chained(i) /\ file.scene[i].status = "done" /\ {i, i - 1} \cap torn = {} =>
      /\ file.scene[i - 1].status = "done"
      /\ file.scene[i].clip.from = file.scene[i - 1].clip.take

\* An -ltx part belongs to the take its scene has, and the final of a project
\* whose assembly is done joins the takes the project has, unless a scene was
\* re-shot while assemble.run was joining the old ones (`torn`).
FinalOfTakes ==
  /\ \A i \in Scenes : i \notin torn => file.scene[i].ltx \in {Null, TakesOf(file)[i]}
  /\ file.stage.assembly = "done" /\ torn = {} =>
       file.final = TakesOf(file) /\ AllDone(file)

Quiet == jobs = {} /\ \A p \in Procs : op[p].pc = "idle"

\* When nothing is queued and nobody is at work, an approved project is assembled
\* or shows what failed: no scene and no stage is left running or waiting for a
\* step nobody takes. The exceptions are listed in `blame`: a death outside a
\* job, a write over somebody's reset, a whole-file save over another, a queued
\* job taken away, a page's submission that was refused to the person who pressed,
\* and a job that was over before its project had heard of it.
NothingHangs ==
  Quiet /\ approved /\ blame = {} =>
    \/ \E i \in Scenes : file.scene[i].status = "failed"
    \/ \E s \in {"upscale", "assembly"} : file.stage[s] = "failed"
    \/ AllDone(file) /\ file.stage.assembly = "done"
=============================================================================
