# A verification of the video panel, its card and the studio

The repository turns prompts into videos on one GPU. A web page fills a queue on
disk, a worker process takes one job at a time, and an engine computes it: on the
Mac a child process (MLX), on the Linux machine an H3 server behind HTTP (sglang),
whose card a small dispatcher hands out. Beside the panel lives a second product,
the studio, with a database, a worker and an API of its own.

These modules specify what runs against each other in it: what a job can go through
between the form and the filed clip, what a project makes of its jobs, who holds the
card, and what becomes of a task of the studio, when pages, workers, engines and
their crashes interleave.

## 1. Inventory

### The panel's queue: `h3_48gb/queue.py`
*State*: one JSON file per job, in one of four directories; `paused`;
`results/<id>.json` (the result marker); `leases/<id>.lock`.
*Operations*: `layout`, `submit`, `update`, `move_to_front`, `cancel`, `claim`,
`set_running_fields`, `request_cancel`, `write_result_marker`, `finish`,
`reconcile`, `set_paused`, `pause_if_drained`; `_acquire_lease` and
`_release_lease` of the worker.
*Interaction*: a library. Page and worker call it from two processes, each call
under one exclusive `queue_lock`.
*Hard*: a process may die in any call and between any two; two callers decide from
what an earlier call told them; `reconcile` reconstructs from directory, marker,
clip, engine reference and lease what a dead worker was doing.
*Correct when*: no two active jobs name one output; what is filed stays filed; a
result marker decides how its job is filed; a job with anything to show for it
never returns to `pending/`.

### The panel's worker: `h3_48gb/worker.py`
*State*: a process: its place in `main_loop` and `run_job`, its job, the stop event.
*Operations*: reconcile, the pause test, the LLM test (MLX), claim; lease, body,
marker, unlease, finish; `pause_if_drained`; two-stage stop; the body per kind
(generate, song, assemble, upscale), the idle release of the card, the project
bookkeeping after a job.
*Hard*: everything between two of these steps: requests of the page, the death of
the worker, of its child, of the machine, of H3.
*Correct when*: one job in `running/`; from lease to finish the worker's job is
there; every job taken is filed or put back; a waiting job is taken unless the
queue is paused.

### The engines: `h3_48gb/engines/sglang.py`, `h3_48gb/cli.py` + `checkpoint.py`
*sglang*: gate (dispatcher), one POST, the id into the job, polling, download,
frame check; cancel and restarts in between. *Correct when* a scene is posted once,
nothing overwrites a clip, a clip that is filed done passed its check.
*MLX*: a process in its own session, under the flock of its checkpoint; it writes
clip, sound and report itself. *Correct when* no two generations share the GPU.
*Its checkpoint*: one file per identity of the request, replaced after every forward,
read under the lock by the next run, discarded when the clip is decoded; the latent
tail a scene leaves for the next one; `h3 generate`, `--restart`, `h3 resume`, and
`h3 watch`, which reads files and locks beside them. *Hard*: the digest does not see
the tail a run continues from; the lock is free and the checkpoint gone before the clip
is written; a scan takes four looks at what moves. *Correct when* no clip mixes steps
of two conditionings, finished steps survive, no writer puts another's file back.

### The page: `h3_48gb/web.py`
Requests that change the queue; "free the card" (`_gpu_release`), which looks,
pauses, and cancels the running scene or releases; a chat turn, which looks whether
a generation runs and raises a local LLM; the removal of a finished job's folder.

### The dispatcher: `tools/gpu-dispatcher/dispatcher.py`
*State*: `state.json` (engines: pid, group, owner, ready; the Qwen flag), the
`generation.lock` descriptor its engines inherit. *Operations*: `acquire`,
`release`, `qwen_unload`, `qwen_restore`, one at a time; restarts; engines that die
or leave children behind. *Correct when* at most one engine of ours holds the card,
nobody stops another client's engine, a dead engine is never answered as ready.

### The projects: `project.py`, `assemble.py`, `engines/ltx.py`, `songrun.py`
*State*: `project.json`, every write of which is one read-modify-write under its
lock (but `save`, which writes what was read earlier): scenes with a state, a job
id, a clip and its upscaled part; stages; a route; the final video.
*Operations*: `claim_next_scene`, `invalidate_scene_chain`, `set_scene_status`,
`set_stage_status`, `finish_upscale`, ...; `advance_project`, which takes the chain
one step further and is called by the worker after every job of a project and by
the pages' buttons (approve, retry of a scene with its tail, of a stage, the route);
the bodies of an upscale and of an assembly.
*Interaction*: the queue holds the jobs, `project.json` their meaning; no lock
covers both, and a submission is a claim, a job and a record, one after the other.
*Hard*: a reset between another's read and its write, a job that ends before its
stage says it runs, a death between job and record, a job taken off the queue.
*Before its scenes* a clip or a song has gates: the script's approval submits a song
job, the track's opens the scenario, the scenario's cuts the scenes. What a gate starts
comes first and the approval last; between a request's look and its write (an LLM turn,
a submission) other requests and the worker write too.
*Correct when* a scene that continues another was shot from the clip that one has
now, the final joins the clips there are, a project never stops silently, a passed
gate stays passed, and the scenes are those of the approved scenario.

*How the scenes of a clip come about*: the sections heard in the track (`songrun.py`), a
scenario written by a model, a person or a procedure, the gate's validation, and
`build_clip_scenes`, which folds, splits and snaps the sections to lengths the engine
renders; then what each scene asks of the engine, what is cut off its clip, and how the
film is fitted to the track (`assemble.py`). *Hard*: rounding that adds up, sections that are
absorbed, a latent tail that is lost. *Correct when* what the gate accepts can be built,
every passport and every break opens the scene its section opens, and picture and track run
together.

### Chat sessions: `web.py`, `h3_48gb/provider.py`
*State*: `<sid>.json` and its `.lock`; the turn each server thread has in hand.
*Operations*: create, a turn (read, ask the model, write), delete; a provider's answer, whole
or as a stream, with one repetition for a wrong form. *Hard*: the lock file is deleted beside
the session; a stream breaks off, is cut at the limit or carries an error behind half of the
text. *Correct when* an exchange that was answered is in the session, what was deleted stays
deleted, the project is what the turns last said, and a failure is called by its cause.

### The jobs' files: `web.py`, `queue.py`
*State*: per job a directory (named by minute and slug), the copy of its prompt, clip and
checkpoint. *Operations*: submit, edit, duplicate, cancel, remove. *Hard*: a request reads
outside the queue's lock and writes under it, a removal takes no lock. *Correct when* a job
that still has a use for a file keeps it.

### The library: `h3_48gb/library.py`
*State*: per card a directory with `card.json`, one directory per version, `card.lock`; pins
in the projects. *Operations*: create, update, delete (into a trash), pin. *Hard*: the lock
lies in the directory that is moved away. *Correct when* a pinned version has its pictures and
a card its record.

### The studio: `h3_48gb/studio/`
*State*: a SQLite database; a worker process with one task in hand, `gate.acquired`
and `IdleRelease._asked`; ComfyUI's queue, history and files.
*Operations*: enqueue, cancel (the API); claim, gate, probe, submit, one `find` after
an uncertain submit, adopt, poll, the loss of a task, fetch and verify, stop,
`recover`, the crash record, the idle release (the worker); plans, idempotency keys
and optimistic versions (one transaction each).
*Hard*: the answer of a submit is lost; ComfyUI restarts and forgets; the owner
presses cancel anywhere; the worker dies or an exception escapes anywhere.
*Correct when* a task is sent again only with proof that the engine lost it, an
owner's cancel is never overruled by a result, no task is forgotten, the worker
comes back whatever the engine answers, and the card can be given back.
*Its pages* (`studio/ops.py`, `ScenarioStep.tsx`, `SceneCard.tsx`, `sceneDraft.ts`,
`ProjectScreen.tsx`): several tabs on one project, each with drafts, a snapshot, a stream of
events and requests that may be lost or served late. *Correct when* no saved edit is
overwritten unseen, a draft goes only with its owner's consent, the frame sources follow the
order of the scenes, and an open tab comes to show what is saved.

### The rest
Numerics (`pipeline`, `dit`, `tae`, ...), face tools, the argument parsers and
estimates, listings, the LLM's prompts, the panel's own page, scripts, patches and
documents: sequential or presentational, see `PROJECT.json`.

## 2. Modules

| module | what it is | source |
|---|---|---|
| `JobQueue` | the queue under any caller that respects the functions' own checks (`QSpec`) | `queue.py`, `web._delete_finished_job` |
| `JobLifecycle` | abstract: what the queue and its worker promise about one job | docstrings and table of `queue.py` |
| `PanelWorker` | `main_loop` and `run_job` but for the body of a job; page requests; deaths | `worker.py` |
| `SglangWorker` | `PanelWorker` with `run_generate`, the gate, H3, and "free the card"; refines `JobLifecycle` | `engines/sglang.py`, `worker.py`, `web.py` |
| `MlxWorker` | `PanelWorker` with generator processes, their locks, a chat turn and an LLM | `worker.py`, `cli.py`, `checkpoint.py`, `web.py` |
| `Checkpoint` | one request of the generator, run by several processes: lock, resume, seam, tail, clip; `h3 watch` beside them | `checkpoint.py`, `cli.py`, `pipeline.py`, `runs.py` |
| `GpuDispatcher` | who holds the card: records, owners, `generation.lock`, process groups, Qwen, the dispatcher's death at every step | `tools/gpu-dispatcher/dispatcher.py` |
| `ProjectChain` | a video project: scenes, upscale and assembly in `project.json` against the jobs of the queue, pages beside the worker | `project.py`, `assemble.py`, `engines/ltx.py`, `worker.py`, `web.py` |
| `ClipGates` | a clip or song project before its scenes: approvals, song job, retry, scenario turns and edits | `web.py`, `worker.py`, `project.py` |
| `StudioWorker` | the studio's tasks: API, worker, gate, ComfyUI, recovery | `studio/worker.py`, `tasks.py`, `gpu.py`, `plans.py`, `executors/comfy.py` |
| `StudioOps`, `StudioTabs` | what the studio's operations do to a project's scenes; the tabs that call them, with drafts, conflicts and reloads | `studio/ops.py`, `ScenarioStep.tsx`, `SceneCard.tsx`, `sceneDraft.ts`, `ProjectScreen.tsx`, `useEvents.ts` |
| `FrameGrid`, `ClipScenes` | the lengths an engine renders; from a song's sections over scenario and gate to the clip's scenes | `web.py`, `songrun.py` |
| `ScenePicture` | `ClipScenes` with what each scene asks for, what is cut off it, and the film | `assemble.py`, `web.py` |
| `ChatTurns` | one chat session under the server's threads, and what a provider answers on the wire | `web.py`, `provider.py` |
| `JobFiles` | the directories, prompts, clips and checkpoints of the jobs, under the page's requests and the worker | `web.py`, `queue.py` |
| `Library` | one card, its versions and the projects that pin it | `library.py`, `web.py` |
| `JobQueueProofs`, `SglangProofs`, `MlxProofs`, `FilesProofs`, `GpuProofs`, `WebProofs`, `ProjectProofs`, `StudioProofs` | theorems and proofs | |
| `MCSglang`, `MCMlx`, `MCGpu`, `MCProject`, `MCGates`, `MCStudio`, `MCCheckpoint`, `MCTabs`, `MCClips`, `MCChat`, `MCFiles` | instances for TLC | |

`PanelWorker` EXTENDS `JobQueue`, and `SglangWorker` and `MlxWorker` EXTEND
`PanelWorker`: a worker's step is a conjunct of a control point and one queue
operation, so no module restates the queue. `ScenePicture` EXTENDS `ClipScenes`;
`MCFiles` looks at `JobFiles` and `Library`, which share only the server's threads.

### How state and actions correspond to the code

`dir[j]` is the directory the job's file lies in ("new" before it is submitted,
"gone" after it was withdrawn or removed), `file[j]` the fields that decide
something: readable at all, stem, priority, `engine_ref`, `cancel_reason`.
`marker`, `lease` and `paused` are the files of those names. `disk[s]` is what lies
at an output stem: nothing, a report or other traces, a clip that fails the frame
check or is half-written, a sound clip.

A call that holds `queue_lock` is one action. Calls are not grouped: `wpc` is the
worker's place between two calls, and anybody may move while it stands there. A
death (`WDie`) takes locals and flocks and leaves the files. Writes are durable
before they are visible (`write_json_durably`: temporary file, fsync, rename), so a
death inside a call leaves the state before it or after it, with one exception:
`submit` claims the id with an empty file first, and its death leaves that
(`SubmitKilled`).

Job ids are numbers, ordered as `claim` orders id strings. `SglangWorker` numbers
the video ids of a job by its accepted POSTs, so that `posts`, `blind` (deaths past
the POST of a job without a durable trace), and, in `MlxWorker`, `orphaned` (deaths
of a worker by SIGKILL, or by a second signal before `_current_child` is set, that left a
child running) are history: no action tests them, but for the bound `MaxPosts`.

`Checkpoint`. `ckpt` is the file of one identity: its completed steps, the conditioning
rows it stores (`cond`) and the versions of the tail its steps were denoised under
(`under`). `pc[p]` is a process between two steps of `run_generate` and of
`CheckpointingPipeline.__call__`; `ctx[p]` the version of the tail it has read, `base[p]`
the checkpoint it resumes from, `own` the tail it leaves, `clip` the mp4. `watch` is
`runs.scan` between its two listings, its reads and its probes. `torn`, `rotted`, `seen`
and `moved` are history.

`GpuDispatcher`. `rec[e]` and `unloaded` are `state.json`; `op` is the operation under
`_ops` and what it still has to do; `grp[p]` is the process group with leader `p`, of
which a record holds only the number, so that a dead record may name a group that is
now another's (`Alive` and `Orphaned` are the code's tests of that). An engine of `Scripted`
is `bash serve.sh` at first (life "script"), whose command line has no marker, until it execs
(`ScriptExecs`). `dfd` is the dispatcher's descriptor of the lock, `grp[p].fd` the one an
engine inherited; `grp[p].missed` (an operation took the group for gone while it was the
script), `grp[p].stray` (the dispatcher died before it recorded the group) and `ousted` are
history.

`ProjectChain`. `file` is `project.json`, `jobs` what the queue has in `pending/` and
`running/`, `op[p]` where a page's request or the worker stands and what it carries
from its last read. One write under the project lock is one action; `advance_project`
is the actions from `Look` on. A take is named by the job that shot it (the clip's
file name has the job's own tag). `torn` names the scenes (and the final, 0) that were
written over a reset their writer had not seen, until the next reset; `blame` names
the reasons for which a chain may stop. Both are history: no action tests them.

`ClipGates`. `file` is what the gates read and write of `project.json`: the stages, the
take, the scenario (with the take it was written for) and the scenes' cut (from which
scenario and take). `song` is the project's one song job, `wpc` the worker's place in
`_run_song_job`, `op[p]` a request between its look and its writes: `seen` is what a
whole-file save will write back, `stale` says that somebody wrote since. `stale` and
`blame` are history.

`StudioWorker`. `status[t]`, `attempts[t]`, `ref[t]` and `t \in pressed` are columns of the
task's row, `restarted` the tasks whose engine is younger than their stamps; `pc`, `cur`,
`from`, `todo` are the worker's place, its task, the phase it returns to and what recovery still
has to do; `prompt[t]` is what ComfyUI knows of the task, `files` the tasks whose output folder
holds a result; `engine` and `own` are its process and whether the dispatcher's record names the
studio. One SQLite transaction or one request is one action. `doubled`, `blind` and `slipped`
are history.

`StudioTabs`. `project` is the row of SQLite with its scenes, `card[t]` the cards of tab
`t`: the version typed over, the draft with its dirty fields, the patch in flight. `snap`,
`load` and `loaded` are the tab's snapshot and its latest reload, `op[t]` the one operation
on the set it may have in flight (the page's `busy`), `stray` the requests that are served
after their tab has given up on them.

`ClipScenes` and `ScenePicture`. Time is in ticks of 1/1440 s, so a frame is 60 and no sum is
rounded. `track` is what was heard, `scenario` the text with its breaks and passports,
`scenes` the cut of `build_clip_scenes`; `shots[k]` is the record of scene `k`'s clip (its
frames, what is dropped at its head, its tail, its piece of the track), `film` the length
`assemble.run` ends with.

`ChatTurns`. `file` is the session, `lock` the inode its lock file's name stands for (a
deletion unlinks it, and who waits on it then holds the lock of nothing), `th` the threads.
`born` and `answer` are history.

`JobFiles`. A path is the sequence of its names; `jobs` says where each job's record lies and
what it says, `prompts`, `clips` and `tails` are the files beside it, `op` a request between
its reads and its writes. A submission checks the roots (`CheckRoots`, the page, no lock) and
is filed (`Submit`, under the queue's lock, where the directory is chosen again); `op.checked`
is the directory that passed. `alone`, `doomed`, `torn` and `moved` of a job are history.

`Library`. `dir` is which directory has the card's name, `dirs` what every directory that
ever had it holds, the one in the trash too; `cardLock` is per directory, as the lock file is.
`raced`, `foreign` and `cut` are history.

### What is abstracted
The arguments, the payload, estimates, logs, progress, wait reasons and report texts
(no decision of the modelled code depends on them); the seconds of every sleep (any
step may be delayed for ever unless fairness says otherwise); the frame check's
arithmetic (a clip is sound or not, and the check tells); the dispatcher, H3 and the
LLM, to their answers. In `SglangWorker` and `MlxWorker` a song, assembly or upscale
job is not one of the jobs; while one runs the worker is between `lease` and `mark`
as for a scene. `SglangWorker`'s page has no chat turn with a local LLM: the deployment on the
Linux machine configures no provider that owns a process (`_llama_for`), and only such a turn
reconciles (`web.py:6316`). With one, that `reconcile` could take a job from under the worker
as it does on the Mac (section 4): `Lifecycle` and the liveness of the sglang runs do not hold
then, and say nothing of such a configuration.

*Checkpoint*: a latent is the set of tails it was computed under: the rows of a step are a
function of the request, the schedule and the conditioning, and only the tail can change
under one digest. The fast-forward to the seam is one step with loading; the write is its
rename, since the temporary file carries the pid. The prompt's embeddings, the RNG key
(restored where the rows are compared), `--keep-checkpoint`, the format version and the
sound file (beside the clip) are left out. `Rot` stands for whatever makes a file unreadable.

*Dispatcher*: seconds; `nvidia-smi` and `/health` may miss an engine or see a stranger's, chosen
anew at every look; a script that has not reached its exec, and an engine that loads, are not on
the card's list; the answers that change nothing ("wait", "wait_qwen", 409) are no steps; a
`qwen.sh` that survives the dispatcher's death ends before it is back; `Init` may have one
record without owner, as an older dispatcher wrote it.

*Project*: video projects on sglang; the queue is a set of jobs in the order of their
ids (its own model is `JobQueue`), a scene's run ends with a clip or without. The two
reads of `advance_project` are one step, since the claim looks again under the lock;
so are a retry's scan with its cancels, `fail_running_upscale`, and the two writes of
the route's rebuild. Draft assembly, the sweep of artifacts, references, settings and
deletion are not modelled; the lengths and the Mac's chain with its latent tails are
`ScenePicture`'s.

*Gates*: one project, the worker's other jobs left out; a take is its record in
`project.json`, not the mp3 at its fixed path; a scenario is who wrote it for which
take, its validation against the track an outcome; the assembly stage a song's approval
closes beside the scenes, seeds and styles are left out. `advance_project` is its
result: the scenes run, or the submission failed.

*Studio*: one kind of task (pictures, the only one built) and therefore a queue in
row order; progress, wait reasons and `engine_stop`; the ref of a task at rest, which
nobody reads; ComfyUI's files are there at once with its "done"; a prompt off
ComfyUI's lists does not come back, so `MAX_SAME_REF_POLLS` is never reached; a crash
record that fails itself; the Mac's flock gate. The web's card release is
`EngineEnds`. A press is also possible while the task is `submit_unknown` and still
asked about: the theorem `EndIsAnEnd` names that one case.

*Tabs*: besides the modelled tab there are windows that are always up to date
(`OtherWindow`), so that one tab meets every concurrent edit; proposals are there from the
start, one per tab and each of one scene. A restore waits for the operation in flight, though
the page lets it be pressed then.

*Clips*: prompts and passports are the number of the section they belong to; of the words it
matters in which segments a line was heard. The code's floats are ticks here. Requests of
this part come one at a time: their overlaps are `ClipGates`'.

*Picture*: a submission and its render are one step (`ProjectChain` has the steps between);
whether a tail gets to the disk and whether a frame can be read is an outcome; padding and
trimming are exact to a frame.

*Chat*: of a text its form and the kind and scenes of a project are kept; what refuses a turn
before the model is asked is one outcome. Reading a session and making a project of it change
nothing here. Only the kinds video and clip.

*Files*: the submissions of the Mac's panel, one size; the spelling of flags and the dry run's
refusals are guards; the two unlinks of a removal are one step; a checkpoint is known by its
prompt. *Library*: one card; the scan of the projects before a deletion is one step.

## 3. Runs

| run | instance | what it shows |
|---|---|---|
| `sglang` | 2 jobs, 2 stems, 1 death, H3 crashing at will | one running job, bounded posts, no overwritten clip, refinement of `JobLifecycle` |
| `sglang_life` | 1 job, 1 death, 1 stop signal, releases, priorities to 1 | cancelled jobs are filed; taken jobs are settled; waiting jobs are taken or the queue is paused |
| `mlx` | 1 job, 2 processes, 1 death, 1 stop | generations are doubled only by the children that a SIGKILL or an early second signal left; taken jobs are settled |
| `checkpoint` | 2 processes, 2 steps, 2 versions of the tail | no mixed conditioning; finished steps kept until the decode is over; a tail beside a clip is the clip's; `h3 watch` does not leave a live run. The exceptions are in the properties: `torn`, `moved`, `rotted` |
| `gpu` | 2 engines, 2 clients, 2 process groups | one engine at a time, and none without a record, but by a death between spawn and record (`stray`) or a request in the time of the start script (`missed`); Qwen is not forgotten; owners keep theirs |
| `project` | 3 scenes, the third fresh, 2 requests, 2 presses, 1 fault | chained scenes fit the takes before them; upscaled parts and the final belong to the takes there are; a chain stops only where something failed or for a reason in `blame` |
| `gates` | clip, old clip or song; generated or imported; both engines; 2 requests, 4 presses, 1 fault | the scenes are those of the approved scenario, written for the track there is; some button always leads on; each but for the overlaps named in `blame` |
| `clips` | songs of one to seven sections, every scenario of up to three, videos of three scenes, both engines, lost tails, one retry | an accepted scenario can be built; breaks and passports stay with their sections; the film is in time with the track |
| `chat` | 2 threads, 4 calls, 1 death, answers of up to four lines | exchanges are kept, deleted sessions stay deleted, the project follows the turns, a failure has its cause's name |
| `files` | 2 requests; 3 jobs and 4 calls, or one card with a project and 6 calls | no job loses a file it has a use for, and none is filed outside the server's directory (but `moved`); cards and pins hold; each but for the sharing and the races of section 4 |
| `studio` | 2 tasks, 1 fault, 2 status errors | no task on the engine twice; none forgotten; one on the engine; a cancel is not overruled; the worker comes back |
| `studio_tabs` | 1 tab and other windows, 2 scenes, 2 writes, 4 presses, 1 lost request | no lost edit, kept drafts, sources that follow the order, choices that hold, tabs that catch up |

Where a comment or docstring promises more than the code keeps, the property says what does
hold and names the exception: section 4.

### Bounds
- **Two jobs, two stems** (`sglang`): every property relates at most two jobs (two
  that share a stem, one that runs and one that waits, one removed and one filed).
  Priorities are fixed there; `sglang_life` has them.
- **One death** (`MaxKills`): a second death only repeats the recovery from a state
  that reconcile already put in order; the theorems of section 6 hold for any number.
- **`LostRetries` = 2**: one miss that is forgiven, one that is not (5 in the code).
- **`MaxPosts` = 3**: more than one death can cause.
- **`MaxStops` = 1**: a second signal is a death. **`MaxPriority`**: 0 or 1.
- **Two processes** (`mlx`): the orphan and its successor; a third needs two deaths.
- `sglang_life` and `mlx` have one job: what they ask is of one.
- **Two processes, two steps, two versions** (`checkpoint`): a resume from the first step, from
  the last and from none; the lock is contended by two; the tail is made again once. The
  theorems hold for any number of each.
- **Two engines, clients, groups** (`gpu`): an engine to stop and one to start, an owner and
  another, a group that lives and one whose pid is used again; one engine is started by a script
  and one is not; clients and groups are interchangeable (symmetry). Deaths and restarts are not
  bounded.
- **Three scenes, one fresh** (`project`): the second continues the first, the third
  neither; a retry has a tail and a scene beyond it. **Two requests** race with each
  other and the worker. **`MaxPresses` = 2** with the approval: one more button. One
  page with two scenes and three presses (6.0 million states), and two pages with two
  scenes, three presses and no fault, were run as well.
- **Two requests, four presses** (`gates`): script, track, scenario written and
  approved (five presses, 2.9 million states, were run as well); a third request overlaps
  as the second does.
- **Two tasks** (`studio`): one in hand and one waiting. **`MaxFaults` = 1**: a death
  or an escaped exception (two with two tasks, 1.5 million states, and four with one were run
  for the safety properties); the theorems hold for any number of both.
  **`MaxStatusErrors` = 2**: one forgiven, one not (30 in the code).
- **One tab, two writes, four presses** (`studio_tabs`): a patch or an operation meets one
  concurrent write before it is served and one after; two tabs with three writes were run for
  the safety properties.
- **Sections** (`clips`): three that fold, split and carry in every way, seven where the
  rounding of a seam adds up; one scenario written over another.
- **Two threads, four calls** (`chat`): a turn, one beside it, a deletion, a turn after it.
- **Two requests, three jobs, four calls** (`files`): a job to share with, one to copy or edit
  into it, one filed while the first is removed, one edited between another's check of the roots
  and its filing; one server is started in a directory named like a job's. Larger instances
  were simulated. A card meets
  six calls: made, updated, pinned, deleted, made again, updated.

### Deadlock
It is checked in every run but `project`, `gates`, `clips`, `chat`, `files` and `studio_tabs`:
the page, H3, an engine or a restart can always move. A project that is finished, or whose
presses, calls or writes are used up, stops.

## 4. What the code does not keep

### The panel
`PostsBoundedByBlindDeaths` and `OneGeneration` bound exactly how far the code is from a
promise: a scene may be posted again by a worker that died between the accepted POST and
`engine_ref` (against `engines/sglang.py:4`, "a scene is posted exactly once"), and a SIGKILL of
the worker, or a second stop signal that comes inside `spawn`, before `_current_child` is set
(against `_terminate_child_group`'s docstring), leaves a child that holds no lease, beside which
the next worker starts a second generation (against `worker.py:1205`). On the Mac a chat turn's
`reconcile` takes a job from under the worker between claim and lease, or between unlease and
finish (`worker.py:941`, `queue.py:989`); on sglang a worker that is past its test of the pause
claims a job after "free the card" has put the pause up. The start of a local LLM is given up
after 90 s and tried again beside the first, though `LlamaLocal` "owns one llama-server
process".

### The dispatcher
`_alive` takes an engine for ours by the markers in its command line, since "serve.sh `exec`s
... so the pid Popen returned *is* sglang". Until it does, the recorded leader is `bash
serve.sh`, and a request in that time finds neither a living engine nor an orphaned group: a
stop pops the record and kills nothing, so the engine runs on with no record; the `acquire` of
another engine does not see it and starts its own beside it, since the lock's descriptor is
still the dispatcher's; and another client's `acquire` takes it for dead and stops it, which
kills it if the script has reached its exec by the second look (`_stop`). No death of the
dispatcher is needed. `OneEngine` and `OwnersKeepTheirs` except the groups this happened to
(`missed`); for all others they hold. The other exception, a death between the spawn and
`state.json`, is `stray`.

### The checkpoint
The long comment at `checkpoint.py:66` and `docs/FEASIBILITY-latent-handoff.md` say that a
resume over a regenerated tail passes `_check_seam` unnoticed. It does not: the seam compares
the rows this run builds with those in the file, and refuses (`SeamRefuses`; `OneContext` is a
theorem). What is not compared is a checkpoint that is complete, where the clip then comes from the
old context. Three smaller observations stand in the model as guards or exceptions:
`h3 resume` looks for a file whose digest lacks the tail's anchors and so never finds that of a
run with `--latent` (`Begin`); it looks before the lock, and a file discarded or quarantined in
between makes it start from step 0; and a condemned clip takes the tail of an earlier success
at the same stem with it, since saving has overwritten that (`Condemn`).

### The jobs' files and the library
Two jobs of one minute and one slug, or a job edited into the directory of another, share it,
and the removal of one takes the other's clip, though `_delete_finished_job` says it removes
"that job's, and nothing else's". A flat removal takes a lone checkpoint that another flat job
left; of two removals of one job the second may take a job filed meanwhile; an update that is
cut between the copy of the prompt and the record leaves the new text under the old record; a
copy made of a job whose record is gone is filed inside the removed directory. `FilesStay`
excuses jobs that share a directory, and those filed below a directory that by its name is
another job's (`alone`). Under a server whose `--outdir` is named like a
job's directory, one edit of a job into it makes every later submission refused: the roots are
checked against the directory above. And that check runs before the queue's lock, the
directory is chosen again under it: an edit into `--outdir` that comes between them has the
job filed beside `--outdir`, outside every root, from where the page cannot remove it; where
`--outdir` carries the very minute and slug of the job, the turn of the minute is enough. The
docstring of `_refuse_if_relocation_escapes_the_roots` says that "the job never exists at all"
then, and that the clock's part is "harmless". `FilesStay` excuses those jobs (`moved`).

A request that waits on the lock of a card that is deleted goes on under the lock of the trash,
beside whoever holds that of a new card (`foreign`, against `_card_lock`'s docstring); pinning
takes only the project's lock, so a card can be deleted while it is pinned (`raced`, against
`library.py:216`); a version's directory that an error or a death has left blocks updates of
that version, and a creation that dies before `card.json` keeps its tag taken (`cut`).

### The scenes and the film
On the Mac the lengths of a `video` project are never snapped (`approve/script` snaps on sglang
only), so a chained scene of 6.0 s asks for 166 frames, which is off the grid: every submission
of it fails and the scene goes back to "pending", though `assemble.py:190` says the duration
"was snapped onto the *chained* grid". `PictureInTime` excludes those (`Ungridded`). The
panel's own procedural scenario can be accepted and then refused by an unedited approval (20.0 s
instrumental, for one), the tolerances of several seams can add up until the build refuses, and
four five-second or seven ten-second sections fail on the Mac: `ScenarioBuilds` names the two
causes. A section that is absorbed hands its passport on to the scene that absorbs it (against
`_fold_short_segments`) and its break to the start of the scene that survives.

### The studio's pages
A reload that fails once shows the error page for good and takes the drafts with it, against
`sceneDraft.ts:11`; a scene whose deletion the network lost stays marked as the tab's own, so
text typed later goes when another window deletes it; text typed into a removed card while its
restoration is in flight is lost. `DraftsKept` names all three. A deletion of the first scene
puts a scene that named it as its source back to the derived one.

### What the gates do not keep
The exceptions of the `gates` properties are behaviours of the code, each a value of
`blame`; the docstrings accept some of them as narrowed races. "raced": a scenario turn
that ends after the approval writes its text over it and opens the gate again
(`_generate_project_scenario`); a track is approved in the gap between a retry's
submission and its "running". "saved": the approval's `save()` writes the whole project
it has read. "again": the page dies behind the script's submission, the script is
approved once more when the track is approved already, and another song takes that
back. "resung": the worker dies behind its last write and before its marker, and the
song is sung again over an approved track. "withdrawn" and "outran": the retried song
is cancelled from the queue page, which only tells an upscale's project, or is over
before the retry writes "running": the stage runs for ever, and no button takes a
running track, though `_retry_project_track` calls that state not reachable.
One gate is skipped: on sglang the script's approval of an imported track approves the
track itself, and a clip from before the scenario stage then never has its scenes cut,
which `approve/track` would do so that it "does not get stuck forever" (web.py:5006).

## 5. Fairness

`Fair` (sglang) and `FairSpec` (MLX) assume that a live worker takes its next step
and that somebody starts a dead one again: the loop has no wait without a timeout
(`stop.wait(poll)`, sleeps in one-second slices), and the worker runs under a
service manager. MLX adds that a generator process runs on. `CancelledIsFiled` needs
nothing else: the gate and the poll loop look for the cancel before every wait.
`RunningIsSettled` and `QueueMoves` of sglang hold under `CardFair`: the gate, which
has no timeout by design, is answered "ready" again and again if it keeps asking
(strong fairness, since every other answer sends it back to ask), and H3 ends what it
computes. No fairness is given to the page: nobody has to press anything.
`Fairness` of `StudioWorker` is that of its container (a live worker steps, a dead one
is started again), of `DispatcherGate.acquire`, every round of which looks at the press
(`GateCancelled`), and of ComfyUI, which ends what it computes. The dispatcher owes
nobody the card, so `WorkerReturns` lets a task that is not cancelled wait for it.
Stop signals and deaths are bounded; without a bound nothing would ever finish, and
no code could help it.
`TabsCatchUp` assumes that the stream of events delivers and a reload is answered (`Follow`):
the browser reconnects an `EventSource` by itself, and a reload that fails shows the error page.

## 6. Proofs

Everything below is proved for any set of jobs and stems, any number of deaths,
stops, posts and retries, from the assumptions the modules name (`QueueAssumption`:
ids are numbers, `NoStem` is no stem; `WorkerAssumption`; `SglangAssumption`:
`Gate = "claim"`, `LostRetries` positive; and the like in the other modules: a bound is a
number, `Null`, `NoPid` or `NoProc` is none of the things it stands beside).

*The queue* (`JobQueueProofs`). `QueueTypes`, `QueueStemsDistinct` and
`QueueFiledStaysFiled` hold of `QSpec`: any caller, any order. `StemsDistinct` is
inductive together with the types and `Unborn` (a job that was never submitted has
no readable file).

*The worker* (`SglangProofs`). `IInv` is inductive (`StepIInv`). `OneRunning` alone
is not: that `claim` may add a job to `running/` needs that none is there at that
control point (`WorkerInv`), which is so because `reconcile` left none, because the
only lease is the worker's own. `MarkerDecides` needs that the marker of a job that
runs is none until `mark` and is `code` until `finish`. `PostsBoundedByBlindDeaths`
needs the conjunct of `JobInv` that says of a job which may still be posted that
every post so far was a dead worker's. From `IInv`:
- `SglangIsQueue`: every behaviour of the panel is one of `QSpec`, so what is proved
  of the queue is inherited (`SglangStemsDistinct`);
- `SglangOneRunning`, `SglangOwnsItsJob`, `SglangMarkerDecides`,
  `SglangPostsBounded`, `SglangTypes`;
- `SglangEvidence`: an action property, from `IInv` and what one queue call can do.

*The checkpoint* (`FilesProofs`), for any processes, steps and versions of the tail
(`CheckpointAssumption`: there is a step and a version, `NoProc` is no process). The inductive
invariant has three parts: whoever is between the lock and its release holds it (`Exclusive`);
a process has no rows, or the checkpoint's alone, or those of its own tail alone (`Contexts`,
`Rows`); the file is where its one writer is (`Progress`). `OneContext` alone is not inductive:
a forward adds the process's tail to its rows, and that this mixes nothing at the seam is
because the comparison equates the tail with the file's, and behind it because the rows are the
process's own. From it: `TypeCorrect`, `LockIsExclusive`, `ContextIsOne`, `WorkSurvives`, and
`CheckpointNeverBack`, an action property no run checks. `TailFits` needs `Paired` besides:
while nothing is torn one run at a time is between its tail and its clip, and who writes the
clip finds the lock free, or two runs could each leave half of a pair. `WatchIsHonest` needs
`Scanned`, what a scan knows by where it is: whoever has held the lock since it began holds it
still, so four looks that find no live run have all been overtaken (`moved`).

*The studio* (`StudioProofs`), for any number of tasks, deaths and exceptions
(`StudioAssumption`: at least one status error is allowed). The inductive invariant says what
the row of the worker's task shows at each place, a press apart (`Followed`); what each phase
of a recovery has left (`Owed`); that the rows nobody holds are at rest (`Settled`); that who
holds or inherits the card is one (`Alone`); that who may still be sent has no request on its
way and no files (`Sent`); and who knows of the engine (`Held`). `OneCopy` needs the files as
well as ComfyUI's lists: `lost` becomes `queued` only where both have no trace of the task.
`OneOnEngine` excepts the time from a recovery that failed at its first transaction to the end
of the next one. The runs' single fault could not tell that from "until the next start", which
the induction refused: the third fault finds two rows on the engine after it. From it:
`TypeCorrect`, `NeverResent`, `NobodyIsAbandoned`, `CardIsOne`, `EngineIsReleasable`, and the
action properties `CancelHolds` and `EndIsAnEnd`.

*The life of a job* (`SglangLifecycle`): every step moves the abstract life of at most one
job, by a step of `JobLifecycle` (`LifeStep`). `reconcile` looks like an exception, as it moves
all running jobs at once; by `OneRunning` it moves one. `SglangNoOverwrite` needs that the clip
an active job's stem has is that job's own (`ClipsOwned`), `SglangUnsoundNeedsDeath`, which no
run checks, that a clip on disk was checked unless its downloader died (`Attended`).

*The Mac's panel* (`MlxProofs`), for any jobs, processes and deaths. `MlxIsQueue`: its steps are
steps of `QSpec`, whatever the page's `reconcile` takes from under the worker; from it
`MlxStemsDistinct` and `MlxFiledStaysFiled`. `MlxOneGeneration`: the generations nobody waits
for (`Lost`) are at most the deaths that orphaned one, by SIGKILL or by a signal that found no
`_current_child`; a new one starts only when the worker has no child.

*The dispatcher* (`GpuProofs`), for any engines, clients and pids. `GpuOneEngine`: an engine that
runs holds the lock's file (`Holds`), so a dispatcher without a descriptor of its own takes the
lock only when nothing of ours runs; one that has kept its descriptor knows by its records what
runs (`Known`) and starts nothing before it has stopped that (`Cleared`). A group that was sent
SIGKILL counts as gone for the card, but in the induction it counts for as long as a record
names it, since a later stop sends that group SIGTERM. What was missed in its script counts for
nothing from then on, as it may run beside any other; what a dead dispatcher has not recorded
holds the lock, and so runs alone. `GpuQwenIsRemembered` follows from
`QwenInv`, `GpuOwnersKeepTheirs`, an action property, from what an operation may still have to
do (`OpInv`).

*The gates* (`WebProofs`), for any requests, presses and faults. `Fed` is what
`GatesScenesAsApproved` needs: a request nobody overtook has seen what the file says, the track
is approved only while no song can change its take, and an open scenario was written for that
take. `Led` is what `GatesNoDeadEnd` needs: a stage that runs has a song that will end it, and a
request on its way to an approval has started what the approval promises.

*The project's chain* (`ProjectProofs`), for any pages, scenes, presses and faults.
`ProjectChainIsFresh` rests on `Shot`, of scenes nobody wrote over: a process between its claim
and its record has the scene to itself (`Alone`); the take it carries for the keyframe is still
that of the scene before; and the job the scene names was sent with that take, wherever it is by
now: queued, in the worker's hands, or shot and not yet written (`Bears`). What keeps it is that
a scene is only written while it is not done, so no take changes that another scene was made
from (`Touches`), and that a reset takes the whole tail. `ProjectFinalOfTakes` adds `Built`:
while nothing is torn the worker joins the takes there are. `torn` is what the induction cannot
do without: each of the four places that set it is a write over a reset the writer has not seen.
`ProjectNothingHangs` rests on `Going`, of a project nobody is to blame for. A scene that runs has
somebody who ends its run (`Living`): the process that claimed it, the job it names, the worker
with that job's result, or a reset on its way. An upscale or an assembly that runs has a job that
is still to end it (`Ending`). And from the approval's first look on the chain is driven
(`Driven`): somebody is about to look at the project, a job of a late stage is queued, a scene
runs, or the project stands where the page shows it. Whoever takes one of these away goes to look
next; and a look stops only where another is left, for which the first scene that is not done
must be pending, failed or running (`OneRuns`). `Free`, that only a job's body names a job, tells
a death that requeues the job from one that loses the step (`blame`).

*A chat session* (`WebProofs`), for any threads, calls, deaths and replies. `ChatKeepsExchanges`
rests on `ChatInv`: of the threads that work under one lock file one has it (`Exclusive`); a call
is one thread's and is numbered once (`Numbered`); a thread that has read the session and still
holds the lock by its name holds what the file says (`Working`); what was answered is there once,
was refused or is deleted (`Answered`). While the session is there, everybody
past the opening has the one lock file; a deletion unlinks it last, so who still waits on it then
finds no session.
`ChatProjectFollows`: each field of the session's project is the last value a kept turn gave it.

*The studio's tabs* (`StudioProofs`), for any tabs, scenes, words and lost or late requests
(`TabsHold`, the inductive invariant `TabsInv`). Every version of a scene that a card, a snapshot,
a request in flight or one that is served late holds is no newer than the project's and, with the
same `edit_version`, has the same content (`Known`, `Behind`); an id is never given twice, so an
old request cannot hit a new scene; a patch on its way carries its card's dirty fields
(`Unsaved`); a page shows the cards of its snapshot and of its orphans (`PageOf`). What
`replace_scenes` makes of one scene and of the set is stated once (`StoredScene`, `Advance`) and
cited by every action that is served. From it: `TabsSourcesFollow`, and the action properties
`TabsLoseNoEdit`, `TabsKeepDrafts` and `TabsKeepChoices`.

*The jobs' files* (`FilesProofs`), for any requests, jobs, tags, minutes and `--outdir`
(`FilesAssumption`: a tag and its slug are texts, `--outdir` is a path of at least one name).
`FilesAreKept` rests on `FilesInv`. A job that is on its own (`OnItsOwn`) has a directory no other
job's record names, no other job's removal still has to take, and above which, below `--outdir`,
no name is a job's (`Apart`); from that the removal of a tree that begins elsewhere leaves it alone
(`ApartIsSafe`). That a job lies in the server's directory rests on what a submission carries
from its check (`Placed`): what hangs from the directory that passed is inside, whatever the
minute (`MovedIs`). What a request carries from its reads is `Carried`: a removal has the stem its
job had, which a finished job keeps.

*The library* (`FilesProofs`), for any callers, projects and faults (`CardAssumption`: `Nobody` is
no caller). `CardsAreKept` rests on `CardInv`: a lock has one holder, and who is past it holds it
(`LocksHeld`); while no request has worked under another directory's lock, who works on the card
has it as the file has it (`Sees`), so a write adds a version to the card that is there and changes
none; the assets a version names are there (`Versions`); a directory without a card, or
a version's without its entry, is somebody's who is still making it (`BeingMade`, `Unnamed`)
unless a fault cut that short; and between the scan of a deletion and its
move nothing is pinned but in a race (`NothingPinned`).

Proving found what the runs could not see: `CASE` with overlapping conditions in three modules,
which TLC reads in order and the logic does not (their branches are exclusive now); an operation
of `OtherWindow` that the server would have refused; and two holes in what `FilesStay` excuses, a
job filed below the directory of a removed job, and two removals of one job with another filed
between them, which need more jobs and calls than the runs have.

*Only model-checked*: every liveness property (`CancelledIsFiled`, `RunningIsSettled`,
`QueueMoves`, `WorkerReturns`, `TabsCatchUp`: no fairness and no `ENABLED` is at hand); the
safety properties of `ClipScenes` and `ScenePicture` (`ScenarioBuilds`, `OpeningsKept`,
`SectionsFollow`, `PictureInTime`), which are computed by folds over sequences, where what a fold
returns for every input is an induction over data and out of reach here; and `CauseNamed`, which
walks the lines of a stream in the same way.

## 7. Plan

Done: the queue, the loop, both engines' bodies, the abstract life with its refinement, the
dispatcher, the projects' gates and chain, the scenes and the film, chat sessions, the jobs'
files, the library, the studio's worker and its tabs, the checkpoint, and the proofs above.
Next, in this order:

1. The gate and the idle release of the panel's worker composed with the dispatcher
   ("released" overwritten by "user", the one look at `/status`).
2. `MlxWorker`'s generator implements the lock part of `Checkpoint`.
3. `sglang.py:295`: a run that says how often a clip is filed unchecked (proved only, as
   `SglangUnsoundNeedsDeath`).

Not planned: the studio's plans and idempotency keys (single transactions); the numerics, the
panel's own page, parsers and estimates (no concurrency and no state that outlives a call); H3,
ComfyUI and the LLM themselves (not in this repository).
