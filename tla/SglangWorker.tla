---------------------------- MODULE SglangWorker ----------------------------
(***************************************************************************)
(* The panel on the Linux machine: the worker runs a generate job by       *)
(* asking the GPU dispatcher for the card, posting the scene to an H3      *)
(* server over HTTP, and polling it (engines/sglang.py run_generate, the   *)
(* gate and _IdleRelease of worker.py).  The page may cancel a running     *)
(* scene, or take the card away (web._gpu_release).                        *)
(***************************************************************************)
EXTENDS PanelWorker

CONSTANTS
    LostRetries,  \* misses after which the server is given up
    MaxPosts,     \* bound on the scenes H3 accepts for one job
    Releasing     \* whether the page's "free the card" is pressed at all

ASSUME SglangAssumption ==
    /\ Gate = "claim"
    /\ LostRetries \in Nat \ {0}
    /\ MaxPosts \in Nat
    /\ Releasing \in BOOLEAN

VARIABLES
    misses,   \* run_generate's count of unanswered polls
    posts,    \* history: for each job, how many of its POSTs H3 accepted; a job's
              \* video ids are numbered so
    blind,    \* history: deaths of the worker past the POST of a job, with
              \* neither its engine_ref nor its marker on disk
    video,    \* what GET finds of the id the worker polls; "none": 404
    rel,      \* where the handler of /api/gpu/release is
    relJob    \* the running job it saw

evars == <<misses, posts, blind, video, rel, relJob>>
vars == <<qvars, wvars, evars>>

Outcomes == {"good", "bad", "failed"}

BodyPoints == {"gate", "ask", "post", "record", "poll", "get", "check", "after"}

TypeOK ==
    /\ QTypeOK
    /\ wpc \in LoopPoints \cup RunPoints \cup BodyPoints
    /\ cur \in Job \cup {NoJob}
    /\ code \in BOOLEAN /\ claimed \in BOOLEAN /\ stopping \in BOOLEAN
    /\ stops \in Nat /\ kills \in Nat
    /\ misses \in Nat
    /\ posts \in [Job -> Nat]
    /\ blind \in Nat
    /\ video \in {"none", "computing"} \cup Outcomes
    /\ rel \in {"off", "pause", "cancel", "free"}
    /\ relJob \in Job \cup {NoJob}

Init ==
    /\ QInit
    /\ WInit
    /\ misses = 0
    /\ posts = [j \in Job |-> 0]
    /\ blind = 0
    /\ video = "none"
    /\ rel = "off"
    /\ relJob = NoJob

-----------------------------------------------------------------------------
RelSame == UNCHANGED <<rel, relJob>>
H3Same == UNCHANGED <<posts, blind, video>>

\* Stopped by the dispatcher or dead on its own, H3 forgets every scene.
H3Forgets ==
    /\ video' = "none"
    /\ UNCHANGED <<posts, blind>>

Loop == WLoop /\ UNCHANGED evars

-----------------------------------------------------------------------------
(* run_generate.  A step that ends it goes to "after", where the card may  *)
(* have to be given back before the marker is written.                     *)

Cancelled == file[cur].cancel # "none"

At(from, to) ==
    /\ wpc = from
    /\ Go(to)
    /\ RelSame

\* done(code, line, report): the report lands beside the clip.
Over(from, ok) ==
    /\ wpc = from
    /\ wpc' = "after"
    /\ code' = ok
    /\ misses' = 0
    /\ UNCHANGED <<cur, claimed, stopping, stops, kills>>
    /\ RelSame
Report == WriteReport(file[cur].stem)
Quiet == UNCHANGED qvars

\* Mutant: a resumed job is posted like a new one.
EnterAlwaysPosts ==
    /\ wpc = "body"
    /\ \/ Cancelled /\ Over("body", FALSE) /\ Report
       \/ ~Cancelled /\ At("body", "gate") /\ Quiet /\ UNCHANGED misses
    /\ H3Same

\* A job that already has an engine_ref is polled, never posted again.
Enter ==
    /\ wpc = "body"
    /\ \/ /\ file[cur].ref = NoRef /\ Cancelled
          /\ Over("body", FALSE) /\ Report
       \/ /\ file[cur].ref = NoRef /\ ~Cancelled
          /\ At("body", "gate") /\ Quiet /\ UNCHANGED misses
       \/ /\ file[cur].ref # NoRef
          /\ At("body", "poll") /\ Quiet /\ UNCHANGED misses
    /\ H3Same

\* The gate has no timeout: it ends when the card is ready and cool, when the
\* engine failed to start (Crash), or when the job is cancelled.
GateCheck ==
    /\ wpc = "gate"
    /\ \/ Cancelled /\ Over("gate", FALSE) /\ Report
       \/ ~Cancelled /\ At("gate", "ask") /\ Quiet /\ UNCHANGED misses
    /\ H3Same

\* Ready, and cool or of unknown temperature.
GateReady == At("ask", "post") /\ Quiet /\ UNCHANGED misses /\ H3Same

\* starting, hot, wait, wait_qwen, or no dispatcher: look and ask again.
GateWait == At("ask", "gate") /\ Quiet /\ UNCHANGED misses /\ H3Same

\* H3 takes the scene: it computes whether or not anybody hears the answer.
Accept ==
    /\ posts[cur] < MaxPosts
    /\ posts' = [posts EXCEPT ![cur] = @ + 1]
    /\ video' = "computing"
    /\ UNCHANGED blind

PostAccepted == At("post", "record") /\ Accept /\ Quiet /\ UNCHANGED misses

\* SglangHTTPError, or SglangUnavailable: refused, reset, timed out.
PostFailed == Over("post", FALSE) /\ Report /\ (H3Same \/ Accept)

\* Between the accepted POST and this write only H3 knows of the scene.
Record ==
    /\ At("record", "poll")
    /\ SetRef(cur, posts[cur])
    /\ UNCHANGED misses /\ H3Same

\* Mutant: the poll loop never reads cancel_reason.
PollCheckDeaf ==
    /\ At("poll", "get") /\ Quiet
    /\ UNCHANGED misses /\ H3Same

\* DELETE makes H3 forget the id, if it hears it.
PollCheck ==
    /\ wpc = "poll"
    /\ \/ /\ ~Cancelled
          /\ At("poll", "get") /\ Quiet
          /\ UNCHANGED misses /\ H3Same
       \/ /\ Cancelled
          /\ Over("poll", FALSE) /\ Report
          /\ video' \in {video, "none"}
          /\ UNCHANGED <<posts, blind>>

GetComputing ==
    /\ At("get", "poll")
    /\ video = "computing"
    /\ misses' = 0
    /\ Quiet /\ H3Same

GetCompleted ==
    /\ At("get", "check")
    /\ video \in {"good", "bad"}
    /\ PutClip(file[cur].stem, video)
    /\ misses' = 0
    /\ H3Same

\* failed, 404, or another 4xx on the id or its content.
GetFailed == Over("get", FALSE) /\ Report /\ H3Same

\* Mutant: an H3 that never answers is never given up.
GetMissedForEver ==
    /\ At("get", "poll") /\ Quiet
    /\ UNCHANGED misses /\ H3Same

\* No answer, a 5xx, or a download cut short.
GetMissed ==
    /\ wpc = "get"
    /\ \/ /\ misses + 1 < LostRetries
          /\ At("get", "poll") /\ Quiet
          /\ misses' = misses + 1
       \/ /\ misses + 1 >= LostRetries
          /\ Over("get", FALSE) /\ Report
    /\ H3Same

\* _flat_frames: only now is the clip known to be sound.
Check ==
    /\ wpc = "check"
    /\ Over("check", disk[file[cur].stem] = "good") /\ Report
    /\ H3Same

\* An exception out of run_generate: the engine failed to start, the disk is
\* full, a bug.  _run_sglang_generate_job turns it into exit code 1.
Crash ==
    /\ wpc \in BodyPoints \ {"after"}
    /\ Over(wpc, FALSE) /\ Quiet
    /\ H3Same

\* dispatcher.release(everything) for a scene the page took the card from.
After ==
    /\ At("after", "mark") /\ Quiet /\ UNCHANGED misses
    /\ (H3Same \/ (file[cur].cancel = "released" /\ H3Forgets))

Body ==
    \/ Enter \/ GateCheck \/ GateReady \/ GateWait \/ PostAccepted \/ PostFailed
    \/ Record \/ PollCheck \/ GetComputing \/ GetCompleted \/ GetFailed
    \/ GetMissed \/ Check \/ Crash \/ After

-----------------------------------------------------------------------------
(* Everybody else.                                                         *)

Blind == wpc \in {"record", "after", "mark"} /\ file[cur].ref = NoRef

Die ==
    /\ WDie({cur})
    /\ misses' = 0
    /\ blind' = IF Blind THEN blind + 1 ELSE blind
    /\ UNCHANGED <<posts, video>>
    /\ RelSame

Others(A) == A /\ UNCHANGED <<wvars, misses>>

PageRequest ==
    /\ Others(Page \/ \E j \in Job : RequestCancel(j, "user"))
    /\ H3Same /\ RelSame

\* _gpu_release, confirmed: it looks, pauses, and then either asks the running
\* scene to stop or frees the card itself.
ReleaseLook ==
    /\ Releasing
    /\ rel = "off"
    /\ rel' = "pause"
    /\ \/ \E j \in Job : dir[j] = "running" /\ relJob' = j
       \/ (\A j \in Job : dir[j] # "running") /\ relJob' = NoJob
    /\ Others(Quiet) /\ H3Same

ReleasePause ==
    /\ rel = "pause"
    /\ Others(SetPaused(TRUE))
    /\ rel' = IF relJob = NoJob THEN "free" ELSE "cancel"
    /\ UNCHANGED relJob /\ H3Same

\* JobNotRunning: it ended since the look, so the card is freed after all.
ReleaseCancel ==
    /\ rel = "cancel"
    /\ \/ /\ dir[relJob] = "running"
          /\ rel' = "off"
          /\ Others(RequestCancel(relJob, "released"))
       \/ /\ dir[relJob] # "running"
          /\ rel' = "pause"
          /\ Others(Quiet)
    /\ relJob' = NoJob
    /\ H3Same

\* The dispatcher answers, or cannot be reached.
ReleaseFree ==
    /\ rel = "free"
    /\ rel' = "off"
    /\ (H3Same \/ H3Forgets)
    /\ Others(Quiet) /\ UNCHANGED relJob

Release == ReleaseLook \/ ReleasePause \/ ReleaseCancel \/ ReleaseFree

VideoEnds ==
    /\ video = "computing"
    /\ video' \in Outcomes
    /\ Others(Quiet) /\ RelSame /\ UNCHANGED <<posts, blind>>

H3Crash == H3Forgets /\ Others(Quiet) /\ RelSame

WorkerStart == WStart /\ UNCHANGED evars
StopSignal == WStopSignal /\ UNCHANGED evars

Next ==
    \/ Loop \/ Body \/ WorkerStart \/ StopSignal \/ Die
    \/ PageRequest \/ Release
    \/ VideoEnds
    \/ H3Crash

Spec == Init /\ [][Next]_vars

\* A live worker takes its next step, and somebody starts a dead one again.
Fair == WF_vars(Loop \/ Body \/ WorkerStart)
FairSpec == Spec /\ Fair

\* The card is not kept from the panel for ever, and H3 ends what it computes.
CardFair == SF_vars(GateReady) /\ WF_vars(VideoEnds)

-----------------------------------------------------------------------------
(* The properties.                                                         *)

\* At most one job is in running/: a worker that finds the wreckage of another
\* settles or resumes it before it claims anything.
OneRunning ==
    \A i, j \in Job : dir[i] = "running" /\ dir[j] = "running" => i = j

\* From the lease to its release the job run_job works on is in running/ and
\* its lease is the only one held; when finish is called the job is still in
\* running/ and a result marker backs it.
WorkerOwnsItsJob ==
    /\ wpc \in BodyPoints \cup {"body", "mark", "unlease"} =>
          dir[cur] = "running" /\ lease = {cur}
    /\ wpc = "finish" => dir[cur] = "running" /\ marker[cur] # "none"

\* H3 computes a scene again only if a worker died past its POST before the
\* engine_ref or a marker was durable, and no more often than that happened
\* (engines/sglang.py:4 promises that a scene is posted exactly once).
PostsBoundedByBlindDeaths ==
    \A j \in Job : posts[j] <= 1 + blind

\* A filed job with a result marker was filed as the marker says, whoever
\* filed it: the worker that wrote the marker or the next one's reconcile.
MarkerDecides ==
    \A j \in Job :
        /\ dir[j] = "done" => marker[j] # "bad"
        /\ dir[j] = "failed" => marker[j] # "ok"

\* Nothing but a worker's death files a clip that fails the frame check as done.
UnsoundDoneNeedsDeath ==
    [][\A j \in Job : dir[j] = "running" /\ dir'[j] = "done" /\ kills = 0
                      => disk[file[j].stem] # "bad"]_vars

\* No download replaces a clip: the stem was free when the job took it, nobody
\* else could take it since, and a job with a clip on disk is not run again.
NoClipOverwritten ==
    [][GetCompleted => ~HasClip(cur)]_vars

\* A job that H3 accepted, that has a clip or that has a result is never put
\* back into pending/, where the next claim would run it again.
EvidenceForbidsRequeue ==
    [][\A j \in Job :
          /\ dir[j] = "running"
          /\ file[j].ref # NoRef \/ marker[j] # "none" \/ HasClip(j)
          => dir'[j] # "pending"]_vars

\* A placeholder that submit's death left behind is a job that never was.
PhaseOf(j) ==
    IF dir[j] = "pending" THEN (IF file[j].whole THEN "queued" ELSE "new")
    ELSE IF dir[j] = "running" THEN "started"
    ELSE dir[j]

\* The panel implements the abstract life of a job.
L == INSTANCE JobLifecycle WITH
        phase <- [j \in Job |-> PhaseOf(j)],
        engaged <- [j \in Job |-> file[j].ref # NoRef],
        fate <- marker
Lifecycle == L!Spec

\* A cancelled scene is filed, however long the card or H3 keeps it waiting.
CancelledIsFiled ==
    \A j \in Job : (dir[j] = "running" /\ file[j].cancel # "none") ~> dir[j] # "running"

\* With a card to be had and an H3 that ends what it computes, every scene a
\* worker took is filed or put back.
RunningIsSettled ==
    CardFair => \A j \in Job : dir[j] = "running" ~> dir[j] # "running"

\* A job that waits is taken or withdrawn, or the queue is paused.
QueueMoves ==
    CardFair => \A j \in Job : Claimable(j) ~> (paused \/ ~Claimable(j))

-----------------------------------------------------------------------------
(* The inductive invariant behind OneRunning, WorkerOwnsItsJob,            *)
(* StemsDistinct, MarkerDecides and PostsBoundedByBlindDeaths.             *)

Idle     == {"down", "top", "paused?", "claim"}
Holding  == BodyPoints \cup {"body", "mark", "unlease"}
Deciding == BodyPoints \cup {"lease", "body", "mark"}
Unsure   == {"record", "after", "mark"}

\* What the worker's control point says of its job and of the leases.
WorkerInv ==
    /\ wpc \in Idle <=> cur = NoJob
    /\ lease = IF wpc \in Holding THEN {cur} ELSE {}
    /\ wpc \notin Idle /\ wpc # "drain" => dir[cur] = "running"
    /\ wpc \in {"paused?", "claim", "drain"} => \A j \in Job : dir[j] # "running"
    /\ wpc \in Deciding => marker[cur] = "none"
    /\ wpc \in {"unlease", "finish"} => marker[cur] = (IF code THEN "ok" ELSE "bad")
    /\ wpc \in {"gate", "ask", "post", "record"} => file[cur].ref = NoRef
    /\ wpc = "record" => posts[cur] # 0

\* What its place in the queue says of a job.
JobInv(j) ==
    /\ dir[j] = "new" => ~file[j].whole
    /\ dir[j] = "running" => file[j].whole
    /\ file[j].whole => file[j].stem \in Stem
    /\ dir[j] \in {"new", "pending"} =>
          marker[j] = "none" /\ file[j].ref = NoRef /\ posts[j] <= blind
    /\ dir[j] = "running" /\ file[j].ref = NoRef /\ marker[j] = "none"
          /\ ~(cur = j /\ wpc \in Unsure) => posts[j] <= blind

\* A job that may still be posted was posted by dead workers only; what is
\* running is one job, and the worker knows which.
IInv ==
    /\ TypeOK
    /\ OneRunning
    /\ WorkerInv
    /\ rel = "cancel" => relJob \in Job
    /\ \A j \in Job : JobInv(j)
    /\ StemsDistinct
    /\ MarkerDecides
    /\ PostsBoundedByBlindDeaths
=============================================================================
