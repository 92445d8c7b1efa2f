---------------------------- MODULE SglangProofs ----------------------------
(***************************************************************************)
(* The worker with the H3 engine implements the queue (QSpec), and keeps   *)
(* the inductive invariant IInv, for any set of jobs and stems and any     *)
(* bounds.                                                                 *)
(***************************************************************************)
EXTENDS SglangWorker, JobQueueProofs

\* The invariant holds of a new queue and no worker.
LEMMA InitIInv == Init => IInv
<1> SUFFICES ASSUME Init PROVE IInv
  OBVIOUS
<1> USE QueueAssumption, WorkerAssumption, SglangAssumption DEF Init, QInit, WInit
<1>1. TypeOK
  BY FileTypes DEF TypeOK, QTypeOK, Dirs, Disks, LoopPoints, RunPoints, BodyPoints, Outcomes
<1>2. OneRunning /\ StemsDistinct /\ MarkerDecides /\ PostsBoundedByBlindDeaths
  BY DEF OneRunning, StemsDistinct, Active, MarkerDecides, PostsBoundedByBlindDeaths
<1>3. WorkerInv
  BY DEF WorkerInv, Idle, Holding, Deciding, BodyPoints
<1>4. \A j \in Job : JobInv(j)
  BY DEF JobInv, Blank
<1> QED
  BY <1>1, <1>2, <1>3, <1>4 DEF IInv

-----------------------------------------------------------------------------
(* Every step is a step of the queue, or none of its business.             *)

\* Past its claim the worker has a job, and it is in running/.
LEMMA CurRuns == IInv /\ wpc \notin Idle \cup {"drain"} =>
                    cur \in Job /\ dir[cur] = "running" /\ file[cur].stem \in Stem
  BY DEF IInv, TypeOK, WorkerInv, JobInv, Idle

\* Each step of the worker is one call into queue.py, or none.
LEMMA WorkerQueueStep == IInv /\ (Loop \/ Body \/ WorkerStart \/ StopSignal \/ Die) => [QNext]_qvars
<1> SUFFICES ASSUME IInv, Loop \/ Body \/ WorkerStart \/ StopSignal \/ Die PROVE [QNext]_qvars
  OBVIOUS
<1> USE DEF Go, Quiet, At, Over, qvars
<1>1. CASE Loop
  <2>1. CASE WExit \/ WPauseCheck \/ WClaimNone
    BY <2>1 DEF WExit, WPauseCheck, WClaimNone
  <2>2. CASE WReconcile
    BY <2>2 DEF WReconcile, QNext
  <2>3. CASE WClaim
    BY <2>3 DEF WClaim, QNext
  <2>4. CASE WDrain
    BY <2>4 DEF WDrain, QNext
  <2>5. CASE WLease \/ WMark \/ WUnlease \/ WFinish
    <3>1. cur \in Job
      BY <2>5, CurRuns DEF Idle, WLease, WMark, WUnlease, WFinish
    <3>2. code \in BOOLEAN
      BY DEF IInv, TypeOK
    <3>3. {cur} \in SUBSET Job
      BY <3>1
    <3> QED
      BY <2>5, <3>1, <3>2, <3>3 DEF WLease, WMark, WUnlease, WFinish, QNext
  <2> QED
    BY <1>1, <2>1, <2>2, <2>3, <2>4, <2>5 DEF Loop, WLoop
<1>2. CASE Body
  <2>1. ASSUME Report, wpc \in BodyPoints \cup {"body"} PROVE QNext
    BY <2>1, CurRuns DEF Report, QNext, Idle, BodyPoints
  <2>2. CASE GetCompleted
    <3>1. file[cur].stem \in Stem
      BY <2>2, CurRuns DEF GetCompleted, Idle
    <3> QED
      BY <2>2, <3>1 DEF GetCompleted, QNext
  <2>3. CASE Record
    <3>1. cur \in Job /\ posts[cur] \in Nat
      BY <2>3, CurRuns DEF Record, Idle, IInv, TypeOK
    <3> QED
      BY <2>3, <3>1 DEF Record, QNext
  <2>4. CASE Enter \/ GateCheck \/ PostFailed \/ PollCheck \/ GetFailed \/ GetMissed \/ Check
    BY <2>1, <2>4
       DEF Enter, GateCheck, PostFailed, PollCheck, GetFailed, GetMissed, Check, BodyPoints
  <2>5. CASE GateReady \/ GateWait \/ PostAccepted \/ GetComputing \/ Crash \/ After
    BY <2>5 DEF GateReady, GateWait, PostAccepted, GetComputing, Crash, After
  <2> QED
    BY <1>2, <2>2, <2>3, <2>4, <2>5 DEF Body
<1>3. CASE WorkerStart \/ StopSignal
  BY <1>3 DEF WorkerStart, StopSignal, WStart, WStopSignal
<1>4. CASE Die
  <2>1. DropLease({cur})
    BY <1>4 DEF Die, WDie
  <2>2. DropLease({cur} \cap Job)
    BY <2>1 DEF DropLease, IInv, TypeOK, QTypeOK
  <2>3. {cur} \cap Job \in SUBSET Job
    OBVIOUS
  <2> QED
    BY <2>2, <2>3 DEF QNext
<1> QED
  BY <1>1, <1>2, <1>3, <1>4

\* So is each request of the page, and H3 touches no file.
LEMMA OtherQueueStep ==
    IInv /\ (PageRequest \/ Release \/ VideoEnds \/ H3Crash) => [QNext]_qvars
<1> SUFFICES ASSUME IInv PROVE PageRequest \/ Release \/ VideoEnds \/ H3Crash => [QNext]_qvars
  OBVIOUS
<1> USE DEF Others, Quiet, qvars
<1>1. PageRequest => QNext
  BY DEF PageRequest, Page, QNext, Reasons
<1>2. Release => [QNext]_qvars
  <2>1. ReleaseLook \/ ReleaseFree => [QNext]_qvars
    BY DEF ReleaseLook, ReleaseFree
  <2>2. ReleasePause => [QNext]_qvars
    BY DEF ReleasePause, QNext
  <2>3. ReleaseCancel => [QNext]_qvars
    BY DEF ReleaseCancel, QNext, Reasons, IInv
  <2> QED
    BY <2>1, <2>2, <2>3 DEF Release
<1>3. VideoEnds \/ H3Crash => [QNext]_qvars
  BY DEF VideoEnds, H3Crash
<1> QED
  BY <1>1, <1>2, <1>3

\* What the panel does to the queue, the queue allows.
LEMMA QueueStep == IInv /\ [Next]_vars => [QNext]_qvars
<1>1. UNCHANGED vars => [QNext]_qvars
  BY DEF vars, qvars
<1> QED
  BY <1>1, WorkerQueueStep, OtherQueueStep DEF Next

-----------------------------------------------------------------------------
(* Types.                                                                  *)

\* Every step keeps the types.
LEMMA TypeStep == IInv /\ [Next]_vars => TypeOK'
<1> SUFFICES ASSUME IInv, [Next]_vars PROVE TypeOK'
  OBVIOUS
<1> USE WorkerAssumption, SglangAssumption DEF Go, Forget, At, Over, RelSame, H3Same
<1>1. QTypeOK'
  BY QueueStep, QTypeStep DEF IInv, TypeOK
<1>2. TypeOK
  BY DEF IInv
<1> USE <1>1, <1>2 DEF TypeOK
<1>3. CASE Loop
  <2> USE DEF evars, LoopPoints, RunPoints
  <2>1. CASE WExit \/ WPauseCheck \/ WClaimNone \/ WLease \/ WMark \/ WUnlease
    BY <1>3, <2>1 DEF Loop, WExit, WPauseCheck, WClaimNone, WLease, WMark, WUnlease
  <2>2. CASE WReconcile \/ WClaim
    BY <1>3, <2>2 DEF Loop, WReconcile, WClaim, Begin, Resumable
  <2>3. CASE WFinish \/ WDrain
    BY <1>3, <2>3 DEF Loop, WFinish, WDrain
  <2> QED
    BY <1>3, <2>1, <2>2, <2>3 DEF Loop, WLoop
<1>4. CASE Body
  <2> USE <1>4 DEF Body, Enter, GateCheck, GateReady, GateWait, PostAccepted, PostFailed,
                Record, PollCheck, GetComputing, GetCompleted, GetFailed, GetMissed, Check,
                Crash, After
  <2>1. misses' \in Nat
    OBVIOUS
  <2>2. code' \in BOOLEAN
    OBVIOUS
  <2>3. wpc' \in RunPoints \cup BodyPoints
    BY DEF RunPoints, BodyPoints
  <2>4. posts' \in [Job -> Nat]
    <3>1. posts' = posts \/ posts' = [posts EXCEPT ![cur] = @ + 1]
      BY DEF Accept, H3Forgets
    <3> QED
      BY <3>1
  <2>5. video' \in {"none", "computing"} \cup Outcomes
    <3>1. video' \in {video, "none", "computing"}
      BY DEF Accept, H3Forgets
    <3> QED
      BY <3>1
  <2>6. UNCHANGED <<cur, claimed, stopping, stops, kills, blind, rel, relJob>>
    BY DEF Accept, H3Forgets
  <2> QED
    BY <2>1, <2>2, <2>3, <2>4, <2>5, <2>6
<1>5. CASE WorkerStart \/ StopSignal
  <2>1. wpc' \in {"top", wpc} /\ stops' \in {stops, stops + 1}
    BY <1>5 DEF WorkerStart, StopSignal, WStart, WStopSignal
  <2>2. stopping' \in BOOLEAN
    BY <1>5 DEF WorkerStart, StopSignal, WStart, WStopSignal
  <2>3. UNCHANGED <<cur, code, claimed, kills, evars>>
    BY <1>5 DEF WorkerStart, StopSignal, WStart, WStopSignal
  <2> QED
    BY <2>1, <2>2, <2>3 DEF LoopPoints, evars
<1>6. CASE Die
  <2>1. misses' \in Nat /\ blind' \in Nat /\ kills' \in Nat
    BY <1>6 DEF Die, WDie
  <2>2. code' \in BOOLEAN /\ claimed' \in BOOLEAN /\ stopping' \in BOOLEAN
    BY <1>6 DEF Die, WDie
  <2>3. wpc' = "down" /\ cur' = NoJob /\ UNCHANGED <<stops, posts, video, rel, relJob>>
    BY <1>6 DEF Die, WDie
  <2> QED
    BY <2>1, <2>2, <2>3 DEF LoopPoints
<1>7. CASE PageRequest \/ Release \/ VideoEnds \/ H3Crash
  BY <1>7 DEF PageRequest, Release, ReleaseLook, ReleasePause, ReleaseCancel, ReleaseFree,
              VideoEnds, H3Crash, Others, H3Forgets, wvars
<1>8. CASE UNCHANGED vars
  BY <1>8 DEF vars, wvars, evars
<1> QED
  BY <1>3, <1>4, <1>5, <1>6, <1>7, <1>8 DEF Next

-----------------------------------------------------------------------------
(* Steps of everybody but the worker.                                      *)

\* What others do to a job that runs: nothing the invariant looks at, and they
\* make none run.
LEMMA OthersStep ==
    ASSUME IInv, PageRequest \/ Release \/ VideoEnds \/ H3Crash
    PROVE  /\ UNCHANGED <<wvars, lease, posts, blind>>
           /\ \A j \in Job : dir'[j] = "running" <=> dir[j] = "running"
           /\ \A j \in Job : dir[j] = "running" =>
                /\ marker'[j] = marker[j]
                /\ file'[j].ref = file[j].ref
                /\ file'[j].whole = file[j].whole
<1> USE DEF Others, H3Same, H3Forgets, Quiet, qvars
<1>1. UNCHANGED <<wvars, lease, posts, blind>>
  BY DEF PageRequest, Page, Submit, SubmitKilled, Update, MoveToFront, Cancel, DeleteFinished,
         SetPaused, RequestCancel, Release, ReleaseLook, ReleasePause, ReleaseCancel,
         ReleaseFree, VideoEnds, H3Crash
<1>2. QTypeOK
  BY DEF IInv, TypeOK
<1> SUFFICES ASSUME NEW j \in Job
             PROVE  /\ dir'[j] = "running" <=> dir[j] = "running"
                    /\ dir[j] = "running" => /\ marker'[j] = marker[j]
                                             /\ file'[j].ref = file[j].ref
                                             /\ file'[j].whole = file[j].whole
  BY <1>1
<1> USE <1>2 DEF QTypeOK, Move, Claimable
<1>3. CASE UNCHANGED <<dir, file, marker>>
  BY <1>3
<1>4. ASSUME NEW i \in Job, NEW s \in Stem, Submit(i, s) \/ Update(i, s)
      PROVE  /\ dir'[j] = "running" <=> dir[j] = "running"
             /\ dir[j] = "running" => UNCHANGED <<marker[j], file[j]>>
  BY <1>4 DEF Submit, Update
<1>5. ASSUME NEW i \in Job,
             SubmitKilled(i) \/ MoveToFront(i) \/ Cancel(i) \/ DeleteFinished(i)
      PROVE  /\ dir'[j] = "running" <=> dir[j] = "running"
             /\ dir[j] = "running" => UNCHANGED <<marker[j], file[j]>>
  BY <1>5 DEF SubmitKilled, MoveToFront, Cancel, DeleteFinished
<1>6. ASSUME NEW i \in Job, NEW why, RequestCancel(i, why)
      PROVE  /\ dir' = dir
             /\ UNCHANGED marker
             /\ file'[j].ref = file[j].ref
             /\ file'[j].whole = file[j].whole
  BY <1>6 DEF RequestCancel, Files
<1>7. \/ UNCHANGED <<dir, file, marker>>
      \/ \E i \in Job, s \in Stem : Submit(i, s) \/ Update(i, s)
      \/ \E i \in Job :
            SubmitKilled(i) \/ MoveToFront(i) \/ Cancel(i) \/ DeleteFinished(i)
      \/ \E i \in Job : \E why \in Reasons : RequestCancel(i, why)
  BY DEF PageRequest, Page, SetPaused, Release, ReleaseLook, ReleasePause, ReleaseCancel,
         ReleaseFree, VideoEnds, H3Crash, Reasons, IInv
<1> QED
  BY <1>3, <1>4, <1>5, <1>6, <1>7

-----------------------------------------------------------------------------
(* The worker knows its job.                                               *)

\* Every step keeps what the control point says.
LEMMA WorkerInvStep == IInv /\ [Next]_vars => WorkerInv'
<1> SUFFICES ASSUME IInv, [Next]_vars PROVE WorkerInv'
  OBVIOUS
<1>1. WorkerInv /\ TypeOK /\ QTypeOK /\ OneRunning /\ \A j \in Job : JobInv(j)
  BY DEF IInv, TypeOK
<1>2. /\ cur \in Job \cup {NoJob} /\ NoJob \notin Job
      /\ dir \in [Job -> Dirs] /\ marker \in [Job -> {"none", "ok", "bad"}]
      /\ code \in BOOLEAN
  BY <1>1, WorkerAssumption DEF TypeOK, QTypeOK
<1>3. CASE Loop
  <2> USE SglangAssumption DEF Go, Forget, evars, WorkerInv, Idle, Holding, Deciding, BodyPoints
  <2>1. CASE WExit \/ WPauseCheck \/ WClaimNone
    BY <1>1, <1>2, <1>3, <2>1 DEF Loop, WExit, WPauseCheck, WClaimNone, qvars
  <2>2. CASE WReconcile
    BY <1>1, <1>2, <1>3, <2>2
       DEF Loop, WReconcile, Reconcile, Begin, Alive, Resumable, Verdict
  <2>3. CASE WClaim
    BY <1>1, <1>2, <1>3, <2>3 DEF Loop, WClaim, Claim, Claimable, Begin, Move, JobInv
  <2>4. CASE WLease
    BY <1>1, <1>2, <1>3, <2>4 DEF Loop, WLease, TakeLease
  <2>5. CASE WMark
    BY <1>1, <1>2, <1>3, <2>5 DEF Loop, WMark, WriteMarker
  <2>6. CASE WUnlease
    BY <1>1, <1>2, <1>3, <2>6 DEF Loop, WUnlease, DropLease
  <2>7. CASE WFinish
    BY <1>1, <1>2, <1>3, <2>7 DEF Loop, WFinish, Finish, Move, OneRunning, Dirs
  <2>8. CASE WDrain
    BY <1>1, <1>2, <1>3, <2>8 DEF Loop, WDrain, PauseIfDrained
  <2> QED
    BY <1>3, <2>1, <2>2, <2>3, <2>4, <2>5, <2>6, <2>7, <2>8 DEF Loop, WLoop
<1>4. CASE Body
  <2> USE DEF Go, Quiet, At, Over, RelSame, H3Same, qvars, WorkerInv, Idle, Holding, Deciding,
              BodyPoints
  <2>1. CASE Enter
    BY <1>1, <1>2, <2>1 DEF Enter, Report, WriteReport
  <2>2. CASE GateCheck
    BY <1>1, <1>2, <2>2 DEF GateCheck, Report, WriteReport
  <2>3. CASE GateReady \/ GateWait
    BY <1>1, <1>2, <2>3 DEF GateReady, GateWait
  <2>4. CASE PostAccepted
    BY <1>1, <1>2, <2>4 DEF PostAccepted, Accept, TypeOK
  <2>5. CASE PostFailed
    BY <1>1, <1>2, <2>5 DEF PostFailed, Report, WriteReport
  <2>6. CASE Record
    BY <1>1, <1>2, <2>6 DEF Record, SetRef
  <2>7. CASE PollCheck \/ GetComputing \/ GetMissed \/ Check
    BY <1>1, <1>2, <2>7 DEF PollCheck, GetComputing, GetMissed, Check, Report, WriteReport
  <2>8. CASE GetCompleted
    BY <1>1, <1>2, <2>8 DEF GetCompleted, PutClip
  <2>9. CASE GetFailed \/ Crash \/ After
    BY <1>1, <1>2, <2>9 DEF GetFailed, Crash, After, Report, WriteReport
  <2> QED
    BY <1>4, <2>1, <2>2, <2>3, <2>4, <2>5, <2>6, <2>7, <2>8, <2>9 DEF Body
<1>5. CASE WorkerStart \/ StopSignal
  BY <1>1, <1>2, <1>5
     DEF WorkerStart, StopSignal, WStart, WStopSignal, WorkerInv, Idle, Holding, Deciding,
         BodyPoints, qvars, evars
<1>6. CASE Die
  BY <1>1, <1>2, <1>6
     DEF Die, WDie, Forget, DropLease, WorkerInv, Idle, Holding, Deciding, BodyPoints
<1>7. CASE PageRequest \/ Release \/ VideoEnds \/ H3Crash
  BY <1>1, <1>2, <1>7, OthersStep
     DEF wvars, WorkerInv, Idle, Holding, Deciding, BodyPoints
<1>8. CASE UNCHANGED vars
  BY <1>1, <1>8
     DEF vars, qvars, wvars, evars, WorkerInv, Idle, Holding, Deciding, BodyPoints
<1> QED
  BY <1>3, <1>4, <1>5, <1>6, <1>7, <1>8 DEF Next

-----------------------------------------------------------------------------
(* The jobs.                                                               *)

JobsInv == /\ OneRunning
           /\ \A j \in Job : JobInv(j)
           /\ MarkerDecides
           /\ PostsBoundedByBlindDeaths

\* A step that leaves the jobs' places, results, acceptances and the fields the
\* invariant reads as they are.
LEMMA Still ==
    ASSUME IInv,
           UNCHANGED <<dir, marker, posts, blind>>,
           \A j \in Job : /\ file'[j].whole = file[j].whole
                          /\ file'[j].ref = file[j].ref
                          /\ file'[j].stem = file[j].stem,
           wpc \in Unsure => wpc' \in Unsure /\ cur' = cur
    PROVE  JobsInv'
  BY DEF IInv, JobsInv, OneRunning, JobInv, MarkerDecides, PostsBoundedByBlindDeaths

\* main_loop and run_job keep what the queue says of each job.
LEMMA LoopJobs == IInv /\ Loop => JobsInv'
<1> SUFFICES ASSUME IInv, Loop PROVE JobsInv'
  OBVIOUS
<1>1. /\ OneRunning /\ MarkerDecides /\ PostsBoundedByBlindDeaths /\ WorkerInv
      /\ \A j \in Job : JobInv(j)
      /\ dir \in [Job -> Dirs] /\ marker \in [Job -> {"none", "ok", "bad"}]
      /\ code \in BOOLEAN
      /\ UNCHANGED <<posts, blind>>
  BY DEF IInv, TypeOK, QTypeOK, Loop, evars
<1> USE DEF Go, Forget, JobsInv, OneRunning, JobInv, MarkerDecides, PostsBoundedByBlindDeaths,
            Unsure
<1>2. CASE WExit \/ WPauseCheck \/ WClaimNone \/ WLease \/ WUnlease \/ WDrain
  <2>1. UNCHANGED <<dir, file, marker>> /\ wpc \notin Unsure
    BY <1>2 DEF WExit, WPauseCheck, WClaimNone, WLease, TakeLease, WUnlease, DropLease,
                WDrain, PauseIfDrained, qvars
  <2> QED
    BY <1>1, <2>1, Still
<1>3. CASE WReconcile
  <2>1. lease = {} /\ cur = NoJob /\ wpc = "top"
    BY <1>1, <1>3 DEF WReconcile, WorkerInv, Idle, Holding, BodyPoints
  <2>2. UNCHANGED <<file, marker>>
    BY <1>3 DEF WReconcile, Reconcile
  <2>3. \A j \in Job :
          /\ dir[j] # "running" => dir'[j] = dir[j]
          /\ dir[j] = "running" =>
               \/ dir'[j] = "running"
               \/ dir'[j] = "done" /\ marker[j] # "bad"
               \/ dir'[j] = "failed" /\ marker[j] # "ok"
               \/ dir'[j] = "pending" /\ marker[j] = "none" /\ file[j].ref = NoRef
    BY <1>1, <1>3, <2>1 DEF WReconcile, Reconcile, Verdict
  <2> QED
    BY <1>1, <2>1, <2>2, <2>3
<1>4. CASE WClaim
  BY <1>1, <1>4 DEF WClaim, Claim, Claimable, Move, Begin, WorkerInv
<1>5. CASE WMark
  <2>1. cur \in Job /\ dir[cur] = "running" /\ cur' = cur
    BY <1>5, CurRuns DEF WMark, Idle
  <2> QED
    BY <1>1, <1>5, <2>1 DEF WMark, WriteMarker
<1>6. CASE WFinish
  <2>1. cur \in Job /\ marker[cur] = IF code THEN "ok" ELSE "bad"
    BY <1>1, <1>6, CurRuns DEF WFinish, Idle, WorkerInv
  <2> QED
    BY <1>1, <1>6, <2>1 DEF WFinish, Finish, Move
<1> QED
  BY <1>2, <1>3, <1>4, <1>5, <1>6 DEF Loop, WLoop

\* So does run_generate.
LEMMA BodyJobs == IInv /\ Body => JobsInv'
<1> SUFFICES ASSUME IInv, Body PROVE JobsInv'
  OBVIOUS
<1> USE DEF Go, Quiet, At, Over, H3Same, qvars, Unsure, Report, WriteReport
<1>1. ASSUME \/ Enter \/ GateCheck \/ GateReady \/ GateWait \/ PollCheck \/ GetComputing
             \/ GetCompleted \/ GetFailed \/ GetMissed \/ Check \/ Crash \/ After
      PROVE JobsInv'
  <2>1. UNCHANGED <<dir, file, marker, posts, blind, cur>>
    BY <1>1 DEF Enter, GateCheck, GateReady, GateWait, PollCheck, GetComputing, GetCompleted,
                PutClip, GetFailed, GetMissed, Check, Crash, After, H3Forgets
  <2>2. wpc \in Unsure => wpc' \in Unsure
    BY <1>1 DEF Enter, GateCheck, GateReady, GateWait, PollCheck, GetComputing, GetCompleted,
                GetFailed, GetMissed, Check, Crash, After
  <2> QED
    BY <2>1, <2>2, Still
<1>2. ASSUME PostAccepted \/ PostFailed PROVE JobsInv'
  <2>1. /\ cur \in Job /\ dir[cur] = "running" /\ cur' = cur
        /\ file[cur].ref = NoRef /\ marker[cur] = "none" /\ wpc = "post"
    BY <1>2, CurRuns DEF PostAccepted, PostFailed, Idle, IInv, WorkerInv, Deciding, BodyPoints
  <2>2. posts[cur] <= blind /\ posts \in [Job -> Nat] /\ blind \in Nat
    BY <2>1 DEF IInv, JobInv, TypeOK
  <2>3. UNCHANGED <<dir, file, marker, blind>> /\ wpc' \in Unsure
    BY <1>2 DEF PostAccepted, PostFailed, Accept
  <2>4. posts' = posts \/ posts' = [posts EXCEPT ![cur] = @ + 1]
    BY <1>2 DEF PostAccepted, PostFailed, Accept
  <2> QED
    BY <2>1, <2>2, <2>3, <2>4
       DEF IInv, JobsInv, OneRunning, JobInv, MarkerDecides, PostsBoundedByBlindDeaths
<1>3. ASSUME Record PROVE JobsInv'
  <2>1. /\ cur \in Job /\ dir[cur] = "running" /\ cur' = cur /\ posts[cur] # NoRef
        /\ UNCHANGED <<dir, marker, posts, blind>>
        /\ file' = [file EXCEPT ![cur].ref = posts[cur]]
    BY <1>3, CurRuns DEF Record, SetRef, Idle, IInv, WorkerInv, NoRef
  <2>2. file'[cur].ref = posts[cur]
    BY <2>1 DEF IInv, TypeOK, QTypeOK, Files
  <2>3. \A j \in Job : /\ file'[j].whole = file[j].whole /\ file'[j].stem = file[j].stem
                       /\ j # cur => file'[j] = file[j]
    BY <2>1 DEF IInv, TypeOK, QTypeOK, Files
  <2> QED
    BY <2>1, <2>2, <2>3, <1>3
       DEF Record, IInv, JobsInv, OneRunning, JobInv, MarkerDecides, PostsBoundedByBlindDeaths
<1> QED
  BY <1>1, <1>2, <1>3 DEF Body

\* So does the worker's death, which blind counts where it matters.
LEMMA DieJobs == IInv /\ Die => JobsInv'
<1> SUFFICES ASSUME IInv, Die PROVE JobsInv'
  OBVIOUS
<1>1. UNCHANGED <<dir, file, marker, posts>>
  BY DEF Die, WDie, DropLease
<1>2. blind \in Nat /\ posts \in [Job -> Nat] /\ blind' = IF Blind THEN blind + 1 ELSE blind
  BY DEF Die, IInv, TypeOK
<1>3. blind <= blind'
  BY <1>2
<1>4. \A j \in Job : JobInv(j)'
  <2> SUFFICES ASSUME NEW j \in Job PROVE JobInv(j)'
    OBVIOUS
  <2>1. CASE cur = j /\ Blind
    BY <1>1, <1>2, <2>1 DEF IInv, JobInv, PostsBoundedByBlindDeaths
  <2>2. CASE ~(cur = j /\ Blind)
    BY <1>1, <1>2, <1>3, <2>2 DEF IInv, JobInv, Blind, Unsure
  <2> QED
    BY <2>1, <2>2
<1> QED
  BY <1>1, <1>2, <1>3, <1>4
     DEF IInv, JobsInv, OneRunning, MarkerDecides, PostsBoundedByBlindDeaths

\* So do the page, the release and H3.
LEMMA OthersJobs == IInv /\ (PageRequest \/ Release \/ VideoEnds \/ H3Crash) => JobsInv'
<1> SUFFICES ASSUME IInv, PageRequest \/ Release \/ VideoEnds \/ H3Crash PROVE JobsInv'
  OBVIOUS
<1> USE DEF QTypeOK, Move, Claimable
<1>1. UNCHANGED <<wvars, posts, blind>>
  BY OthersStep
<1>2. QTypeOK
  BY DEF IInv, TypeOK
<1>3. \A j \in Job : dir'[j] = "running" <=> dir[j] = "running"
  BY OthersStep
<1>4. OneRunning'
  BY <1>3 DEF IInv, OneRunning
<1>5. PostsBoundedByBlindDeaths'
  BY <1>1 DEF IInv, PostsBoundedByBlindDeaths
<1>6. ASSUME NEW j \in Job, UNCHANGED <<dir[j], file[j], marker[j]>>
      PROVE  JobInv(j)'
  BY <1>1, <1>6 DEF IInv, JobInv, wvars
<1>7. ASSUME NEW i \in Job, NEW s \in Stem, Submit(i, s) \/ Update(i, s)
      PROVE  MarkerDecides' /\ \A j \in Job : JobInv(j)'
  <2>1. MarkerDecides'
    BY <1>2, <1>7 DEF Submit, Update, IInv, MarkerDecides
  <2>2. \A j \in Job \ {i} : JobInv(j)'
    BY <1>2, <1>6, <1>7 DEF Submit, Update
  <2>3. /\ file'[i].whole /\ file'[i].stem = s /\ file'[i].ref = NoRef
        /\ dir'[i] = "pending" /\ marker'[i] = marker[i]
    <3>1. \A n : LET f == [Fresh(s) EXCEPT !.prio = n] IN f.whole /\ f.stem = s /\ f.ref = NoRef
      BY DEF Fresh, Blank
    <3>2. Fresh(s).whole /\ Fresh(s).stem = s /\ Fresh(s).ref = NoRef
      BY DEF Fresh, Blank
    <3>3. /\ file'[i] = Fresh(s) \/ file'[i] = [Fresh(s) EXCEPT !.prio = file[i].prio]
          /\ dir'[i] = "pending" /\ marker'[i] = marker[i]
      BY <1>2, <1>7 DEF Submit, Update
    <3> QED
      BY <3>1, <3>2, <3>3
  <2>4. dir[i] \in {"new", "pending"}
    BY <1>7 DEF Submit, Update
  <2>5. JobInv(i)'
    BY <1>1, <2>3, <2>4 DEF IInv, JobInv
  <2> QED
    BY <2>1, <2>2, <2>5
<1>8. ASSUME NEW i \in Job, SubmitKilled(i) \/ Cancel(i)
      PROVE  MarkerDecides' /\ \A j \in Job : JobInv(j)'
  <2>1. MarkerDecides'
    BY <1>2, <1>8 DEF SubmitKilled, Cancel, IInv, MarkerDecides
  <2>2. \A j \in Job \ {i} : JobInv(j)'
    BY <1>2, <1>6, <1>8 DEF SubmitKilled, Cancel
  <2>3. JobInv(i)'
    BY <1>1, <1>2, <1>8 DEF SubmitKilled, Cancel, IInv, JobInv, Blank
  <2> QED
    BY <2>1, <2>2, <2>3
<1>9. ASSUME NEW i \in Job, DeleteFinished(i)
      PROVE  MarkerDecides' /\ \A j \in Job : JobInv(j)'
  <2>1. MarkerDecides'
    BY <1>2, <1>9 DEF DeleteFinished, IInv, MarkerDecides
  <2>2. \A j \in Job \ {i} : JobInv(j)'
    BY <1>2, <1>6, <1>9 DEF DeleteFinished
  <2>3. JobInv(i)'
    BY <1>2, <1>9 DEF DeleteFinished, JobInv, Blank
  <2> QED
    BY <2>1, <2>2, <2>3
<1>10. ASSUME NEW i \in Job, MoveToFront(i) \/ \E why \in Reasons : RequestCancel(i, why)
       PROVE  MarkerDecides' /\ \A j \in Job : JobInv(j)'
  <2>1. UNCHANGED <<dir, marker>>
    BY <1>10 DEF MoveToFront, RequestCancel
  <2>2. \A j \in Job : /\ file'[j].whole = file[j].whole
                       /\ file'[j].ref = file[j].ref
                       /\ file'[j].stem = file[j].stem
    <3>1. CASE MoveToFront(i)
      BY <1>2, <3>1 DEF MoveToFront, Files
    <3>2. CASE \E why \in Reasons : RequestCancel(i, why)
      BY <1>2, <3>2 DEF RequestCancel, Files
    <3> QED
      BY <1>10, <3>1, <3>2
  <2> QED
    BY <1>1, <2>1, <2>2, Still DEF JobsInv, wvars
<1>11. CASE UNCHANGED <<dir, file, marker>>
  BY <1>4, <1>5, <1>6, <1>11 DEF IInv, JobsInv, MarkerDecides
<1>12. \/ UNCHANGED <<dir, file, marker>>
       \/ \E i \in Job, s \in Stem : Submit(i, s) \/ Update(i, s)
       \/ \E i \in Job : SubmitKilled(i) \/ Cancel(i)
       \/ \E i \in Job : DeleteFinished(i)
       \/ \E i \in Job : MoveToFront(i) \/ \E why \in Reasons : RequestCancel(i, why)
  BY DEF PageRequest, Page, Others, Quiet, qvars, SetPaused, Release, ReleaseLook, ReleasePause,
         ReleaseCancel, ReleaseFree, VideoEnds, H3Crash, Reasons, IInv
<1> QED
  BY <1>4, <1>5, <1>7, <1>8, <1>9, <1>10, <1>11, <1>12 DEF JobsInv

-----------------------------------------------------------------------------
(* The theorems.                                                           *)

\* The invariant is inductive.
LEMMA StepIInv == IInv /\ [Next]_vars => IInv'
<1> SUFFICES ASSUME IInv, [Next]_vars PROVE IInv'
  OBVIOUS
<1>1. TypeOK' /\ WorkerInv'
  BY TypeStep, WorkerInvStep
<1>2. StemsDistinct'
  BY QueueStep, StemsStep DEF IInv, TypeOK, JobInv, Unborn
<1>3. (rel = "cancel" => relJob \in Job)'
  <2>1. CASE Release
    BY <2>1, WorkerAssumption
       DEF Release, ReleaseLook, ReleasePause, ReleaseCancel, ReleaseFree, IInv, TypeOK
  <2>2. UNCHANGED <<rel, relJob>> \/ Release
    BY DEF Next, vars, evars, Loop, Body, WorkerStart, StopSignal, Die, PageRequest, VideoEnds,
           H3Crash, RelSame, At, Over, Enter, GateCheck, GateReady, GateWait, PostAccepted,
           PostFailed, Record, PollCheck, GetComputing, GetCompleted, GetFailed, GetMissed,
           Check, Crash, After
  <2> QED
    BY <2>1, <2>2 DEF IInv
<1>4. JobsInv'
  <2>1. CASE WorkerStart \/ StopSignal \/ UNCHANGED vars
    BY <2>1, Still
       DEF WorkerStart, StopSignal, WStart, WStopSignal, Unsure, vars, qvars, wvars, evars
  <2> QED
    BY <2>1, LoopJobs, BodyJobs, DieJobs, OthersJobs DEF Next
<1> QED
  BY <1>1, <1>2, <1>3, <1>4 DEF IInv, JobsInv

\* The inductive invariant holds of every run.
THEOREM SglangInvariant == Spec => []IInv
  BY InitIInv, StepIInv, PTL DEF Spec

\* The types of every variable.
THEOREM SglangTypes == Spec => []TypeOK
<1>1. IInv => TypeOK
  BY DEF IInv
<1> QED
  BY <1>1, SglangInvariant, PTL

\* main_loop and run_job call queue.py only as its functions allow, so
\* whatever is proved of QSpec holds of the worker.
THEOREM SglangIsQueue == Spec => QSpec
<1>1. Init => QInit
  BY DEF Init
<1> QED
  BY <1>1, QueueStep, SglangInvariant, PTL DEF Spec, QSpec

\* worker.py: one job at a time, over any number of crashes and restarts.
THEOREM SglangOneRunning == Spec => []OneRunning
<1>1. IInv => OneRunning
  BY DEF IInv
<1> QED
  BY <1>1, SglangInvariant, PTL

\* run_job's lease covers its body, and finish finds its job in running/.
THEOREM SglangOwnsItsJob == Spec => []WorkerOwnsItsJob
<1>1. IInv => WorkerOwnsItsJob
  BY DEF IInv, TypeOK, QTypeOK, WorkerInv, WorkerOwnsItsJob, Idle, Holding, BodyPoints
<1> QED
  BY <1>1, SglangInvariant, PTL

\* No two jobs that wait or run share an output.
THEOREM SglangStemsDistinct == Spec => []StemsDistinct
  BY SglangIsQueue, QueueStemsDistinct, PTL

\* The result marker decides how a job is filed, whoever files it.
THEOREM SglangMarkerDecides == Spec => []MarkerDecides
<1>1. IInv => MarkerDecides
  BY DEF IInv
<1> QED
  BY <1>1, SglangInvariant, PTL

\* A scene is posted again only for a death between its POST and the first
\* durable trace of it, for any number of jobs, deaths and retries.
THEOREM SglangPostsBounded == Spec => []PostsBoundedByBlindDeaths
<1>1. IInv => PostsBoundedByBlindDeaths
  BY DEF IInv
<1> QED
  BY <1>1, SglangInvariant, PTL

\* A job that something came of is never put back into pending/.
THEOREM SglangEvidence == Spec => EvidenceForbidsRequeue
<1>1. IInv /\ [Next]_vars =>
        [\A j \in Job :
          /\ dir[j] = "running"
          /\ file[j].ref # NoRef \/ marker[j] # "none" \/ HasClip(j)
          => dir'[j] # "pending"]_vars
  BY QueueStep, MovesStep DEF IInv, TypeOK, Moves
<1> QED
  BY <1>1, SglangInvariant, PTL DEF Spec, EvidenceForbidsRequeue

-----------------------------------------------------------------------------
(* Clips.                                                                  *)

Shown == {"check", "after", "mark", "unlease", "finish"}

\* A job that waits has no clip at its output, and one that runs has none until its
\* worker has fetched it.
Owned(j) == dir[j] = "running" /\ (cur = j => wpc \in Shown)
ClipsOwned == \A j \in Job : Active(j) /\ file[j].whole /\ HasClip(j) => Owned(j)

\* A step that makes no job wait or run and no clip appear, and leaves the worker
\* where its job's clip may be.
LEMMA ClipsStill ==
    ASSUME ClipsOwned,
           \A j \in Job : Active(j)' => dir'[j] = dir[j],
           \A j \in Job : Active(j)' /\ file'[j].whole /\ HasClip(j)'
                          => file[j].whole /\ HasClip(j),
           \A j \in Job : cur' = j => cur = j /\ (wpc \in Shown => wpc' \in Shown)
    PROVE  ClipsOwned'
  BY DEF ClipsOwned, Owned, Active

\* The loop around a job.
LEMMA LoopClips == IInv /\ ClipsOwned /\ Loop => ClipsOwned'
<1> SUFFICES ASSUME IInv, ClipsOwned, Loop PROVE ClipsOwned'
  OBVIOUS
<1> USE DEF Go, Forget
<1>1. /\ dir \in [Job -> Dirs] /\ NoJob \notin Job /\ WorkerInv
      /\ \A j \in Job : JobInv(j)
  BY WorkerAssumption DEF IInv, TypeOK, QTypeOK
<1>2. CASE WExit \/ WPauseCheck \/ WClaimNone \/ WLease \/ WMark \/ WUnlease \/ WDrain
  <2>1. UNCHANGED <<dir, file, disk>>
    BY <1>2 DEF WExit, WPauseCheck, WClaimNone, WLease, TakeLease, WMark, WriteMarker,
                WUnlease, DropLease, WDrain, PauseIfDrained, qvars
  <2>2. \A j \in Job : cur' = j => cur = j /\ (wpc \in Shown => wpc' \in Shown)
    BY <1>1, <1>2 DEF WExit, WPauseCheck, WClaimNone, WLease, WMark, WUnlease, WDrain, Shown
  <2>3. \A j \in Job : Active(j)' = Active(j) /\ HasClip(j)' = HasClip(j)
    BY <2>1 DEF Active, HasClip
  <2> QED
    BY <2>1, <2>2, <2>3, ClipsStill
<1>3. CASE WReconcile
  <2>1. lease = {} /\ cur = NoJob
    BY <1>1, <1>3 DEF WReconcile, WorkerInv, Idle, Holding, BodyPoints
  <2>2. UNCHANGED <<file, disk>>
    BY <1>3 DEF WReconcile, Reconcile
  <2>3. ASSUME NEW j \in Job, Active(j)', file[j].whole, HasClip(j)
        PROVE  FALSE
    <3>1. dir[j] = "running"
      BY <1>1, <1>3, <2>3 DEF WReconcile, Reconcile, ClipsOwned, Owned, Active
    <3>2. dir'[j] = Verdict(j)
      BY <1>3, <3>1 DEF WReconcile, Reconcile
    <3>3. Verdict(j) \in {"done", "failed"}
      BY <2>1, <2>3 DEF Verdict
    <3> QED
      BY <2>3, <3>2, <3>3 DEF Active
  <2> QED
    BY <2>2, <2>3 DEF ClipsOwned, HasClip
<1>4. CASE WClaim
  <2>1. PICK i \in Job : Claim(i) /\ Begin(i, TRUE)
    BY <1>4 DEF WClaim
  <2>2. ~HasClip(i) /\ UNCHANGED <<file, disk>>
    BY <2>1 DEF Claim, Claimable, ClipsOwned, Owned, Active
  <2>3. \A j \in Job : j # i => dir'[j] = dir[j] /\ cur # j
    BY <1>1, <1>4, <2>1 DEF Claim, Move, WClaim, WorkerInv, Idle
  <2> QED
    BY <2>1, <2>2, <2>3 DEF ClipsOwned, Owned, HasClip, Active, Begin
<1>5. CASE WFinish
  <2>1. cur \in Job /\ Finish(cur, code)
    BY <1>5, CurRuns DEF WFinish, Idle
  <2>2. /\ UNCHANGED <<file, disk>>
        /\ dir'[cur] \in {"done", "failed"} /\ \A j \in Job : j # cur => dir'[j] = dir[j]
    BY <1>1, <2>1 DEF Finish, Move
  <2>3. cur' \in {cur, NoJob}
    BY <1>5 DEF WFinish
  <2>4. ASSUME NEW j \in Job, Active(j)', file'[j].whole, HasClip(j)'
        PROVE  Owned(j)'
    <3>1. j # cur /\ Active(j) /\ file[j].whole /\ HasClip(j) /\ dir'[j] = dir[j]
      BY <2>1, <2>2, <2>4 DEF HasClip, Active
    <3> QED
      BY <1>1, <2>3, <3>1 DEF ClipsOwned, Owned
  <2> QED
    BY <2>4 DEF ClipsOwned
<1> QED
  BY <1>2, <1>3, <1>4, <1>5 DEF Loop, WLoop

\* Only the job that is polled gets a clip, and no other job shares its output.
LEMMA BodyClips == IInv /\ ClipsOwned /\ Body => ClipsOwned'
<1> SUFFICES ASSUME IInv, ClipsOwned, Body PROVE ClipsOwned'
  OBVIOUS
<1> USE DEF Go, Quiet, At, Over, qvars
<1>1. cur \in Job /\ dir[cur] = "running" /\ file[cur].stem \in Stem /\ cur' = cur
  <2>1. wpc \in BodyPoints \cup {"body"} /\ cur' = cur
    BY DEF Body, BodyPoints, Enter, GateCheck, GateReady, GateWait, PostAccepted, PostFailed, Record,
           PollCheck, GetComputing, GetCompleted, GetFailed, GetMissed, Check, Crash, After
  <2> QED
    BY <2>1, CurRuns DEF BodyPoints, Idle
<1>2. file \in [Job -> Files] /\ disk \in [Stem -> Disks]
  BY DEF IInv, TypeOK, QTypeOK
<1>3. CASE GetCompleted
  <2>1. /\ UNCHANGED <<dir, file>> /\ wpc' = "check"
        /\ disk' = [disk EXCEPT ![file[cur].stem] = video]
    BY <1>3 DEF GetCompleted, PutClip
  <2>2. ASSUME NEW j \in Job, j # cur, Active(j), file[j].whole
        PROVE  HasClip(j)' = HasClip(j)
    <3>1. file[cur].whole /\ file[j].stem \in Stem
      BY <1>1, <2>2 DEF IInv, JobInv
    <3>2. file[j].stem # file[cur].stem
      BY <1>1, <2>2, <3>1 DEF IInv, StemsDistinct, Active
    <3> QED
      BY <1>2, <2>1, <3>1, <3>2 DEF HasClip
  <2>3. wpc' \in Shown
    BY <2>1 DEF Shown
  <2> QED
    BY <1>1, <2>1, <2>2, <2>3 DEF ClipsOwned, Owned, Active
<1>4. CASE ~GetCompleted
  <2>1. wpc \in Shown => wpc' \in Shown
    BY <1>4 DEF Body, Shown, Enter, GateCheck, GateReady, GateWait, PostAccepted, PostFailed, Record,
           PollCheck, GetComputing, GetFailed, GetMissed, Check, Crash, After
  <2>2. dir' = dir
    BY <1>4 DEF Body, Enter, GateCheck, GateReady, GateWait, PostAccepted, PostFailed, Record,
           PollCheck, GetComputing, GetFailed, GetMissed, Check, Crash, After,
           Report, WriteReport, SetRef
  <2>3. /\ disk' = disk \/ Report
        /\ file' = file \/ file' = [file EXCEPT ![cur].ref = posts[cur]]
    BY <1>4 DEF Body, Enter, GateCheck, GateReady, GateWait, PostAccepted, PostFailed, Record,
           PollCheck, GetComputing, GetFailed, GetMissed, Check, Crash, After,
           Report, WriteReport, SetRef
  <2>4. \A j \in Job : file'[j].whole = file[j].whole /\ file'[j].stem = file[j].stem
    BY <1>2, <2>3 DEF Files
  <2>5. \A s \in Stem : disk'[s] \in {"bad", "good"} => disk[s] \in {"bad", "good"}
    BY <1>2, <2>3 DEF Report, WriteReport
  <2>6. \A j \in Job : Active(j) /\ file[j].whole /\ HasClip(j)' => HasClip(j)
    BY <2>4, <2>5 DEF HasClip, IInv, JobInv
  <2> QED
    BY <1>1, <2>1, <2>2, <2>4, <2>6, ClipsStill DEF Active
<1> QED
  BY <1>3, <1>4

\* A new or edited job is given an output where nothing lies.
LEMMA OthersClips ==
    IInv /\ ClipsOwned /\ (PageRequest \/ Release \/ VideoEnds \/ H3Crash) => ClipsOwned'
<1> SUFFICES ASSUME IInv, ClipsOwned, PageRequest \/ Release \/ VideoEnds \/ H3Crash
             PROVE  ClipsOwned'
  OBVIOUS
<1>1. UNCHANGED <<wpc, cur>>
  BY OthersStep DEF wvars
<1>2. /\ dir \in [Job -> Dirs] /\ file \in [Job -> Files] /\ disk \in [Stem -> Disks]
      /\ \A j \in Job : JobInv(j)
  BY DEF IInv, TypeOK, QTypeOK
<1> USE DEF Move, Claimable
<1>3. ASSUME NEW i \in Job, NEW s \in Stem, Submit(i, s) \/ Update(i, s)
      PROVE  ClipsOwned'
  <2>1. /\ disk' = disk /\ disk[s] = "clean" /\ file'[i].stem = s
        /\ \A j \in Job : j # i => file'[j] = file[j] /\ dir'[j] = dir[j]
    <3>1. disk' = disk /\ disk[s] = "clean"
      BY <1>3 DEF Submit, Update, StemTaken
    <3>2. \A n : LET f == [Fresh(s) EXCEPT !.prio = n] IN f.stem = s
      BY DEF Fresh, Blank
    <3>3. Fresh(s).stem = s
      BY DEF Fresh, Blank
    <3>4. file'[i] = Fresh(s) \/ file'[i] = [Fresh(s) EXCEPT !.prio = file[i].prio]
      BY <1>2, <1>3 DEF Submit, Update
    <3>5. \A j \in Job : j # i => file'[j] = file[j] /\ dir'[j] = dir[j]
      BY <1>2, <1>3 DEF Submit, Update
    <3> QED
      BY <3>1, <3>2, <3>3, <3>4, <3>5
  <2>2. ~HasClip(i)'
    BY <2>1 DEF HasClip
  <2> QED
    BY <1>1, <2>1, <2>2 DEF ClipsOwned, Owned, HasClip, Active
<1>4. ASSUME NEW i \in Job, SubmitKilled(i) \/ Cancel(i) \/ DeleteFinished(i)
      PROVE  ClipsOwned'
  <2>1. /\ \A j \in Job : j # i => file'[j] = file[j] /\ dir'[j] = dir[j]
        /\ \A s \in Stem : disk'[s] \in {disk[s], "clean"}
    BY <1>2, <1>4 DEF SubmitKilled, Cancel, DeleteFinished
  <2>2. ~Active(i)' \/ ~file'[i].whole
    BY <1>2, <1>4 DEF SubmitKilled, Cancel, DeleteFinished, Active, JobInv
  <2>3. \A j \in Job : j # i /\ file[j].whole /\ HasClip(j)' => HasClip(j)
    BY <1>2, <2>1 DEF HasClip, JobInv
  <2> QED
    BY <1>1, <2>1, <2>2, <2>3 DEF ClipsOwned, Owned, Active
<1>5. ASSUME NEW i \in Job, MoveToFront(i) \/ \E why \in Reasons : RequestCancel(i, why)
      PROVE  ClipsOwned'
  <2>1. UNCHANGED <<dir, disk>>
    BY <1>5 DEF MoveToFront, RequestCancel
  <2>2. \A j \in Job : file'[j].whole = file[j].whole /\ file'[j].stem = file[j].stem
    <3>1. CASE MoveToFront(i)
      BY <1>2, <3>1 DEF MoveToFront, Files
    <3>2. CASE \E why \in Reasons : RequestCancel(i, why)
      BY <1>2, <3>2 DEF RequestCancel, Files
    <3> QED
      BY <1>5, <3>1, <3>2
  <2> QED
    BY <1>1, <2>1, <2>2 DEF ClipsOwned, Owned, HasClip, Active
<1>6. CASE UNCHANGED <<dir, file, disk>>
  BY <1>1, <1>6 DEF ClipsOwned, Owned, HasClip, Active
<1>7. \/ UNCHANGED <<dir, file, disk>>
      \/ \E i \in Job, s \in Stem : Submit(i, s) \/ Update(i, s)
      \/ \E i \in Job : SubmitKilled(i) \/ Cancel(i) \/ DeleteFinished(i)
      \/ \E i \in Job : MoveToFront(i) \/ \E why \in Reasons : RequestCancel(i, why)
  BY DEF PageRequest, Page, Others, Quiet, qvars, SetPaused, Release, ReleaseLook, ReleasePause,
         ReleaseCancel, ReleaseFree, VideoEnds, H3Crash, Reasons, IInv
<1> QED
  BY <1>3, <1>4, <1>5, <1>6, <1>7

\* Every step keeps a clip its job's.
LEMMA StepClips == IInv /\ ClipsOwned /\ [Next]_vars => ClipsOwned'
<1> SUFFICES ASSUME IInv, ClipsOwned, [Next]_vars PROVE ClipsOwned'
  OBVIOUS
<1>1. CASE Die
  <2>1. UNCHANGED <<dir, file, disk>> /\ cur' = NoJob
    BY <1>1 DEF Die, WDie, DropLease, Forget
  <2> QED
    BY <2>1, WorkerAssumption DEF ClipsOwned, Owned, HasClip, Active
<1>2. CASE WorkerStart \/ StopSignal \/ UNCHANGED vars
  <2>1. UNCHANGED <<dir, file, disk, cur>> /\ wpc' \in {wpc, "top"}
    BY <1>2 DEF WorkerStart, StopSignal, WStart, WStopSignal, vars, qvars, wvars
  <2>2. wpc' = wpc \/ cur = NoJob
    BY <1>2 DEF WorkerStart, StopSignal, WStart, WStopSignal, vars, wvars, IInv, WorkerInv, Idle
  <2> QED
    BY <2>1, <2>2, WorkerAssumption DEF ClipsOwned, Owned, HasClip, Active
<1> QED
  BY <1>1, <1>2, LoopClips, BodyClips, OthersClips DEF Next

\* queue.py, _stem_taken: no run downloads over a clip that is there, for any number
\* of jobs, outputs and deaths.
THEOREM SglangNoOverwrite == Spec => NoClipOverwritten
<1>1. Init => ClipsOwned
  BY DEF Init, QInit, ClipsOwned, Active
<1>2. IInv /\ ClipsOwned /\ [Next]_vars => [GetCompleted => ~HasClip(cur)]_vars
  <2> SUFFICES ASSUME IInv, ClipsOwned, GetCompleted PROVE ~HasClip(cur)
    OBVIOUS
  <2>1. wpc = "get"
    BY DEF GetCompleted, At
  <2>2. cur \in Job /\ dir[cur] = "running" /\ file[cur].whole
    BY <2>1, CurRuns DEF Idle, IInv, JobInv
  <2> QED
    BY <2>1, <2>2 DEF ClipsOwned, Owned, Active, Shown
<1> QED
  BY <1>1, <1>2, StepClips, SglangInvariant, PTL DEF Spec, NoClipOverwritten

\* Without a death nothing runs but the worker's job, and what run_job calls a success
\* is not a clip that failed the check.
Attended ==
    /\ kills = 0 => \A j \in Job : dir[j] = "running" => cur = j
    /\ code /\ wpc \in Shown \ {"check"} => disk[file[cur].stem] # "bad"

\* Every step keeps an unchecked clip attended.
LEMMA StepAttended == IInv /\ Attended /\ [Next]_vars => Attended'
<1> SUFFICES ASSUME IInv, Attended, [Next]_vars PROVE Attended'
  OBVIOUS
<1> USE DEF Attended, Shown
<1>1. /\ dir \in [Job -> Dirs] /\ file \in [Job -> Files] /\ disk \in [Stem -> Disks]
      /\ kills \in Nat /\ WorkerInv
  BY DEF IInv, TypeOK, QTypeOK
<1>2. CASE Loop
  <2> USE DEF Go, Forget
  <2>1. CASE WExit \/ WPauseCheck \/ WClaimNone \/ WLease \/ WMark \/ WUnlease
    <3>1. UNCHANGED <<dir, file, disk, cur, code, kills>>
      BY <2>1 DEF WExit, WPauseCheck, WClaimNone, WLease, TakeLease, WMark, WriteMarker,
                  WUnlease, DropLease, qvars
    <3>2. wpc' \in Shown => wpc \in Shown \ {"check"}
      BY <2>1, WorkerAssumption, SglangAssumption DEF WExit, WPauseCheck, WClaimNone, WLease, WMark, WUnlease
    <3> QED
      BY <3>1, <3>2
  <2>2. CASE WReconcile
    <3>1. cur = NoJob /\ UNCHANGED <<code, kills>> /\ wpc' \notin Shown
      BY <1>1, <2>2 DEF WReconcile, WorkerInv, Idle, Begin
    <3>2. kills = 0 => \A j \in Job : dir[j] # "running" /\ dir'[j] = dir[j]
      BY <1>1, <2>2, <3>1, WorkerAssumption DEF WReconcile, Reconcile
    <3> QED
      BY <3>1, <3>2
  <2>3. CASE WClaim
    <3>1. PICK i \in Job : Claim(i) /\ Begin(i, TRUE)
      BY <2>3 DEF WClaim
    <3>2. \A j \in Job : dir[j] # "running"
      BY <1>1, <2>3 DEF WClaim, WorkerInv
    <3> QED
      BY <1>1, <3>1, <3>2 DEF Claim, Move, Begin
  <2>4. CASE WFinish
    <3>1. /\ cur \in Job /\ dir' = [dir EXCEPT ![cur] = IF code THEN "done" ELSE "failed"]
          /\ kills' = kills /\ wpc' \in {"drain", "top"}
      BY <2>4, CurRuns DEF WFinish, Finish, Move, Idle
    <3> QED
      BY <1>1, <3>1
  <2>5. CASE WDrain
    <3>1. \A j \in Job : dir[j] # "running"
      BY <1>1, <2>5 DEF WDrain, WorkerInv
    <3> QED
      BY <2>5, <3>1 DEF WDrain, PauseIfDrained
  <2> QED
    BY <1>2, <2>1, <2>2, <2>3, <2>4, <2>5 DEF Loop, WLoop
<1>3. CASE Body
  <2> USE DEF Go, At, Over, Quiet, qvars
  <2>1. UNCHANGED <<dir, cur, kills>>
    BY <1>3 DEF Body, Enter, GateCheck, GateReady, GateWait, PostAccepted, PostFailed, Record,
           PollCheck, GetComputing, GetCompleted, PutClip, GetFailed, GetMissed, Check, Crash, After,
           Report, WriteReport, SetRef
  <2>2. CASE Check
    <3>1. code' = (disk[file[cur].stem] = "good") /\ UNCHANGED file
      BY <2>2 DEF Check, Report, WriteReport
    <3>2. file[cur].stem \in Stem
      BY <2>2, CurRuns DEF Check, Idle
    <3>3. disk'[file[cur].stem] = "bad" => disk[file[cur].stem] = "bad"
      BY <1>1, <2>2, <3>2 DEF Check, Report, WriteReport
    <3> QED
      BY <2>1, <3>1, <3>3
  <2>3. CASE After
    BY <2>1, <2>3 DEF After
  <2>4. CASE ~Check /\ ~After
    <3>1. (wpc' = "after" /\ ~code') \/ wpc' \notin Shown \ {"check"}
      BY <1>3, <2>4 DEF Body, Enter, GateCheck, GateReady, GateWait, PostAccepted, PostFailed,
         Record, PollCheck, GetComputing, GetCompleted, GetFailed, GetMissed, Crash
    <3> QED
      BY <2>1, <3>1
  <2> QED
    BY <2>2, <2>3, <2>4
<1>4. CASE PageRequest \/ Release \/ VideoEnds \/ H3Crash
  <2>1. UNCHANGED <<wpc, cur, code, kills>> /\ \A j \in Job : dir'[j] = "running" <=> dir[j] = "running"
    BY <1>4, OthersStep DEF wvars
  <2>2. ASSUME wpc \in Shown, disk'[file'[cur].stem] = "bad"
        PROVE  disk[file[cur].stem] = "bad"
    <3>1. cur \in Job /\ dir[cur] = "running" /\ file[cur].stem \in Stem
      BY <2>2, CurRuns DEF Idle
    <3> USE DEF Move, Claimable
    <3>2. \/ UNCHANGED <<dir, file, disk>>
          \/ \E i \in Job, s \in Stem : Submit(i, s) \/ Update(i, s)
          \/ \E i \in Job : SubmitKilled(i) \/ Cancel(i) \/ DeleteFinished(i)
          \/ \E i \in Job : MoveToFront(i) \/ \E why \in Reasons : RequestCancel(i, why)
      BY <1>4 DEF PageRequest, Page, Others, Quiet, qvars, SetPaused, Release, ReleaseLook,
         ReleasePause, ReleaseCancel, ReleaseFree, VideoEnds, H3Crash, Reasons, IInv
    <3>3. file'[cur].stem = file[cur].stem
      <4>1. CASE \E i \in Job : MoveToFront(i)
        BY <1>1, <3>1, <4>1 DEF MoveToFront, Files
      <4>2. CASE \E i \in Job : \E why \in Reasons : RequestCancel(i, why)
        BY <1>1, <3>1, <4>2 DEF RequestCancel, Files
      <4>3. CASE \E i \in Job, s \in Stem : Submit(i, s) \/ Update(i, s)
        BY <1>1, <3>1, <4>3 DEF Submit, Update
      <4>4. CASE \E i \in Job : SubmitKilled(i) \/ Cancel(i) \/ DeleteFinished(i)
        BY <1>1, <3>1, <4>4 DEF SubmitKilled, Cancel, DeleteFinished
      <4> QED
        BY <3>2, <4>1, <4>2, <4>3, <4>4
    <3>4. disk'[file[cur].stem] \in {disk[file[cur].stem], "clean"}
      BY <1>1, <3>1, <3>2
         DEF Submit, Update, SubmitKilled, Cancel, DeleteFinished, MoveToFront, RequestCancel
    <3> QED
      BY <2>2, <3>3, <3>4
  <2> QED
    BY <2>1, <2>2
<1>5. CASE Die
  BY <1>1, <1>5 DEF Die, WDie, Forget
<1>6. CASE WorkerStart \/ StopSignal \/ UNCHANGED vars
  <2>1. UNCHANGED <<dir, file, disk, cur, code, kills>> /\ wpc' \in {wpc, "top"}
    BY <1>6 DEF WorkerStart, StopSignal, WStart, WStopSignal, vars, qvars, wvars
  <2> QED
    BY <2>1
<1> QED
  BY <1>2, <1>3, <1>4, <1>5, <1>6 DEF Next

\* A clip that fails the frame check is filed as done only after a death of the worker.
THEOREM SglangUnsoundNeedsDeath == Spec => UnsoundDoneNeedsDeath
<1> DEFINE Sound == \A j \in Job : dir[j] = "running" /\ dir'[j] = "done" /\ kills = 0
                                   => disk[file[j].stem] # "bad"
<1>1. Init => Attended
  BY DEF Init, QInit, WInit, Attended
<1>2. IInv /\ Attended /\ [Next]_vars => Sound
  <2> SUFFICES ASSUME IInv, Attended, [Next]_vars, NEW j \in Job,
                      dir[j] = "running", dir'[j] = "done", kills = 0
               PROVE  disk[file[j].stem] # "bad"
    OBVIOUS
  <2>1. cur = j
    BY DEF Attended
  <2>2. cur \in Job /\ dir \in [Job -> Dirs] /\ NoJob \notin Job
    BY <2>1, WorkerAssumption DEF IInv, TypeOK, QTypeOK
  <2>3. CASE WFinish
    <3>1. code
      BY <2>1, <2>2, <2>3 DEF WFinish, Finish, Move
    <3> QED
      BY <2>1, <2>3, <3>1 DEF Attended, Shown, WFinish
  <2>4. CASE Loop /\ ~WFinish
    BY <2>1, <2>2, <2>4 DEF Loop, WLoop, WExit, WReconcile, WPauseCheck, WClaim, Claim, Claimable, Move,
       WClaimNone, WLease, TakeLease, WMark, WriteMarker, WUnlease, DropLease, WDrain,
       PauseIfDrained, qvars, IInv, WorkerInv, Idle
  <2>5. CASE PageRequest \/ Release \/ VideoEnds \/ H3Crash
    BY <2>5, OthersStep
  <2>6. CASE Body \/ Die \/ WorkerStart \/ StopSignal \/ UNCHANGED vars
    BY <2>6 DEF Body, Enter, GateCheck, GateReady, GateWait, PostAccepted, PostFailed, Record,
       PollCheck, GetComputing, GetCompleted, PutClip, GetFailed, GetMissed, Check, Crash, After,
       Report, WriteReport, SetRef, At, Over, Quiet, qvars, Die, WDie, DropLease,
       WorkerStart, StopSignal, WStart, WStopSignal, vars
  <2> QED
    BY <2>3, <2>4, <2>5, <2>6 DEF Next
<1>3. UnsoundDoneNeedsDeath <=> [][Sound]_vars
  BY DEF UnsoundDoneNeedsDeath
<1> HIDE DEF Sound
<1> QED
  BY <1>1, <1>2, <1>3, StepAttended, SglangInvariant, PTL DEF Spec
-----------------------------------------------------------------------------
(* The worker with the H3 engine implements the abstract life of a job:    *)
(* every step moves at most one job, and moves it as JobLifecycle allows.  *)

Engaged(j) == file[j].ref # NoRef

\* Nothing the abstract life knows of the job changes.
Same(j) ==
    /\ PhaseOf(j)' = PhaseOf(j)
    /\ Engaged(j)' = Engaged(j)
    /\ marker'[j] = marker[j]

\* The job takes one step of its abstract life.
Lives(j) ==
    \/ /\ PhaseOf(j) = "new" /\ PhaseOf(j)' = "queued"
       /\ Engaged(j)' = Engaged(j) /\ marker'[j] = marker[j]
    \/ /\ PhaseOf(j) = "queued" /\ PhaseOf(j)' = "started"
       /\ Engaged(j)' = Engaged(j) /\ marker'[j] = marker[j]
    \/ /\ PhaseOf(j) = "started" /\ PhaseOf(j)' = "started"
       /\ marker[j] = "none"
       /\ \/ ~Engaged(j) /\ Engaged(j)' /\ marker'[j] = marker[j]
          \/ Engaged(j)' = Engaged(j) /\ marker'[j] \in {"ok", "bad"}
    \/ /\ PhaseOf(j) = "started" /\ PhaseOf(j)' = "queued"
       /\ ~Engaged(j) /\ ~Engaged(j)' /\ marker[j] = "none" /\ marker'[j] = "none"
    \/ /\ PhaseOf(j) = "started"
       /\ \/ marker[j] # "bad" /\ PhaseOf(j)' = "done"
          \/ marker[j] # "ok" /\ PhaseOf(j)' = "failed"
       /\ Engaged(j)' = Engaged(j) /\ marker'[j] = marker[j]
    \/ /\ PhaseOf(j) \in {"queued", "done", "failed"} /\ PhaseOf(j)' = "gone"
       /\ ~Engaged(j)' /\ marker'[j] = "none"

\* No job's life moves: the abstract specification stutters.
LEMMA StutterLift ==
    ASSUME QTypeOK, QTypeOK', \A j \in Job : Same(j)
    PROVE  UNCHANGED L!lvars
<1>1. marker' = marker
  BY DEF Same, QTypeOK
<1>2. [j \in Job |-> PhaseOf(j)]' = [j \in Job |-> PhaseOf(j)]
  BY DEF Same
<1>3. [j \in Job |-> file[j].ref # NoRef]' = [j \in Job |-> file[j].ref # NoRef]
  BY DEF Same, Engaged
<1> QED
  BY <1>1, <1>2, <1>3 DEF L!lvars

\* One job's life moves as JobLifecycle lets it: an abstract step.
LEMMA LifeLift ==
    ASSUME QTypeOK, QTypeOK', NEW j \in Job, Lives(j), \A i \in Job \ {j} : Same(i)
    PROVE  L!Next
<1> DEFINE phase == [i \in Job |-> PhaseOf(i)]
           engaged == [i \in Job |-> file[i].ref # NoRef]
<1>1. /\ phase' = [phase EXCEPT ![j] = PhaseOf(j)']
      /\ PhaseOf(j)' = PhaseOf(j) => phase' = phase
  BY DEF Same
<1>2. engaged' = [engaged EXCEPT ![j] = Engaged(j)']
  BY DEF Same, Engaged
<1>3. (Engaged(j)' <=> Engaged(j)) => engaged' = engaged
  BY DEF Same, Engaged
<1>4. /\ marker' = [marker EXCEPT ![j] = marker'[j]]
      /\ marker'[j] = marker[j] => marker' = marker
  BY DEF Same, QTypeOK
<1>5. phase[j] = PhaseOf(j) /\ (engaged[j] <=> Engaged(j))
  BY DEF Engaged
<1>6. \/ L!Enqueue(j) \/ L!Start(j) \/ L!Engage(j) \/ L!Settle(j)
      \/ L!PutBack(j) \/ L!File(j) \/ L!Leave(j)
  <2> HIDE DEF phase, engaged
  <2>1. CASE /\ PhaseOf(j) = "new" /\ PhaseOf(j)' = "queued"
             /\ Engaged(j)' = Engaged(j) /\ marker'[j] = marker[j]
    BY <1>1, <1>3, <1>4, <1>5, <2>1 DEF L!Enqueue, L!To, phase, engaged
  <2>2. CASE /\ PhaseOf(j) = "queued" /\ PhaseOf(j)' = "started"
             /\ Engaged(j)' = Engaged(j) /\ marker'[j] = marker[j]
    BY <1>1, <1>3, <1>4, <1>5, <2>2 DEF L!Start, L!To, phase, engaged
  <2>3. CASE /\ PhaseOf(j) = "started" /\ PhaseOf(j)' = "started" /\ marker[j] = "none"
             /\ ~Engaged(j) /\ Engaged(j)' /\ marker'[j] = marker[j]
    BY <1>1, <1>2, <1>4, <1>5, <2>3 DEF L!Engage, phase, engaged
  <2>4. CASE /\ PhaseOf(j) = "started" /\ PhaseOf(j)' = "started" /\ marker[j] = "none"
             /\ Engaged(j)' = Engaged(j) /\ marker'[j] \in {"ok", "bad"}
    BY <1>1, <1>3, <1>4, <1>5, <2>4 DEF L!Settle, phase, engaged
  <2>5. CASE /\ PhaseOf(j) = "started" /\ PhaseOf(j)' = "queued"
             /\ ~Engaged(j) /\ ~Engaged(j)' /\ marker[j] = "none" /\ marker'[j] = "none"
    BY <1>1, <1>3, <1>4, <1>5, <2>5 DEF L!PutBack, L!To, phase, engaged
  <2>6. CASE /\ PhaseOf(j) = "started"
             /\ \/ marker[j] # "bad" /\ PhaseOf(j)' = "done"
                \/ marker[j] # "ok" /\ PhaseOf(j)' = "failed"
             /\ Engaged(j)' = Engaged(j) /\ marker'[j] = marker[j]
    BY <1>1, <1>3, <1>4, <1>5, <2>6 DEF L!File, L!To, phase, engaged
  <2>7. CASE /\ PhaseOf(j) \in {"queued", "done", "failed"} /\ PhaseOf(j)' = "gone"
             /\ ~Engaged(j)' /\ marker'[j] = "none"
    BY <1>1, <1>2, <1>4, <1>5, <2>7 DEF L!Leave, L!To, phase, engaged
  <2> QED
    BY <2>1, <2>2, <2>3, <2>4, <2>5, <2>6, <2>7 DEF Lives
<1> QED
  BY <1>6 DEF L!Next

-----------------------------------------------------------------------------
\* What a step does to the abstract lives: nothing, or one job lives on.
OneLife == \/ \A j \in Job : Same(j)
           \/ \E j \in Job : Lives(j) /\ \A i \in Job \ {j} : Same(i)

\* A step that leaves the jobs' directories, files and markers moves no life.
LEMMA QuietLife == UNCHANGED <<dir, file, marker>> => OneLife
  BY DEF OneLife, Same, PhaseOf, Engaged

\* reconcile moves at most the one job that runs, and as the table says.
LEMMA ReconcileLife == IInv /\ Loop /\ WReconcile => OneLife
<1> SUFFICES ASSUME IInv, WReconcile PROVE OneLife
  OBVIOUS
<1>1. /\ lease = {}
      /\ dir' = [j \in Job |-> IF dir[j] = "running" THEN Verdict(j) ELSE dir[j]]
      /\ UNCHANGED <<file, marker>>
  BY DEF IInv, WorkerInv, WReconcile, Reconcile, Idle, Holding, BodyPoints
<1>2. \A i \in Job : dir[i] # "running" => Same(i)
  BY <1>1 DEF Same, PhaseOf, Engaged
<1>3. ASSUME NEW j \in Job, dir[j] = "running" PROVE Same(j) \/ Lives(j)
  <2>1. dir'[j] = Verdict(j) /\ file[j].whole /\ marker[j] \in {"none", "ok", "bad"}
    BY <1>1, <1>3 DEF IInv, JobInv, TypeOK, QTypeOK
  <2>2. PhaseOf(j) = "started"
    BY <1>3 DEF PhaseOf
  <2>3. Engaged(j)' = Engaged(j) /\ marker'[j] = marker[j]
    BY <1>1 DEF Engaged
  <2>4. PhaseOf(j)' = IF Verdict(j) = "pending" THEN "queued"
                      ELSE IF Verdict(j) = "running" THEN "started" ELSE Verdict(j)
    BY <1>1, <2>1 DEF PhaseOf
  <2>5. \/ Verdict(j) = "running"
        \/ Verdict(j) = "done" /\ marker[j] # "bad"
        \/ Verdict(j) = "failed" /\ marker[j] # "ok"
        \/ Verdict(j) = "pending" /\ marker[j] = "none" /\ ~Engaged(j)
    BY <1>1, <2>1 DEF Verdict, Engaged
  <2> QED
    BY <2>1, <2>2, <2>3, <2>4, <2>5 DEF Same, Lives
<1>4. \A i, j \in Job : dir[i] = "running" /\ dir[j] = "running" => i = j
  BY DEF IInv, OneRunning
<1> QED
  BY <1>2, <1>3, <1>4 DEF OneLife

\* main_loop and run_job move the life of one job at a time.
LEMMA LoopLife == IInv /\ Loop => OneLife
<1> SUFFICES ASSUME IInv, Loop PROVE OneLife
  OBVIOUS
<1>1. CASE WExit \/ WPauseCheck \/ WClaimNone \/ WLease \/ WUnlease \/ WDrain
  BY <1>1, QuietLife DEF WExit, WPauseCheck, WClaimNone, WLease, TakeLease, WUnlease,
                         DropLease, WDrain, PauseIfDrained, qvars
<1>2. CASE WClaim
  <2>1. PICK j \in Job : Claim(j)
    BY <1>2 DEF WClaim
  <2>2. \A i \in Job \ {j} : Same(i)
    BY <2>1 DEF Claim, Move, Same, PhaseOf, Engaged, IInv, TypeOK, QTypeOK
  <2>3. Lives(j)
    BY <2>1 DEF Claim, Claimable, Move, Lives, PhaseOf, Engaged, IInv, TypeOK, QTypeOK
  <2> QED
    BY <2>2, <2>3 DEF OneLife
<1>3. CASE WMark
  <2>1. PICK j \in Job : j = cur /\ dir[j] = "running" /\ marker[j] = "none"
    BY <1>3, CurRuns DEF WMark, IInv, WorkerInv, Idle, Deciding
  <2>2. marker' = [marker EXCEPT ![j] = IF code THEN "ok" ELSE "bad"] /\ UNCHANGED <<dir, file>>
    BY <1>3, <2>1 DEF WMark, WriteMarker
  <2>3. \A i \in Job \ {j} : Same(i)
    BY <2>2 DEF Same, PhaseOf, Engaged, IInv, TypeOK, QTypeOK
  <2>4. /\ PhaseOf(j) = "started" /\ PhaseOf(j)' = "started"
        /\ Engaged(j)' = Engaged(j) /\ marker'[j] \in {"ok", "bad"}
    BY <2>1, <2>2 DEF PhaseOf, Engaged, IInv, TypeOK, QTypeOK
  <2> QED
    BY <2>1, <2>3, <2>4 DEF OneLife, Lives
<1>4. CASE WFinish
  <2>1. PICK j \in Job : j = cur /\ dir[j] = "running" /\ marker[j] = IF code THEN "ok" ELSE "bad"
    BY <1>4, CurRuns DEF WFinish, IInv, WorkerInv, Idle
  <2>2. /\ dir' = [dir EXCEPT ![j] = IF code THEN "done" ELSE "failed"]
        /\ UNCHANGED <<file, marker>>
    BY <1>4, <2>1 DEF WFinish, Finish, Move
  <2>3. \A i \in Job \ {j} : Same(i)
    BY <2>2 DEF Same, PhaseOf, Engaged, IInv, TypeOK, QTypeOK
  <2>4. /\ PhaseOf(j) = "started" /\ PhaseOf(j)' = IF code THEN "done" ELSE "failed"
        /\ Engaged(j)' = Engaged(j) /\ marker'[j] = marker[j]
    BY <2>1, <2>2 DEF PhaseOf, Engaged, IInv, TypeOK, QTypeOK
  <2> QED
    BY <2>1, <2>3, <2>4 DEF OneLife, Lives
<1> QED
  BY <1>1, <1>2, <1>3, <1>4, ReconcileLife DEF Loop, WLoop

\* run_generate engages a job once, and only a job that runs.
LEMMA BodyLife == IInv /\ Body => OneLife
<1> SUFFICES ASSUME IInv, Body PROVE OneLife
  OBVIOUS
<1>1. CASE UNCHANGED <<dir, file, marker>>
  BY <1>1, QuietLife
<1>2. CASE Record
  <2>1. PICK j \in Job :
        /\ j = cur /\ dir[j] = "running" /\ posts[j] # NoRef
        /\ file[j].ref = NoRef /\ marker[j] = "none"
    BY <1>2, CurRuns DEF Record, At, IInv, WorkerInv, Idle, Deciding, BodyPoints, NoRef
  <2>2. file' = [file EXCEPT ![j].ref = posts[j]] /\ UNCHANGED <<dir, marker>>
    BY <1>2, <2>1 DEF Record, SetRef
  <2>3. file'[j].ref = posts[j] /\ file'[j].whole = file[j].whole
    BY <2>1, <2>2 DEF IInv, TypeOK, QTypeOK, Files
  <2>4. \A i \in Job \ {j} : Same(i)
    BY <2>2 DEF Same, PhaseOf, Engaged, IInv, TypeOK, QTypeOK
  <2>5. /\ PhaseOf(j) = "started" /\ PhaseOf(j)' = "started"
        /\ ~Engaged(j) /\ Engaged(j)' /\ marker'[j] = marker[j]
    BY <2>1, <2>2, <2>3 DEF PhaseOf, Engaged
  <2> QED
    BY <2>1, <2>4, <2>5 DEF OneLife, Lives
<1> QED
  BY <1>1, <1>2
     DEF Body, Enter, GateCheck, GateReady, GateWait, PostAccepted, PostFailed, PollCheck,
         GetComputing, GetCompleted, GetFailed, GetMissed, Check, Crash, After, Quiet, qvars,
         Report, WriteReport, PutClip

\* The page enqueues, withdraws and removes; H3 moves no life.
LEMMA OthersLife == IInv /\ (PageRequest \/ Release \/ VideoEnds \/ H3Crash) => OneLife
<1> SUFFICES ASSUME IInv, PageRequest \/ Release \/ VideoEnds \/ H3Crash PROVE OneLife
  OBVIOUS
<1>1. QTypeOK /\ \A j \in Job : JobInv(j)
  BY DEF IInv, TypeOK
<1> USE <1>1 DEF QTypeOK, Move, Claimable, PhaseOf, Engaged
<1>2. ASSUME NEW i \in Job, NEW s \in Stem, Submit(i, s) PROVE OneLife
  <2>1. /\ dir[i] = "new" /\ file[i].ref = NoRef
        /\ dir'[i] = "pending" /\ file'[i] = Fresh(s) /\ marker' = marker
    BY <1>2 DEF Submit, JobInv
  <2>2. \A j \in Job \ {i} : Same(j)
    BY <1>2 DEF Submit, Same
  <2>3. Fresh(s).whole /\ Fresh(s).ref = NoRef
    BY DEF Fresh, Blank
  <2>4. Lives(i)
    BY <2>1, <2>3 DEF Lives
  <2> QED
    BY <2>2, <2>4 DEF OneLife
<1>3. ASSUME NEW i \in Job, NEW s \in Stem, Update(i, s) PROVE OneLife
  <2>1. /\ dir[i] = "pending" /\ file[i].whole /\ file[i].ref = NoRef
        /\ UNCHANGED <<dir, marker>> /\ file'[i] = [Fresh(s) EXCEPT !.prio = file[i].prio]
        /\ \A j \in Job \ {i} : file'[j] = file[j]
    BY <1>3 DEF Update, JobInv
  <2>2. \A n : LET f == [Fresh(s) EXCEPT !.prio = n] IN f.whole /\ f.ref = NoRef
    BY DEF Fresh, Blank
  <2>3. file'[i].whole /\ file'[i].ref = NoRef
    BY <2>1, <2>2
  <2>4. Same(i)
    BY <2>1, <2>3 DEF Same
  <2>5. \A j \in Job \ {i} : Same(j)
    BY <2>1 DEF Same
  <2> QED
    BY <2>4, <2>5 DEF OneLife
<1>4. ASSUME NEW i \in Job, SubmitKilled(i) PROVE OneLife
  BY <1>4 DEF SubmitKilled, JobInv, OneLife, Same
<1>5. ASSUME NEW i \in Job, Cancel(i) \/ DeleteFinished(i) PROVE OneLife
  <2>1. \A j \in Job \ {i} : Same(j)
    BY <1>5 DEF Cancel, DeleteFinished, Same
  <2>2. /\ PhaseOf(i) \in {"queued", "done", "failed"} /\ dir'[i] = "gone"
        /\ file'[i] = Blank /\ marker'[i] = "none"
    BY <1>5 DEF Cancel, DeleteFinished, JobInv
  <2> QED
    BY <2>1, <2>2 DEF OneLife, Lives, Blank
<1>6. ASSUME NEW i \in Job, MoveToFront(i) PROVE OneLife
  BY <1>6 DEF MoveToFront, Files, OneLife, Same
<1>7. ASSUME NEW i \in Job, NEW why \in Reasons, RequestCancel(i, why) PROVE OneLife
  BY <1>7 DEF RequestCancel, Files, OneLife, Same
<1>8. CASE UNCHANGED <<dir, file, marker>>
  BY <1>8, QuietLife
<1>9. \/ UNCHANGED <<dir, file, marker>>
      \/ \E i \in Job, s \in Stem : Submit(i, s) \/ Update(i, s)
      \/ \E i \in Job : \/ SubmitKilled(i) \/ Cancel(i) \/ DeleteFinished(i)
                        \/ MoveToFront(i) \/ \E why \in Reasons : RequestCancel(i, why)
  BY DEF PageRequest, Page, Others, Quiet, qvars, SetPaused, Release, ReleaseLook, ReleasePause,
         ReleaseCancel, ReleaseFree, VideoEnds, H3Crash, Reasons, IInv
<1> QED
  BY <1>2, <1>3, <1>4, <1>5, <1>6, <1>7, <1>8, <1>9

\* Every step of the panel is an abstract step or a stutter.
LEMMA LifeStep == IInv /\ [Next]_vars => [L!Next]_(L!lvars)
<1> SUFFICES ASSUME IInv, [Next]_vars PROVE [L!Next]_(L!lvars)
  OBVIOUS
<1>1. QTypeOK /\ QTypeOK'
  BY QueueStep, QTypeStep DEF IInv, TypeOK
<1>2. OneLife
  <2>1. CASE WorkerStart \/ StopSignal \/ Die \/ UNCHANGED vars
    BY <2>1, QuietLife DEF WorkerStart, StopSignal, Die, WStart, WStopSignal, WDie, DropLease,
                           vars, qvars
  <2> QED
    BY <2>1, LoopLife, BodyLife, OthersLife DEF Next
<1> QED
  BY <1>1, <1>2, StutterLift, LifeLift DEF OneLife

\* Whatever crashes and whoever presses what, each job is queued, started and
\* filed as JobLifecycle says: for any set of jobs, and not only for two.
THEOREM SglangLifecycle == Spec => Lifecycle
<1>1. ASSUME Init PROVE L!Init
  <2>1. \A j \in Job : dir[j] = "new" /\ file[j].ref = NoRef /\ ~file[j].whole
    BY <1>1 DEF Init, QInit, Blank
  <2>2. [j \in Job |-> PhaseOf(j)] = [j \in Job |-> "new"]
    BY <2>1 DEF PhaseOf
  <2>3. [j \in Job |-> file[j].ref # NoRef] = [j \in Job |-> FALSE]
    BY <2>1
  <2> QED
    BY <1>1, <2>2, <2>3 DEF Init, QInit, L!Init
<1> QED
  BY <1>1, LifeStep, SglangInvariant, PTL DEF Spec, Lifecycle, L!Spec
=============================================================================
