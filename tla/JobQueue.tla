------------------------------ MODULE JobQueue ------------------------------
(***************************************************************************)
(* The panel's on-disk job queue: h3_48gb/queue.py.  A job is one JSON     *)
(* file; the directory it lies in (pending, running, done, failed) is its  *)
(* state and is changed by one rename.  Every mutator holds the exclusive  *)
(* queue_lock for its whole body, so every mutator is one action here; a   *)
(* process killed inside a body leaves what was durable by then, and where *)
(* that differs from both ends there is an action for it.                  *)
(*                                                                         *)
(* The module specifies the queue under any caller that respects the       *)
(* functions' own checks (QSpec).  The worker modules restrict the order   *)
(* of the calls, never the calls themselves.                               *)
(***************************************************************************)
EXTENDS Integers, FiniteSets

CONSTANTS
    Job,          \* job ids; ids are compared as the code compares id strings
    Stem,         \* output stems (<outdir>/<minute>-<slug>/h3-<tag>-<WxH>)
    NoStem,
    FolderOf,     \* the directory a stem lies in
    MaxPriority   \* bound on the priorities move_to_front hands out

ASSUME QueueAssumption ==
    /\ Job \subseteq Nat
    /\ NoStem \notin Stem
    /\ MaxPriority \in Nat
    /\ DOMAIN FolderOf = Stem

VARIABLES
    dir,      \* where the job's file lies; "new" and "gone": there is none
    file,     \* what the file says
    marker,   \* queue/results/<id>.json
    disk,     \* what lies at an output stem
    lease,    \* the jobs whose leases/<id>.lock is flocked by a live process
    paused    \* <root>/paused exists

qvars == <<dir, file, marker, disk, lease, paused>>

NoRef == 0

Dirs    == {"new", "pending", "running", "done", "failed", "gone"}
Reasons == {"none", "user", "released"}
Disks   == {"clean", "traces", "bad", "good"}

\* A file is readable (whole), or it is the empty placeholder that submit's
\* O_CREAT|O_EXCL leaves when its process dies before the durable write.
Files == [whole: BOOLEAN, stem: Stem \cup {NoStem}, prio: Nat, ref: Nat,
          cancel: Reasons]
Blank == [whole |-> FALSE, stem |-> NoStem, prio |-> 0, ref |-> NoRef,
          cancel |-> "none"]
Fresh(s) == [Blank EXCEPT !.whole = TRUE, !.stem = s]

QTypeOK ==
    /\ dir \in [Job -> Dirs]
    /\ file \in [Job -> Files]
    /\ marker \in [Job -> {"none", "ok", "bad"}]
    /\ disk \in [Stem -> Disks]
    /\ lease \subseteq Job
    /\ paused \in BOOLEAN

\* layout() creates a new root with the pause marker up.
QInit ==
    /\ dir = [j \in Job |-> "new"]
    /\ file = [j \in Job |-> Blank]
    /\ marker = [j \in Job |-> "none"]
    /\ disk = [s \in Stem |-> "clean"]
    /\ lease = {}
    /\ paused = TRUE

-----------------------------------------------------------------------------
Active(j) == dir[j] \in {"pending", "running"}
HasClip(j) == disk[file[j].stem] \in {"bad", "good"}

\* A pending file that claim, and pause_if_drained, can parse.
Claimable(j) == dir[j] = "pending" /\ file[j].whole

\* Claim order: ascending (-priority, id).
Before(i, j) ==
    \/ file[i].prio > file[j].prio
    \/ file[i].prio = file[j].prio /\ i < j

\* Mutant: only the queue is asked, not the disk.
StemTakenQueueOnly(s, except) ==
    \E i \in Job \ except : Active(i) /\ file[i].stem = s

StemTaken(s, except) ==
    \/ disk[s] # "clean"
    \/ \E i \in Job \ except : Active(i) /\ file[i].stem = s

Move(j, d) == dir' = [dir EXCEPT ![j] = d]

-----------------------------------------------------------------------------
(* The pending side: submit, update, move_to_front, cancel.                *)

Submit(j, s) ==
    /\ dir[j] = "new"
    /\ ~StemTaken(s, {})
    /\ Move(j, "pending")
    /\ file' = [file EXCEPT ![j] = Fresh(s)]
    /\ UNCHANGED <<marker, disk, lease, paused>>

\* The submitting process dies between the placeholder and the durable write.
SubmitKilled(j) ==
    /\ dir[j] = "new"
    /\ \E s \in Stem : ~StemTaken(s, {})
    /\ Move(j, "pending")
    /\ UNCHANGED <<file, marker, disk, lease, paused>>

\* update builds a new Job: ref, wait_reason and cancel_reason fall back to
\* their defaults, priority survives.
Update(j, s) ==
    /\ Claimable(j)
    /\ ~StemTaken(s, {j})
    /\ file' = [file EXCEPT ![j] = [Fresh(s) EXCEPT !.prio = file[j].prio]]
    /\ UNCHANGED <<dir, marker, disk, lease, paused>>

\* One more than the highest priority among the readable pending files.
MoveToFront(j) ==
    /\ Claimable(j)
    /\ \E top \in {file[i].prio : i \in {i \in Job : Claimable(i)}} :
          /\ \A i \in Job : Claimable(i) => file[i].prio <= top
          /\ top < MaxPriority
          /\ file' = [file EXCEPT ![j].prio = top + 1]
    /\ UNCHANGED <<dir, marker, disk, lease, paused>>

Cancel(j) ==
    /\ Claimable(j)
    /\ Move(j, "gone")
    /\ file' = [file EXCEPT ![j] = Blank]
    /\ UNCHANGED <<marker, disk, lease, paused>>

-----------------------------------------------------------------------------
(* The running side: claim, finish, _mutate_running, the marker, the lease.*)

\* Killed between the started_at write and the rename, claim leaves the job
\* in pending/, which is the state before it.
Claim(j) ==
    /\ Claimable(j)
    /\ \A i \in Job \ {j} : Claimable(i) => Before(j, i)
    /\ Move(j, "running")
    /\ UNCHANGED <<file, marker, disk, lease, paused>>

Finish(j, ok) ==
    /\ dir[j] = "running"
    /\ Move(j, IF ok THEN "done" ELSE "failed")
    /\ UNCHANGED <<file, marker, disk, lease, paused>>

SetRef(j, r) ==
    /\ dir[j] = "running"
    /\ file' = [file EXCEPT ![j].ref = r]
    /\ UNCHANGED <<dir, marker, disk, lease, paused>>

RequestCancel(j, why) ==
    /\ dir[j] = "running"
    /\ file' = [file EXCEPT ![j].cancel = why]
    /\ UNCHANGED <<dir, marker, disk, lease, paused>>

WriteMarker(j, ok) ==
    /\ marker' = [marker EXCEPT ![j] = IF ok THEN "ok" ELSE "bad"]
    /\ UNCHANGED <<dir, file, disk, lease, paused>>

TakeLease(j) ==
    /\ j \notin lease
    /\ lease' = lease \cup {j}
    /\ UNCHANGED <<dir, file, marker, disk, paused>>

\* A holder lets go, or dies: flock goes with the process.
DropLease(S) ==
    /\ lease' = lease \ S
    /\ UNCHANGED <<dir, file, marker, disk, paused>>

\* What a run leaves at its stem: a clip, or a report beside whatever is there.
PutClip(s, d) ==
    /\ disk' = [disk EXCEPT ![s] = d]
    /\ UNCHANGED <<dir, file, marker, lease, paused>>

WriteReport(s) ==
    /\ disk' = [disk EXCEPT ![s] = IF @ = "clean" THEN "traces" ELSE @]
    /\ UNCHANGED <<dir, file, marker, lease, paused>>

-----------------------------------------------------------------------------
(* reconcile: the whole table under one lock.  "running" is both the row   *)
(* of a held lease (alive) and that of an accepted POST (resumable).       *)

\* Mutant: a cancel outranks everything but a lease.
VerdictCancelFirst(j) ==
    IF j \in lease THEN "running"
    ELSE IF file[j].cancel # "none" THEN "failed"
    ELSE IF marker[j] # "none" THEN (IF marker[j] = "ok" THEN "done" ELSE "failed")
    ELSE IF HasClip(j) THEN "done"
    ELSE IF file[j].ref # NoRef THEN "running"
    ELSE "pending"

Verdict(j) ==
    IF j \in lease THEN "running"
    ELSE IF marker[j] # "none" THEN (IF marker[j] = "ok" THEN "done" ELSE "failed")
    ELSE IF HasClip(j) THEN "done"
    ELSE IF file[j].ref # NoRef THEN "running"
    ELSE IF file[j].cancel # "none" THEN "failed"
    ELSE "pending"

Alive == {j \in Job : dir[j] = "running" /\ j \in lease}
Resumable == {j \in Job : dir[j] = "running" /\ j \notin lease
                          /\ Verdict(j) = "running"}

Reconcile ==
    /\ dir' = [j \in Job |-> IF dir[j] = "running" THEN Verdict(j) ELSE dir[j]]
    /\ UNCHANGED <<file, marker, disk, lease, paused>>

-----------------------------------------------------------------------------
(* The pause marker, and the removal of a finished job.                    *)

SetPaused(p) ==
    /\ paused' = p
    /\ UNCHANGED <<dir, file, marker, disk, lease>>

PauseIfDrained ==
    /\ paused' = (paused \/ ~\E j \in Job : Claimable(j))
    /\ UNCHANGED <<dir, file, marker, disk, lease>>

\* web._delete_finished_job: rmtree of the directory the stem lies in, then
\* the record.  The marker stays on disk; nobody reads it under that id again.
DeleteFinished(j) ==
    /\ dir[j] \in {"done", "failed"}
    /\ Move(j, "gone")
    /\ disk' = [s \in Stem |-> IF FolderOf[s] = FolderOf[file[j].stem]
                               THEN "clean" ELSE disk[s]]
    /\ file' = [file EXCEPT ![j] = Blank]
    /\ marker' = [marker EXCEPT ![j] = "none"]
    /\ UNCHANGED <<lease, paused>>

-----------------------------------------------------------------------------
QNext ==
    \/ \E j \in Job, s \in Stem : Submit(j, s) \/ Update(j, s)
    \/ \E j \in Job :
          \/ SubmitKilled(j) \/ MoveToFront(j) \/ Cancel(j) \/ Claim(j)
          \/ TakeLease(j) \/ DeleteFinished(j)
          \/ \E ok \in BOOLEAN : Finish(j, ok) \/ WriteMarker(j, ok)
          \/ \E r \in Nat : SetRef(j, r)
          \/ \E why \in Reasons : RequestCancel(j, why)
    \/ \E S \in SUBSET Job : DropLease(S)
    \/ \E s \in Stem : WriteReport(s) \/ \E d \in {"bad", "good"} : PutClip(s, d)
    \/ Reconcile \/ PauseIfDrained
    \/ \E p \in BOOLEAN : SetPaused(p)

QSpec == QInit /\ [][QNext]_qvars

-----------------------------------------------------------------------------
(* What the queue promises whoever calls it.                               *)

\* No two jobs that wait or run ever name the same output: submit and update
\* check under the lock that renames and writes happen under.
StemsDistinct ==
    \A i, j \in Job : i # j /\ Active(i) /\ Active(j) /\ file[i].whole /\ file[j].whole
                      => file[i].stem # file[j].stem

\* What is filed stays filed: a done or failed job only ever leaves by being
\* deleted, and a job that left the queue never comes back.
FiledStaysFiled ==
    [][\A j \in Job :
          /\ dir[j] = "done" => dir'[j] \in {"done", "gone"}
          /\ dir[j] = "failed" => dir'[j] \in {"failed", "gone"}
          /\ dir[j] = "gone" => dir'[j] = "gone"]_qvars
=============================================================================
