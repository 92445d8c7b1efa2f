--------------------------- MODULE JobQueueProofs ---------------------------
(***************************************************************************)
(* What the queue guarantees whoever calls it: the theorems are about      *)
(* QSpec, and a worker inherits them by implementing QSpec.                *)
(***************************************************************************)
EXTENDS JobQueue, TLAPS

\* The records that the queue's functions build are files.
LEMMA FileTypes ==
    /\ Blank \in Files
    /\ \A s \in Stem : Fresh(s) \in Files
    /\ \A s \in Stem, n \in Nat : [Fresh(s) EXCEPT !.prio = n] \in Files
  BY DEF Files, Blank, Fresh, NoRef, Reasons

\* Every call keeps the types.
LEMMA QTypeStep == QTypeOK /\ [QNext]_qvars => QTypeOK'
<1> SUFFICES ASSUME QTypeOK, [QNext]_qvars PROVE QTypeOK'
  OBVIOUS
<1> USE QueueAssumption DEF QTypeOK
<1>1. ASSUME NEW j \in Job, NEW s \in Stem, Submit(j, s) \/ Update(j, s) PROVE QTypeOK'
  <2>1. file[j].prio \in Nat
    BY DEF Files
  <2>2. [Fresh(s) EXCEPT !.prio = file[j].prio] \in Files
    BY <2>1, FileTypes
  <2> QED
    BY <1>1, <2>2, FileTypes DEF Submit, Update, Move, Dirs
<1>2. ASSUME NEW j \in Job, SubmitKilled(j) \/ Cancel(j) \/ Claim(j) PROVE QTypeOK'
  BY <1>2, FileTypes DEF SubmitKilled, Cancel, Claim, Move, Dirs
<1>3. ASSUME NEW j \in Job, MoveToFront(j) PROVE QTypeOK'
  BY <1>3 DEF MoveToFront, Claimable, Files
<1>4. ASSUME NEW j \in Job, TakeLease(j) PROVE QTypeOK'
  BY <1>4 DEF TakeLease
<1>5. ASSUME NEW j \in Job, DeleteFinished(j) PROVE QTypeOK'
  BY <1>5, FileTypes DEF DeleteFinished, Move, Dirs, Disks
<1>6. ASSUME NEW j \in Job, NEW ok \in BOOLEAN, Finish(j, ok) \/ WriteMarker(j, ok)
      PROVE QTypeOK'
  BY <1>6 DEF Finish, WriteMarker, Move, Dirs
<1>7. ASSUME NEW j \in Job, NEW r \in Nat, SetRef(j, r) PROVE QTypeOK'
  BY <1>7 DEF SetRef, Files
<1>8. ASSUME NEW j \in Job, NEW why \in Reasons, RequestCancel(j, why) PROVE QTypeOK'
  BY <1>8 DEF RequestCancel, Files
<1>9. ASSUME NEW S \in SUBSET Job, DropLease(S) PROVE QTypeOK'
  BY <1>9 DEF DropLease
<1>10. ASSUME NEW s \in Stem, WriteReport(s) PROVE QTypeOK'
  BY <1>10 DEF WriteReport, Disks
<1>11. ASSUME NEW s \in Stem, NEW d \in {"bad", "good"}, PutClip(s, d) PROVE QTypeOK'
  BY <1>11 DEF PutClip, Disks
<1>12. CASE Reconcile
  BY <1>12 DEF Reconcile, Verdict, Dirs
<1>13. CASE PauseIfDrained
  BY <1>13 DEF PauseIfDrained
<1>14. ASSUME NEW p \in BOOLEAN, SetPaused(p) PROVE QTypeOK'
  BY <1>14 DEF SetPaused
<1>15. CASE UNCHANGED qvars
  BY <1>15 DEF qvars
<1> QED
  BY <1>1, <1>2, <1>3, <1>4, <1>5, <1>6, <1>7, <1>8, <1>9, <1>10, <1>11, <1>12, <1>13,
     <1>14, <1>15 DEF QNext

\* The queue's files, markers, leases and clips keep their types under any
\* caller.
THEOREM QueueTypes == QSpec => []QTypeOK
<1>1. QInit => QTypeOK
  BY QueueAssumption
     DEF QInit, QTypeOK, Dirs, Files, Blank, NoRef, Reasons, Disks
<1> QED
  BY <1>1, QTypeStep, PTL DEF QSpec

-----------------------------------------------------------------------------
\* A job without a file has nothing in it that a submit's death could bring to
\* light.
Unborn == \A j \in Job : dir[j] = "new" => ~file[j].whole

\* A job that was never submitted has no readable file.
LEMMA UnbornStep == QTypeOK /\ Unborn /\ [QNext]_qvars => Unborn'
<1> SUFFICES ASSUME QTypeOK, Unborn, [QNext]_qvars PROVE Unborn'
  OBVIOUS
<1> USE DEF QTypeOK, Unborn, Claimable, Move
<1>1. CASE UNCHANGED <<dir, file>>
  BY <1>1
<1>2. ASSUME NEW j \in Job, NEW s \in Stem, Submit(j, s) \/ Update(j, s) PROVE Unborn'
  BY <1>2 DEF Submit, Update
<1>3. ASSUME NEW j \in Job,
             \/ SubmitKilled(j) \/ MoveToFront(j) \/ Cancel(j) \/ Claim(j) \/ DeleteFinished(j)
             \/ \E ok \in BOOLEAN : Finish(j, ok)
             \/ \E r \in Nat : SetRef(j, r)
             \/ \E why \in Reasons : RequestCancel(j, why)
      PROVE Unborn'
  BY <1>3 DEF SubmitKilled, MoveToFront, Cancel, Claim, DeleteFinished, Finish, SetRef,
              RequestCancel
<1>4. CASE Reconcile
  BY <1>4 DEF Reconcile, Verdict
<1> QED
  BY <1>1, <1>2, <1>3, <1>4
     DEF QNext, qvars, WriteMarker, TakeLease, DropLease, WriteReport, PutClip,
         PauseIfDrained, SetPaused

\* submit and update check the stem they give, and no other call gives one.
LEMMA StemsStep == QTypeOK /\ Unborn /\ StemsDistinct /\ [QNext]_qvars => StemsDistinct'
<1> SUFFICES ASSUME QTypeOK, Unborn, StemsDistinct, [QNext]_qvars PROVE StemsDistinct'
  OBVIOUS
<1> USE DEF QTypeOK, StemsDistinct, Active
<1>1. ASSUME NEW j \in Job, NEW s \in Stem, Submit(j, s) PROVE StemsDistinct'
  BY <1>1 DEF Submit, StemTaken, Move, Dirs, Fresh, Blank
<1>2. ASSUME NEW j \in Job, NEW s \in Stem, Update(j, s) PROVE StemsDistinct'
  <2>1. /\ file'[j].stem = s
        /\ \A i \in Job \ {j} : file'[i] = file[i]
        /\ dir' = dir
    BY <1>2 DEF Update, Fresh, Blank
  <2>2. \A i \in Job \ {j} : Active(i) => file[i].stem # s
    BY <1>2 DEF Update, StemTaken
  <2> QED
    BY <2>1, <2>2
<1>3. ASSUME NEW j \in Job,
             SubmitKilled(j) \/ Cancel(j) \/ Claim(j) \/ DeleteFinished(j)
      PROVE StemsDistinct'
  BY <1>3 DEF Unborn, SubmitKilled, Cancel, Claim, DeleteFinished, Claimable, Move, Dirs, Blank
<1>4. ASSUME NEW j \in Job, MoveToFront(j) PROVE StemsDistinct'
  BY <1>4 DEF MoveToFront, Files
<1>5. ASSUME NEW j \in Job, NEW ok \in BOOLEAN, Finish(j, ok) \/ WriteMarker(j, ok)
      PROVE StemsDistinct'
  BY <1>5 DEF Finish, WriteMarker, Move, Dirs
<1>6. ASSUME NEW j \in Job, NEW r \in Nat, SetRef(j, r) PROVE StemsDistinct'
  BY <1>6 DEF SetRef, Files
<1>7. ASSUME NEW j \in Job, NEW why \in Reasons, RequestCancel(j, why) PROVE StemsDistinct'
  BY <1>7 DEF RequestCancel, Files
<1>8. CASE Reconcile
  BY <1>8 DEF Reconcile, Verdict, Dirs
<1>9. CASE UNCHANGED <<dir, file>>
  BY <1>9
<1> QED
  BY <1>1, <1>2, <1>3, <1>4, <1>5, <1>6, <1>7, <1>8, <1>9
     DEF QNext, qvars, TakeLease, DropLease, WriteReport, PutClip, PauseIfDrained, SetPaused

\* Two jobs that wait or run never name one output, for any set of jobs and
\* stems and any caller of the queue's functions.
THEOREM QueueStemsDistinct == QSpec => []StemsDistinct
<1>1. QInit => StemsDistinct
  BY DEF QInit, StemsDistinct, Active
<1>2. QInit => Unborn
  BY DEF QInit, Unborn, Blank
<1> QED
  BY <1>1, <1>2, QueueTypes, UnbornStep, StemsStep, PTL DEF QSpec

-----------------------------------------------------------------------------
(* Where a job may go.                                                     *)

\* The moves any step of the queue may make.
Moves(j) ==
    /\ dir[j] = "done" => dir'[j] \in {"done", "gone"}
    /\ dir[j] = "failed" => dir'[j] \in {"failed", "gone"}
    /\ dir[j] = "gone" => dir'[j] = "gone"
    /\ dir[j] = "running" /\ (file[j].ref # NoRef \/ marker[j] # "none" \/ HasClip(j))
          => dir'[j] # "pending"

\* Where one call can move a job, and that reconcile puts back only what has
\* nothing to show.
LEMMA MovesStep == QTypeOK /\ [QNext]_qvars => \A j \in Job : Moves(j)
<1> SUFFICES ASSUME QTypeOK, [QNext]_qvars, NEW i \in Job PROVE Moves(i)
  OBVIOUS
<1> USE DEF QTypeOK, Moves
<1>1. ASSUME NEW j \in Job, NEW s \in Stem, Submit(j, s) PROVE Moves(i)
  BY <1>1 DEF Submit, Move, Dirs
<1>2. ASSUME NEW j \in Job,
             SubmitKilled(j) \/ Cancel(j) \/ Claim(j) \/ DeleteFinished(j)
      PROVE Moves(i)
  BY <1>2 DEF SubmitKilled, Cancel, Claim, DeleteFinished, Claimable, Move, Dirs
<1>3. ASSUME NEW j \in Job, NEW ok \in BOOLEAN, Finish(j, ok) PROVE Moves(i)
  BY <1>3 DEF Finish, Move, Dirs
<1>4. CASE Reconcile
  BY <1>4 DEF Reconcile, Verdict, HasClip, Dirs
<1>5. CASE UNCHANGED dir
  BY <1>5 DEF Dirs
<1> QED
  BY <1>1, <1>2, <1>3, <1>4, <1>5
     DEF QNext, qvars, Update, MoveToFront, WriteMarker, SetRef, RequestCancel, TakeLease,
         DropLease, WriteReport, PutClip, PauseIfDrained, SetPaused

\* A filed job never runs again, and a removed or withdrawn one never returns.
THEOREM QueueFiledStaysFiled == QSpec => FiledStaysFiled
<1>1. QTypeOK /\ [QNext]_qvars =>
        [\A j \in Job :
          /\ dir[j] = "done" => dir'[j] \in {"done", "gone"}
          /\ dir[j] = "failed" => dir'[j] \in {"failed", "gone"}
          /\ dir[j] = "gone" => dir'[j] = "gone"]_qvars
  BY MovesStep DEF Moves
<1> QED
  BY <1>1, QueueTypes, PTL DEF QSpec, FiledStaysFiled
=============================================================================
