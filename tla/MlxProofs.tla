------------------------------ MODULE MlxProofs ------------------------------
(***************************************************************************)
(* The panel on the Mac, for any number of jobs, generator processes and   *)
(* deaths: it uses the queue as QSpec allows, whatever the page's          *)
(* reconcile takes from under the worker, and there is never more than one *)
(* generation but those that a worker left running by its death.           *)
(***************************************************************************)
EXTENDS MlxWorker, JobQueueProofs, FiniteSetTheorems

Busy == RunPoints \cup {"assign", "wait"}

\* run_job has a job and a stem from claim to finish, and a child while it waits.
WorkerInv ==
    /\ wpc \in Busy => cur \in Job /\ stem \in Stem
    /\ wpc \notin Busy => cur = NoJob
    /\ wpc \in {"assign", "wait"} => child \in Pid
    /\ wpc \notin {"assign", "wait"} => child = NoPid

\* On the Mac nothing is POSTed, and what is whole names an output.
FilesInv == \A j \in Job : /\ file[j].ref = NoRef
                           /\ file[j].whole => file[j].stem \in Stem

GenInv == \A p \in Pid : gen[p].at # "free" => gen[p].job \in Job /\ gen[p].stem \in Stem

\* The generations nobody waits for.
Lost == {p \in Pid : Live(p) /\ p # child}
LostInv == Cardinality(Lost) <= orphaned

IInv == TypeOK /\ WorkerInv /\ FilesInv /\ GenInv /\ LostInv

\* Nothing was submitted.
LEMMA InitIInv == Init => IInv
<1> SUFFICES ASSUME Init PROVE IInv
  OBVIOUS
<1> USE QueueAssumption, WorkerAssumption, MlxAssumption DEF Init, QInit, WInit
<1>1. TypeOK
  <2>1. QTypeOK
    BY FileTypes DEF QTypeOK, Dirs, Disks
  <2>2. Free \in [at: {"free", "load", "diffuse", "save", "write"} \cup Exits,
                  job: Job \cup {NoJob}, stem: Stem \cup {NoStem}]
    BY DEF Free
  <2> QED
    BY <2>1, <2>2 DEF TypeOK, LoopPoints
<1>2. WorkerInv
  BY DEF WorkerInv, Busy, RunPoints
<1>3. FilesInv
  BY DEF FilesInv, Blank
<1>4. GenInv
  BY DEF GenInv, Free
<1>5. Lost = {}
  BY DEF Lost, Live, Free
<1>6. LostInv
  BY <1>5, FS_EmptySet DEF LostInv
<1> QED
  BY <1>1, <1>2, <1>3, <1>4, <1>6 DEF IInv

-----------------------------------------------------------------------------
(* Every step is a step of the queue, or none of its business.             *)

LEMMA QueueStep == IInv /\ [Next]_vars => [QNext]_qvars
<1> SUFFICES ASSUME IInv, [Next]_vars PROVE [QNext]_qvars
  OBVIOUS
<1>1. CASE Loop
  <2> USE DEF Go, qvars
  <2>1. CASE WExit \/ WPauseCheck \/ WClaimNone
    BY <2>1 DEF WExit, WPauseCheck, WClaimNone
  <2>2. CASE WReconcile \/ WClaim \/ WDrain
    BY <2>2 DEF WReconcile, WClaim, WDrain, QNext
  <2>3. CASE WLease \/ WMark \/ WUnlease \/ WFinish
    <3>1. cur \in Job
      BY <2>3 DEF IInv, WorkerInv, Busy, RunPoints, WLease, WMark, WUnlease, WFinish
    <3>2. code \in BOOLEAN
      BY DEF IInv, TypeOK
    <3>3. {cur} \in SUBSET Job
      BY <3>1
    <3> QED
      BY <2>3, <3>1, <3>2, <3>3 DEF WLease, WMark, WUnlease, WFinish, QNext
  <2> QED
    BY <1>1, <2>1, <2>2, <2>3 DEF Loop, WLoop
<1>2. CASE LlmGate \/ Spawn \/ Assign \/ Wait \/ FinishRaises \/ Start \/ StopSignal
  BY <1>2 DEF LlmGate, Spawn, Assign, Wait, FinishRaises, Start, WStart, StopSignal, WStopSignal
<1>3. ASSUME NEW p \in Pid, Generator(p) PROVE [QNext]_qvars
  <2>1. CASE Lock(p) \/ Diffused(p) \/ Reaped(p)
    BY <2>1 DEF Lock, Diffused, Reaped
  <2>2. CASE SaveBegins(p) \/ SaveEnds(p)
    <3>1. gen[p].stem \in Stem
      BY <1>3, <2>2 DEF IInv, GenInv, SaveBegins, SaveEnds, At
    <3>2. \E d \in {"bad", "good"} : PutClip(gen[p].stem, d)
      BY <2>2 DEF SaveBegins, SaveEnds
    <3> QED
      BY <3>1, <3>2 DEF QNext
  <2> QED
    BY <1>3, <2>1, <2>2 DEF Generator
<1>4. CASE Kill9 \/ SecondSignal \/ PowerCut
  <2>1. DropLease({cur})
    BY <1>4 DEF Kill9, SecondSignal, PowerCut, WDie
  <2>2. DropLease({cur} \cap Job)
    BY <2>1 DEF DropLease, IInv, TypeOK, QTypeOK
  <2>3. {cur} \cap Job \in SUBSET Job
    OBVIOUS
  <2> QED
    BY <2>2, <2>3 DEF QNext
<1>5. CASE PageRequest \/ ChatLook
  BY <1>5 DEF PageRequest, ChatLook, Aside, Page, QNext
<1>6. CASE ChatRaise \/ Unload \/ UNCHANGED vars
  BY <1>6 DEF ChatRaise, Unload, Aside, vars
<1> QED
  BY <1>1, <1>2, <1>3, <1>4, <1>5, <1>6 DEF Next, WorkerStep

-----------------------------------------------------------------------------
(* Types, files, generators.                                               *)

\* A Mac job has no reference, and its stem is one when it can be read.
LEMMA FilesStep == IInv /\ [Next]_vars => FilesInv'
<1> SUFFICES ASSUME IInv, [Next]_vars PROVE FilesInv'
  OBVIOUS
<1>1. file \in [Job -> Files] /\ FilesInv
  BY DEF IInv, TypeOK, QTypeOK
<1>2. CASE PageRequest
  <2>1. CASE file' = file
    BY <1>1, <2>1 DEF FilesInv
  <2>2. ASSUME NEW i \in Job, NEW s \in Stem, Submit(i, s) \/ Update(i, s)
        PROVE  FilesInv'
    <3>1. /\ \A n : LET f == [Fresh(s) EXCEPT !.prio = n] IN f.ref = NoRef /\ f.stem = s
          /\ Fresh(s).ref = NoRef /\ Fresh(s).stem = s
      BY DEF Fresh, Blank
    <3>2. /\ file'[i] = Fresh(s) \/ file'[i] = [Fresh(s) EXCEPT !.prio = file[i].prio]
          /\ \A j \in Job : j # i => file'[j] = file[j]
      BY <1>1, <2>2 DEF Submit, Update
    <3>3. file'[i].ref = NoRef /\ file'[i].stem = s
      BY <3>1, <3>2
    <3> QED
      BY <1>1, <2>2, <3>2, <3>3 DEF FilesInv
  <2>3. ASSUME NEW i \in Job, Cancel(i) \/ DeleteFinished(i)
        PROVE  FilesInv'
    BY <1>1, <2>3 DEF Cancel, DeleteFinished, FilesInv, Blank
  <2>4. ASSUME NEW i \in Job, MoveToFront(i)
        PROVE  FilesInv'
    BY <1>1, <2>4 DEF MoveToFront, FilesInv, Files
  <2> QED
    BY <1>2, <2>1, <2>2, <2>3, <2>4 DEF PageRequest, Aside, Page, SubmitKilled, SetPaused
<1>3. CASE ~PageRequest
  <2>1. Loop => file' = file
    BY DEF Loop, WLoop, WExit, WReconcile, Reconcile, WPauseCheck, WClaim, Claim, WClaimNone,
       WLease, TakeLease, WMark, WriteMarker, WUnlease, DropLease, WFinish, Finish, WDrain,
       PauseIfDrained, qvars
  <2>2. \A p \in Pid : Generator(p) => file' = file
    BY DEF Generator, Lock, Diffused, SaveBegins, SaveEnds, Reaped, PutClip, qvars
  <2>3. Next /\ ~Loop /\ ~(\E p \in Pid : Generator(p)) => file' = file
    BY <1>3 DEF Next, WorkerStep, LlmGate, Spawn, Assign, Wait, FinishRaises, Start, WStart, StopSignal,
       WStopSignal, Kill9, SecondSignal, PowerCut, WDie, DropLease, ChatLook, Reconcile, ChatRaise,
       Unload, Aside, qvars
  <2> QED
    BY <1>1, <2>1, <2>2, <2>3 DEF FilesInv, vars, qvars
<1> QED
  BY <1>2, <1>3

\* Every step keeps the types, and run_job its job and its child.
LEMMA TypeStep == IInv /\ [Next]_vars => TypeOK' /\ WorkerInv'
<1> SUFFICES ASSUME IInv, [Next]_vars PROVE TypeOK' /\ WorkerInv'
  OBVIOUS
<1>1. QTypeOK'
  BY QueueStep, QTypeStep DEF IInv, TypeOK
<1>2. /\ QTypeOK /\ WorkerInv /\ FilesInv
      /\ wpc \in LoopPoints \cup RunPoints \cup {"assign", "wait"}
      /\ cur \in Job \cup {NoJob} /\ child \in Pid \cup {NoPid} /\ stem \in Stem \cup {NoStem}
      /\ code \in BOOLEAN /\ claimed \in BOOLEAN /\ stopping \in BOOLEAN
      /\ stops \in Nat /\ kills \in Nat /\ orphaned \in Nat
      /\ llm \in BOOLEAN /\ chat \in {"off", "raise"}
      /\ gen \in [Pid -> [at: {"free", "load", "diffuse", "save", "write"} \cup Exits,
                          job: Job \cup {NoJob}, stem: Stem \cup {NoStem}]]
  BY DEF IInv, TypeOK
<1>3. Gate = "llm" /\ NoJob \notin Job /\ NoPid \notin Pid
  BY MlxAssumption, WorkerAssumption
<1>4. CASE Loop
  <2>1. UNCHANGED <<gen, child, llm, chat, orphaned>>
    BY <1>4 DEF Loop, PageSame
  <2>2. /\ code' \in BOOLEAN /\ claimed' \in BOOLEAN /\ UNCHANGED <<stopping, stops, kills>>
        /\ wpc \notin {"assign", "wait"} /\ child = NoPid
        /\ stem' = IF cur' = NoJob THEN NoStem
                   ELSE IF wpc = "claim" THEN file[cur'].stem ELSE stem
    BY <1>2, <1>3, <1>4 DEF Loop, WLoop, WExit, WReconcile, WPauseCheck, WClaim, WClaimNone,
       WLease, WMark, WUnlease, WFinish, WDrain, Go, Begin, Forget, WorkerInv
  <2>3. CASE WExit \/ WPauseCheck \/ WClaimNone \/ WReconcile
    <3>1. Resumable = {}
      BY <1>2 DEF Resumable, Verdict, FilesInv
    <3>2. wpc' \in {"down", "top", "paused?", "llm"} /\ cur' = cur /\ wpc \in {"top", "paused?", "claim"}
      BY <1>3, <2>3, <3>1 DEF WExit, WPauseCheck, WClaimNone, WReconcile, Go
    <3>3. cur' = NoJob
      BY <1>2, <3>2 DEF WorkerInv, Busy, RunPoints
    <3> QED
      BY <1>1, <1>2, <1>3, <2>1, <2>2, <3>2, <3>3 DEF TypeOK, WorkerInv, Busy, LoopPoints, RunPoints
  <2>4. CASE WClaim
    <3>1. wpc = "claim" /\ wpc' = "lease" /\ cur' \in Job /\ file[cur'].whole
      BY <2>4 DEF WClaim, Claim, Claimable, Begin
    <3>2. stem' \in Stem
      BY <1>2, <1>3, <2>2, <3>1 DEF FilesInv
    <3> QED
      BY <1>1, <1>2, <1>3, <2>1, <2>2, <3>1, <3>2 DEF TypeOK, WorkerInv, Busy, LoopPoints, RunPoints
  <2>5. CASE WLease \/ WMark \/ WUnlease \/ (WFinish /\ claimed)
    <3>1. /\ wpc \in {"lease", "mark", "unlease", "finish"} /\ cur' = cur
          /\ wpc' \in {"body", "unlease", "finish", "drain"}
      BY <2>5 DEF WLease, WMark, WUnlease, WFinish, Go
    <3>2. cur \in Job /\ stem' = stem /\ stem \in Stem
      BY <1>2, <1>3, <2>2, <3>1 DEF WorkerInv, Busy, RunPoints
    <3> QED
      BY <1>1, <1>2, <1>3, <2>1, <2>2, <3>1, <3>2 DEF TypeOK, WorkerInv, Busy, LoopPoints, RunPoints
  <2>6. CASE WDrain \/ (WFinish /\ ~claimed)
    <3>1. wpc' = "top" /\ cur' = NoJob
      BY <2>6 DEF WDrain, WFinish, Forget
    <3> QED
      BY <1>1, <1>2, <1>3, <2>1, <2>2, <3>1 DEF TypeOK, WorkerInv, Busy, LoopPoints, RunPoints
  <2> QED
    BY <1>4, <2>3, <2>4, <2>5, <2>6 DEF Loop, WLoop
<1>5. CASE LlmGate \/ FinishRaises \/ Start \/ StopSignal
  <2>1. /\ UNCHANGED <<gen, child, llm, chat, orphaned, kills>> /\ stops' \in Nat
        /\ code' \in BOOLEAN /\ claimed' \in BOOLEAN /\ stopping' \in BOOLEAN
    <3>1. CASE LlmGate
      BY <1>2, <3>1 DEF LlmGate, Go, PageSame
    <3>2. CASE FinishRaises
      BY <1>2, <3>2 DEF FinishRaises, Forget, PageSame
    <3>3. CASE Start
      BY <1>2, <3>3 DEF Start, WStart, evars
    <3>4. CASE StopSignal
      BY <1>2, <3>4 DEF StopSignal, WStopSignal, evars
    <3> QED
      BY <1>5, <3>1, <3>2, <3>3, <3>4
  <2>2. CASE StopSignal
    BY <1>1, <1>2, <2>1, <2>2 DEF StopSignal, WStopSignal, evars, TypeOK, WorkerInv
  <2>3. CASE LlmGate \/ FinishRaises \/ Start
    <3>1. wpc' \in {"top", "claim", "down"} /\ cur' = NoJob /\ stem' \in {stem, NoStem} /\ wpc \notin {"assign", "wait"}
      BY <1>2, <2>3 DEF LlmGate, FinishRaises, Start, WStart, Go, Forget, evars, WorkerInv, Busy,
         RunPoints
    <3> QED
      BY <1>1, <1>2, <2>1, <3>1 DEF TypeOK, WorkerInv, Busy, LoopPoints, RunPoints
  <2> QED
    BY <1>5, <2>2, <2>3
<1>6. CASE Spawn
  <2>1. PICK p \in Pid : /\ gen' = [gen EXCEPT ![p] = [at |-> "load", job |-> cur, stem |-> stem]]
                         /\ child' = p
    BY <1>6 DEF Spawn
  <2>2. /\ wpc = "body" /\ wpc' = "assign" /\ stem' = stem /\ PageSame
        /\ UNCHANGED <<cur, code, claimed, stopping, stops, kills>>
    BY <1>6 DEF Spawn, Go
  <2>3. cur \in Job /\ stem \in Stem
    BY <1>2, <2>2 DEF WorkerInv, Busy, RunPoints
  <2> QED
    BY <1>1, <1>2, <1>3, <2>1, <2>2, <2>3 DEF TypeOK, WorkerInv, Busy, RunPoints, PageSame
<1>6a. CASE Assign
  <2>1. /\ wpc = "assign" /\ wpc' = "wait" /\ UNCHANGED <<gen, child, stem, llm, chat, orphaned>>
        /\ UNCHANGED <<cur, code, claimed, stopping, stops, kills>>
    BY <1>6a DEF Assign, Go, PageSame
  <2>2. cur \in Job /\ stem \in Stem /\ child \in Pid
    BY <1>2, <2>1 DEF WorkerInv, Busy
  <2> QED
    BY <1>1, <1>2, <2>1, <2>2 DEF TypeOK, WorkerInv, Busy
<1>7. CASE Wait
  <2>1. /\ wpc = "wait" /\ wpc' = "mark" /\ stem' = stem /\ PageSame /\ child' = NoPid
        /\ gen' = [gen EXCEPT ![child] = Free] /\ code' = (gen[child].at = "ok")
        /\ UNCHANGED <<cur, claimed, stopping, stops, kills>>
    BY <1>7 DEF Wait, Decide
  <2>2. cur \in Job /\ stem \in Stem
    BY <1>2, <2>1 DEF WorkerInv, Busy
  <2>3. Free \in [at: {"free", "load", "diffuse", "save", "write"} \cup Exits,
                  job: Job \cup {NoJob}, stem: Stem \cup {NoStem}]
    BY DEF Free
  <2> QED
    BY <1>1, <1>2, <1>3, <2>1, <2>2, <2>3 DEF TypeOK, WorkerInv, Busy, RunPoints, PageSame
<1>8. ASSUME NEW p \in Pid, Generator(p) PROVE TypeOK' /\ WorkerInv'
  <2>1. UNCHANGED <<child, stem, wvars, llm, chat, orphaned>>
    BY <1>8 DEF Generator, Lock, Diffused, SaveBegins, SaveEnds, Reaped, At, GenSame, PageSame
  <2>2. gen' \in [Pid -> [at: {"free", "load", "diffuse", "save", "write"} \cup Exits,
                         job: Job \cup {NoJob}, stem: Stem \cup {NoStem}]]
    <3>1. CASE Reaped(p)
      BY <1>2, <3>1 DEF Reaped, Free
    <3>2. ASSUME NEW to \in {"diffuse", "save", "write"} \cup Exits, gen' = [gen EXCEPT ![p].at = to]
          PROVE  gen' \in [Pid -> [at: {"free", "load", "diffuse", "save", "write"} \cup Exits,
                         job: Job \cup {NoJob}, stem: Stem \cup {NoStem}]]
      BY <1>2, <3>2
    <3> QED
      BY <1>8, <3>1, <3>2 DEF Generator, Lock, Diffused, SaveBegins, SaveEnds, At, Exits
  <2> QED
    BY <1>1, <1>2, <2>1, <2>2 DEF TypeOK, WorkerInv, wvars
<1>9. CASE Kill9 \/ SecondSignal \/ PowerCut
  <2>1. /\ wpc' = "down" /\ cur' = NoJob /\ code' = FALSE /\ claimed' = FALSE /\ stopping' = FALSE
        /\ kills' = kills + 1 /\ stops' = stops /\ child' = NoPid /\ stem' = NoStem
    BY <1>9 DEF Kill9, SecondSignal, PowerCut, WDie, Forget
  <2>2. Free \in [at: {"free", "load", "diffuse", "save", "write"} \cup Exits,
                  job: Job \cup {NoJob}, stem: Stem \cup {NoStem}]
    BY DEF Free
  <2>3. /\ gen' \in [Pid -> [at: {"free", "load", "diffuse", "save", "write"} \cup Exits,
                         job: Job \cup {NoJob}, stem: Stem \cup {NoStem}]]
        /\ llm' \in BOOLEAN /\ chat' \in {"off", "raise"} /\ orphaned' \in Nat
    <3>1. CASE Kill9
      BY <1>2, <3>1 DEF Kill9, Left
    <3>2. CASE SecondSignal
      BY <1>2, <2>2, <3>2 DEF SecondSignal, Left
    <3>3. CASE PowerCut
      BY <1>2, <2>2, <3>3 DEF PowerCut
    <3> QED
      BY <1>9, <3>1, <3>2, <3>3
  <2>4. WorkerInv'
    BY <1>3, <2>1 DEF WorkerInv, Busy, RunPoints
  <2>5. kills' \in Nat /\ stops' \in Nat
    BY <1>2, <2>1
  <2>6. /\ wpc' \in LoopPoints /\ cur' \in Job \cup {NoJob} /\ child' \in Pid \cup {NoPid}
        /\ stem' \in Stem \cup {NoStem}
        /\ code' \in BOOLEAN /\ claimed' \in BOOLEAN /\ stopping' \in BOOLEAN
    BY <2>1 DEF LoopPoints
  <2> QED
    BY <1>1, <2>3, <2>4, <2>5, <2>6 DEF TypeOK
<1>10. CASE PageRequest \/ ChatLook \/ ChatRaise \/ Unload \/ UNCHANGED vars
  <2>1. UNCHANGED <<wvars, gen, child, stem, orphaned>> /\ llm' \in BOOLEAN /\ chat' \in {"off", "raise"}
    BY <1>2, <1>10 DEF PageRequest, ChatLook, ChatRaise, Unload, Aside, vars, evars
  <2> QED
    BY <1>1, <1>2, <2>1 DEF TypeOK, WorkerInv, wvars
<1> QED
  BY <1>4, <1>5, <1>6, <1>6a, <1>7, <1>8, <1>9, <1>10 DEF Next, WorkerStep

-----------------------------------------------------------------------------
(* The generations.                                                        *)

LEMMA GenStep == IInv /\ [Next]_vars => GenInv'
<1> SUFFICES ASSUME IInv, [Next]_vars PROVE GenInv'
  OBVIOUS
<1>1. GenInv /\ WorkerInv /\ gen \in [Pid -> [at: {"free", "load", "diffuse", "save", "write"} \cup Exits,
                         job: Job \cup {NoJob}, stem: Stem \cup {NoStem}]]
  BY DEF IInv, TypeOK
<1>2. CASE Spawn
  <2>1. PICK p \in Pid : gen' = [gen EXCEPT ![p] = [at |-> "load", job |-> cur, stem |-> stem]]
    BY <1>2 DEF Spawn
  <2>2. cur \in Job /\ stem \in Stem
    BY <1>1, <1>2 DEF Spawn, WorkerInv, Busy, RunPoints
  <2> QED
    BY <1>1, <2>1, <2>2 DEF GenInv
<1>3. CASE Wait
  BY <1>1, <1>3 DEF Wait, GenInv, Free
<1>4. ASSUME NEW p \in Pid, Generator(p) PROVE GenInv'
  <2>1. CASE Reaped(p)
    BY <1>1, <2>1 DEF Reaped, GenInv, Free
  <2>2. ASSUME NEW to, gen[p].at # "free", gen' = [gen EXCEPT ![p].at = to]
        PROVE  GenInv'
    BY <1>1, <2>2 DEF GenInv
  <2> QED
    BY <1>4, <2>1, <2>2 DEF Generator, Lock, Diffused, SaveBegins, SaveEnds, At
<1>5. CASE SecondSignal \/ PowerCut
  BY <1>1, <1>5 DEF SecondSignal, PowerCut, GenInv, Free
<1>6. CASE ~(Spawn \/ Wait \/ (\E p \in Pid : Generator(p)) \/ SecondSignal \/ PowerCut)
  <2>1. gen' = gen
    BY <1>6 DEF Next, WorkerStep, Loop, LlmGate, Assign, FinishRaises, Start, StopSignal, Kill9, PageRequest,
       ChatLook, ChatRaise, Unload, Aside, evars, vars
  <2> QED
    BY <1>1, <2>1 DEF GenInv
<1> QED
  BY <1>2, <1>3, <1>4, <1>5, <1>6

\* No more are lost when no group that was not lost before is left running alone.
LEMMA NoneLost ==
    ASSUME IInv, orphaned' = orphaned, Lost' \subseteq Lost
    PROVE  LostInv'
<1>1. IsFiniteSet(Lost)
  BY MlxAssumption, FS_Subset DEF Lost
<1>2. Cardinality(Lost') <= Cardinality(Lost) /\ Cardinality(Lost) \in Nat /\ Cardinality(Lost') \in Nat
  BY <1>1, FS_Subset, FS_CardinalityType
<1> QED
  BY <1>2 DEF IInv, LostInv, TypeOK

\* A generation is lost by a death that is counted.
LEMMA LostStep == IInv /\ [Next]_vars => LostInv'
<1> SUFFICES ASSUME IInv, [Next]_vars PROVE LostInv'
  OBVIOUS
<1>1. WorkerInv /\ orphaned \in Nat /\ NoPid \notin Pid
      /\ gen \in [Pid -> [at: {"free", "load", "diffuse", "save", "write"} \cup Exits,
                         job: Job \cup {NoJob}, stem: Stem \cup {NoStem}]]
  BY MlxAssumption DEF IInv, TypeOK
<1>2. CASE Spawn
  <2>1. PICK p \in Pid : /\ gen' = [gen EXCEPT ![p] = [at |-> "load", job |-> cur, stem |-> stem]]
                         /\ child' = p /\ orphaned' = orphaned
    BY <1>2 DEF Spawn, PageSame
  <2>2. child = NoPid
    BY <1>1, <1>2 DEF Spawn, WorkerInv
  <2>3. Lost' \subseteq Lost
    BY <1>1, <2>1, <2>2 DEF Lost, Live
  <2> QED
    BY <2>1, <2>3, NoneLost
<1>3. CASE Wait
  <2>1. child \in Pid /\ gen' = [gen EXCEPT ![child] = Free] /\ orphaned' = orphaned
    BY <1>1, <1>3 DEF Wait, WorkerInv, PageSame
  <2>2. Lost' \subseteq Lost
    BY <1>1, <2>1 DEF Lost, Live, Free
  <2> QED
    BY <2>1, <2>2, NoneLost
<1>4. ASSUME NEW p \in Pid, Generator(p) PROVE LostInv'
  <2>1. UNCHANGED <<child, orphaned>>
    BY <1>4 DEF Generator, Lock, Diffused, SaveBegins, SaveEnds, Reaped, At, GenSame, PageSame
  <2>2. Live(p)' => Live(p)
    BY <1>1, <1>4 DEF Generator, Lock, Diffused, SaveBegins, SaveEnds, Reaped, At, Live, Free
  <2>3. \A q \in Pid : q # p => gen'[q] = gen[q]
    BY <1>1, <1>4 DEF Generator, Lock, Diffused, SaveBegins, SaveEnds, Reaped, At
  <2>4. Lost' \subseteq Lost
    BY <2>1, <2>2, <2>3 DEF Lost, Live
  <2> QED
    BY <2>1, <2>4, NoneLost
<1>5. ASSUME gen' = gen \/ gen' = [p \in Pid |-> IF p = child THEN Free ELSE gen[p]]
                         \/ gen' = [p \in Pid |-> Free],
             child' = NoPid, Left
      PROVE  LostInv'
  <2>1. CASE child = NoPid \/ ~Live(child)
    <3>1. orphaned' = orphaned /\ Lost' \subseteq Lost
      BY <1>1, <1>5, <2>1 DEF Left, Lost, Live, Free
    <3> QED
      BY <3>1, NoneLost
  <2>2. CASE child # NoPid /\ Live(child)
    <3>1. orphaned' = orphaned + 1
      BY <2>2, <1>5 DEF Left
    <3>2. Lost' \subseteq Lost \cup {child}
      BY <1>1, <1>5 DEF Lost, Live, Free
    <3>3. IsFiniteSet(Lost) /\ IsFiniteSet(Lost \cup {child})
      BY MlxAssumption, FS_Subset, FS_AddElement DEF Lost
    <3>4. Cardinality(Lost \cup {child}) <= Cardinality(Lost) + 1
      BY <3>3, FS_AddElement, FS_CardinalityType
    <3>5. Cardinality(Lost') <= Cardinality(Lost \cup {child})
      BY <3>2, <3>3, FS_Subset
    <3>6. Cardinality(Lost) \in Nat /\ Cardinality(Lost \cup {child}) \in Nat /\ Cardinality(Lost') \in Nat
      BY <3>2, <3>3, FS_Subset, FS_CardinalityType
    <3> QED
      BY <1>1, <3>1, <3>4, <3>5, <3>6 DEF IInv, LostInv
  <2> QED
    BY <2>1, <2>2
<1>6. CASE Kill9 \/ SecondSignal \/ PowerCut
  <2>1. CASE Kill9 \/ (SecondSignal /\ wpc = "assign")
    BY <1>5, <2>1 DEF Kill9, SecondSignal
  <2>2. CASE PowerCut \/ (SecondSignal /\ wpc # "assign")
    <3>1. orphaned' = orphaned
      BY <2>2 DEF SecondSignal, PowerCut
    <3>2. Lost' \subseteq Lost
      BY <1>1, <2>2 DEF SecondSignal, PowerCut, Lost, Live, Free
    <3> QED
      BY <3>1, <3>2, NoneLost
  <2> QED
    BY <1>6, <2>1, <2>2
<1>7. CASE ~(Spawn \/ Wait \/ (\E p \in Pid : Generator(p)) \/ SecondSignal \/ PowerCut \/ Kill9)
  <2>1. UNCHANGED <<gen, child, orphaned>>
    BY <1>7 DEF Next, WorkerStep, Loop, LlmGate, Assign, FinishRaises, Start, StopSignal, PageRequest,
       ChatLook, ChatRaise, Unload, Aside, PageSame, evars, vars
  <2>2. Lost' \subseteq Lost
    BY <2>1 DEF Lost, Live
  <2> QED
    BY <2>1, <2>2, NoneLost
<1> QED
  BY <1>2, <1>3, <1>4, <1>5, <1>6, <1>7

-----------------------------------------------------------------------------
LEMMA StepIInv == IInv /\ [Next]_vars => IInv'
  BY TypeStep, FilesStep, GenStep, LostStep DEF IInv

\* The inductive invariant holds of every run.
THEOREM MlxInvariant == Spec => []IInv
  BY InitIInv, StepIInv, PTL DEF Spec

\* The types of every variable.
THEOREM MlxTypes == Spec => []TypeOK
<1>1. IInv => TypeOK
  BY DEF IInv
<1> QED
  BY <1>1, MlxInvariant, PTL

\* worker.py and cli.py on the Mac, the chat's reconcile and the processes a dead
\* worker left included: whatever happens to the queue is one call of queue.py.
THEOREM MlxIsQueue == Spec => QSpec
<1>1. Init => QInit
  BY DEF Init
<1> QED
  BY <1>1, MlxInvariant, QueueStep, PTL DEF Spec, QSpec

\* queue.py, _stem_taken: no two active jobs of the Mac share an output.
THEOREM MlxStemsDistinct == Spec => []StemsDistinct
  BY MlxIsQueue, QueueStemsDistinct, PTL

\* queue.py: what is filed stays filed, though the page's chat reconciles beside the
\* worker and a killed worker's generator goes on writing.
THEOREM MlxFiledStaysFiled == Spec => FiledStaysFiled
  BY MlxIsQueue, QueueFiledStaysFiled, PTL

\* worker.py, run_job and the second signal: at most one generation runs, plus those
\* that a worker left running when SIGKILL ended it, or a second signal between the
\* fork and the assignment of _current_child.
THEOREM MlxOneGeneration == Spec => []OneGeneration
<1>1. ASSUME IInv PROVE OneGeneration
  <2> DEFINE all == {p \in Pid : Live(p)}
  <2>1. all \subseteq Lost \cup {child}
    BY DEF Lost
  <2>2. IsFiniteSet(Lost) /\ IsFiniteSet(Lost \cup {child})
    BY MlxAssumption, FS_Subset, FS_AddElement DEF Lost
  <2>3. Cardinality(Lost \cup {child}) <= Cardinality(Lost) + 1
    BY <2>2, FS_AddElement, FS_CardinalityType
  <2>4. Cardinality(all) <= Cardinality(Lost \cup {child})
    BY <2>1, <2>2, FS_Subset
  <2>5. Cardinality(Lost) \in Nat /\ Cardinality(Lost \cup {child}) \in Nat /\ Cardinality(all) \in Nat
    BY <2>1, <2>2, FS_Subset, FS_CardinalityType
  <2>6. orphaned \in Nat /\ Cardinality(Lost) <= orphaned
    BY <1>1 DEF IInv, LostInv, TypeOK
  <2> HIDE DEF all
  <2>7. Cardinality(all) <= 1 + orphaned
    BY <2>3, <2>4, <2>5, <2>6
  <2> QED
    BY <2>7 DEF all, OneGeneration
<1> QED
  BY <1>1, MlxInvariant, PTL
=============================================================================
