------------------------------ MODULE FilesProofs ------------------------------
(***************************************************************************)
(* What is kept on disk, for any number of those who write it: the         *)
(* checkpoint of a run (Checkpoint), the files of the jobs (JobFiles) and  *)
(* the cards of the library (Library).                                     *)
(***************************************************************************)
EXTENDS Checkpoint, JobFiles, Library, SequenceTheorems, TLAPS

(***************************************************************************)
(* Checkpoint, for any number of processes, steps and tails.  The          *)
(* inductive invariant says who holds the lock (Exclusive), under which    *)
(* tails the rows of each process were computed (Contexts) and how far the *)
(* file is (Progress).                                                     *)
(***************************************************************************)

\* Whoever reads or writes the checkpoint holds its lock.
Exclusive == \A p \in Proc : pc[p] \in Locked => lock = p

\* A process has no rows yet, or the checkpoint's alone, or those of its own
\* tail alone.
Rows(p) ==
    \/ base[p] = NoFile /\ done[p] = 0 /\ under[p] = {}
    \/ /\ base[p].at = "ok" /\ base[p].under = {base[p].cond}
       /\ done[p] = base[p].steps /\ under[p] = base[p].under
    \/ under[p] = {ctx[p]}

Fresh(p) == base[p] = NoFile /\ done[p] = 0 /\ under[p] = {}

OwnContext(p) ==
    /\ pc[p] \in {"free", "load", "lock", "open"} => Fresh(p)
    /\ pc[p] \notin {"free", "load"} => ctx[p] \in Version
    /\ pc[p] = "loop" => Rows(p)
    /\ pc[p] = "write" => under[p] = {ctx[p]}
    /\ pc[p] \notin {"free", "load", "lock", "open"} => Single(under[p])

Contexts == OneContext /\ \A p \in Proc : OwnContext(p)

Progress ==
    /\ WorkIsKept
    /\ \A p \in Proc :
          pc[p] \in {"loop", "write"} /\ how[p] # "restart" /\ ckpt.at = "ok"
          => ckpt.steps <= done[p]

IInv == TypeOK /\ Exclusive /\ Contexts /\ Progress

\* Nothing has run.
LEMMA InitInv == Init => IInv
<1> SUFFICES ASSUME Init PROVE IInv
  OBVIOUS
<1> USE CheckpointAssumption DEF Init, Locked, After
<1>1. TypeOK
  <2>1. NoFile \in File
    BY DEF NoFile, File, Version
  <2>2. ckpt \in File /\ base \in [Proc -> File]
    BY <2>1
  <2>3. chained \in BOOLEAN /\ lockFile \in BOOLEAN /\ torn \in BOOLEAN /\ rotted \in BOOLEAN
        /\ moved \in BOOLEAN
    BY Zenon
  <2>5. watch \in [at: {"off", "read", "probe", "locks", "told"}, listed: BOOLEAN, live: BOOLEAN]
    OBVIOUS
  <2>6. tail \in Version /\ lock \in Proc \cup {NoProc} /\ seen \in Proc \cup {NoProc}
    BY DEF Version
  <2>7. /\ pc \in [Proc -> {"free", "load", "lock"} \cup Locked \cup After]
        /\ how \in [Proc -> Hows] /\ ctx \in [Proc -> 0..MaxTail]
        /\ done \in [Proc -> 0..Steps] /\ under \in [Proc -> SUBSET Version]
    BY DEF Hows
  <2>8. own \in SUBSET Version /\ clip \in [at: {"none", "partial", "ok"}, under: SUBSET Version]
    OBVIOUS
  <2> QED
    BY <2>2, <2>3, <2>5, <2>6, <2>7, <2>8 DEF TypeOK
<1>2. Exclusive
  BY DEF Exclusive
<1>3. Contexts
  BY DEF Contexts, OwnContext, OneContext, Single, Fresh, NoFile
<1>4. Progress
  BY DEF Progress, WorkIsKept
<1> QED
  BY <1>1, <1>2, <1>3, <1>4 DEF IInv

\* Every step keeps the types.
LEMMA StepType ==
    ASSUME IInv, [Next]_vars
    PROVE  TypeOK'
<1> USE CheckpointAssumption
<1> SUFFICES ASSUME TypeOK, Contexts PROVE TypeOK'
  BY DEF IInv
<1> USE DEF TypeOK, File, Version, Hows, Locked, After, NoFile, Go, End, Rest, DropLock,
     KeepDisk, WatchSame, dvars, ovars, rvars, gvars
<1>1. ASSUME NEW p \in Proc, Begin(p) PROVE TypeOK'
  BY <1>1 DEF Begin
<1>2. ASSUME NEW p \in Proc, LoadTail(p) PROVE TypeOK'
  BY <1>2 DEF LoadTail
<1>3. ASSUME NEW p \in Proc, AcquireLock(p) PROVE TypeOK'
  <2>1. torn' \in BOOLEAN /\ lock' \in Proc \cup {NoProc} /\ lockFile' \in BOOLEAN
        /\ UNCHANGED <<tail, chained, ckpt, own, clip, rotted, rvars>>
    BY <1>3, Zenon DEF AcquireLock
  <2>2. CASE lock = NoProc
    BY <1>3, <2>1, <2>2 DEF AcquireLock
  <2>3. CASE lock # NoProc
    <3>1. End(p)
      BY <1>3, <2>3 DEF AcquireLock
    <3> QED
      BY <3>1, <2>1
  <2> QED
    BY <2>2, <2>3
<1>4. ASSUME NEW p \in Proc, LoadForResume(p) PROVE TypeOK'
  <2>1. UNCHANGED <<how, ctx, tail, chained, lock, lockFile, ovars, watch, seen>>
        /\ pc' = [pc EXCEPT ![p] = "loop"] /\ moved' \in BOOLEAN
    BY <1>4 DEF LoadForResume
  <2>2. CASE ckpt.at = "ok" /\ how[p] # "restart"
    <3>1. /\ UNCHANGED <<ckpt, moved>>
          /\ base' = [base EXCEPT ![p] = ckpt] /\ done' = [done EXCEPT ![p] = ckpt.steps]
          /\ under' = [under EXCEPT ![p] = ckpt.under]
      BY <1>4, <2>2 DEF LoadForResume
    <3>2. base' \in [Proc -> File]
      BY <3>1
    <3>3. done' \in [Proc -> 0..Steps]
      BY <3>1
    <3>4. under' \in [Proc -> SUBSET Version]
      BY <3>1
    <3> QED
      BY <2>1, <3>1, <3>2, <3>3, <3>4
  <2>3. CASE ckpt.at = "bad" /\ how[p] # "restart"
    BY <1>4, <2>1, <2>3 DEF LoadForResume
  <2>4. CASE ckpt.at = "none" \/ how[p] = "restart"
    BY <1>4, <2>1, <2>4 DEF LoadForResume
  <2> QED
    BY <2>2, <2>3, <2>4
<1>5. ASSUME NEW p \in Proc, Forward(p) PROVE TypeOK'
  BY <1>5 DEF Forward, Compute, Contexts, OwnContext
<1>6. ASSUME NEW p \in Proc, SeamRefuses(p) PROVE TypeOK'
  BY <1>6 DEF SeamRefuses
<1>7. ASSUME NEW p \in Proc, Replace(p) PROVE TypeOK'
  BY <1>7 DEF Replace
<1>8. ASSUME NEW p \in Proc, SaveTail(p) PROVE TypeOK'
  BY <1>8 DEF SaveTail
<1>9. ASSUME NEW p \in Proc, Validate(p) PROVE TypeOK'
  BY <1>9 DEF Validate
<1>10. ASSUME NEW p \in Proc, Condemn(p) PROVE TypeOK'
  BY <1>10 DEF Condemn
<1>11. ASSUME NEW p \in Proc, Discard(p) PROVE TypeOK'
  BY <1>11 DEF Discard
<1>12. ASSUME NEW p \in Proc, ReleaseLock(p) PROVE TypeOK'
  BY <1>12 DEF ReleaseLock
<1>13. ASSUME NEW p \in Proc, SaveBegins(p) PROVE TypeOK'
  BY <1>13 DEF SaveBegins
<1>14. ASSUME NEW p \in Proc, SaveEnds(p) PROVE TypeOK'
  BY <1>14 DEF SaveEnds
<1>15. ASSUME NEW p \in Proc, Report(p) PROVE TypeOK'
  BY <1>15 DEF Report
<1>16. ASSUME NEW p \in Proc, Die(p) PROVE TypeOK'
  BY <1>16 DEF Die
<1>17. ASSUME TailRegenerated PROVE TypeOK'
  BY <1>17 DEF TailRegenerated
<1>18. ASSUME Rot PROVE TypeOK'
  BY <1>18 DEF Rot
<1>19. ASSUME List PROVE TypeOK'
  BY <1>19 DEF List
<1>20. ASSUME Read PROVE TypeOK'
  BY <1>20 DEF Read
<1>21. ASSUME Probe PROVE TypeOK'
  <2>1. PICK b \in BOOLEAN : watch' = [at |-> "locks", listed |-> watch.listed, live |-> b]
    BY <1>21, Zenon DEF Probe
  <2> QED
    BY <1>21, <2>1 DEF Probe
<1>22. ASSUME Locks PROVE TypeOK'
  <2> DEFINE b == watch.live \/ (~watch.listed /\ lockFile /\ lock # NoProc)
  <2>1. b \in BOOLEAN
    OBVIOUS
  <2>2. /\ watch' = [at |-> "told", listed |-> watch.listed, live |-> b]
        /\ UNCHANGED <<seen, moved>> /\ WatchSame
    BY <1>22, Zenon DEF Locks
  <2> HIDE DEF b
  <2> QED
    BY <2>1, <2>2
<1>23. ASSUME Quit PROVE TypeOK'
  BY <1>23 DEF Quit
<1>24. ASSUME UNCHANGED vars PROVE TypeOK'
  BY <1>24 DEF vars, gvars
<1> QED
  BY <1>1, <1>2, <1>3, <1>4, <1>5, <1>6, <1>7, <1>8, <1>9, <1>10, <1>11, <1>12, <1>13,
       <1>14, <1>15, <1>16, <1>17, <1>18, <1>19, <1>20, <1>21, <1>22, <1>23, <1>24 DEF
       Next, RunGenerate, Pipeline, Scan

\* Only a process that finds the lock free gets past it.
LEMMA StepExclusive ==
    ASSUME IInv, [Next]_vars
    PROVE  Exclusive'
<1> USE CheckpointAssumption
<1> SUFFICES ASSUME TypeOK, Exclusive PROVE Exclusive'
  BY DEF IInv
<1> USE DEF TypeOK, Exclusive, Locked, After, Go, End, Rest, DropLock, KeepDisk,
     WatchSame, dvars, ovars, rvars, gvars
<1>1. ASSUME NEW p \in Proc, Begin(p) PROVE Exclusive'
  BY <1>1 DEF Begin
<1>2. ASSUME NEW p \in Proc, LoadTail(p) PROVE Exclusive'
  BY <1>2 DEF LoadTail
<1>3. ASSUME NEW p \in Proc, AcquireLock(p) PROVE Exclusive'
  BY <1>3 DEF AcquireLock
<1>4. ASSUME NEW p \in Proc, LoadForResume(p) PROVE Exclusive'
  BY <1>4 DEF LoadForResume
<1>5. ASSUME NEW p \in Proc, Forward(p) PROVE Exclusive'
  BY <1>5 DEF Forward, Compute
<1>6. ASSUME NEW p \in Proc, SeamRefuses(p) PROVE Exclusive'
  BY <1>6 DEF SeamRefuses
<1>7. ASSUME NEW p \in Proc, Replace(p) PROVE Exclusive'
  BY <1>7 DEF Replace
<1>8. ASSUME NEW p \in Proc, SaveTail(p) PROVE Exclusive'
  BY <1>8 DEF SaveTail
<1>9. ASSUME NEW p \in Proc, Validate(p) PROVE Exclusive'
  BY <1>9 DEF Validate
<1>10. ASSUME NEW p \in Proc, Condemn(p) PROVE Exclusive'
  BY <1>10 DEF Condemn
<1>11. ASSUME NEW p \in Proc, Discard(p) PROVE Exclusive'
  BY <1>11 DEF Discard
<1>12. ASSUME NEW p \in Proc, ReleaseLock(p) PROVE Exclusive'
  BY <1>12 DEF ReleaseLock
<1>13. ASSUME NEW p \in Proc, SaveBegins(p) PROVE Exclusive'
  BY <1>13 DEF SaveBegins
<1>14. ASSUME NEW p \in Proc, SaveEnds(p) PROVE Exclusive'
  BY <1>14 DEF SaveEnds
<1>15. ASSUME NEW p \in Proc, Report(p) PROVE Exclusive'
  BY <1>15 DEF Report
<1>16. ASSUME NEW p \in Proc, Die(p) PROVE Exclusive'
  BY <1>16 DEF Die
<1>17. ASSUME TailRegenerated PROVE Exclusive'
  BY <1>17 DEF TailRegenerated
<1>18. ASSUME Rot PROVE Exclusive'
  BY <1>18 DEF Rot
<1>19. ASSUME Scan PROVE Exclusive'
  BY <1>19 DEF Scan, List, Read, Probe, Locks, Quit
<1>20. ASSUME UNCHANGED vars PROVE Exclusive'
  BY <1>20 DEF vars, gvars
<1> QED
  BY <1>1, <1>2, <1>3, <1>4, <1>5, <1>6, <1>7, <1>8, <1>9, <1>10, <1>11, <1>12, <1>13,
       <1>14, <1>15, <1>16, <1>17, <1>18, <1>19, <1>20 DEF Next, RunGenerate, Pipeline

\* The seam lets no row of another tail behind the checkpoint's.
LEMMA StepContexts ==
    ASSUME IInv, [Next]_vars
    PROVE  Contexts'
<1> USE CheckpointAssumption
<1> SUFFICES ASSUME TypeOK, Exclusive, Contexts PROVE Contexts'
  BY DEF IInv
<1> USE DEF TypeOK, File, Version, Exclusive, Contexts, OwnContext, OneContext, Single, Rows, Fresh,
     NoFile, Locked, After, Go, End, Rest, DropLock, KeepDisk, WatchSame, dvars, ovars,
     rvars, gvars
<1>1. ASSUME NEW p \in Proc, Begin(p) PROVE Contexts'
  BY <1>1 DEF Begin
<1>2. ASSUME NEW p \in Proc, LoadTail(p) PROVE Contexts'
  BY <1>2 DEF LoadTail
<1>3. ASSUME NEW p \in Proc, AcquireLock(p) PROVE Contexts'
  <2>1. UNCHANGED <<ckpt, own, clip, rotted>>
    BY <1>3 DEF AcquireLock
  <2>2. CASE Go(p, "open") /\ lock' = p
    BY <2>1, <2>2, <1>3 DEF AcquireLock
  <2>3. CASE End(p) /\ lock' = lock
    BY <2>1, <2>3
  <2> QED
    BY <1>3, <2>2, <2>3 DEF AcquireLock
<1>4. ASSUME NEW p \in Proc, LoadForResume(p) PROVE Contexts'
  <2>1. CASE ckpt.at = "ok" /\ how[p] # "restart"
    <3>1. /\ pc' = [pc EXCEPT ![p] = "loop"] /\ UNCHANGED <<ctx, ckpt, own, clip>>
          /\ base' = [base EXCEPT ![p] = ckpt] /\ done' = [done EXCEPT ![p] = ckpt.steps]
          /\ under' = [under EXCEPT ![p] = ckpt.under]
      BY <1>4, <2>1 DEF LoadForResume
    <3>2. OneContext'
      BY <3>1
    <3>3. Rows(p)' /\ Single(under[p])' /\ (ctx[p] \in Version)'
      <4>1. ckpt.under = {ckpt.cond}
        BY <2>1
      <4>2. base[p]' = ckpt /\ done[p]' = ckpt.steps /\ under[p]' = ckpt.under
        BY <3>1
      <4> QED
        BY <3>1, <4>1, <4>2, <2>1, <1>4 DEF LoadForResume
    <3>4. ASSUME NEW q \in Proc, q # p
          PROVE  UNCHANGED <<pc[q], ctx[q], base[q], done[q], under[q]>>
      BY <3>1, <3>4
    <3> QED
      BY <3>1, <3>2, <3>3, <3>4
  <2>2. CASE ckpt.at # "ok" \/ how[p] = "restart"
    <3>1. /\ pc' = [pc EXCEPT ![p] = "loop"]
          /\ UNCHANGED <<ctx, own, clip, base, done, under>>
      BY <1>4, <2>2 DEF LoadForResume
    <3>2. ckpt' = ckpt \/ ckpt'.at = "none"
      BY <1>4, <2>2 DEF LoadForResume
    <3>3. OneContext'
      BY <3>1, <3>2
    <3>4. Rows(p)' /\ Single(under[p])' /\ (ctx[p] \in Version)'
      BY <1>4, <3>1 DEF LoadForResume
    <3> QED
      BY <3>1, <3>3, <3>4
  <2> QED
    BY <2>1, <2>2
<1>5. ASSUME NEW p \in Proc, Forward(p) PROVE Contexts'
  BY <1>5 DEF Forward, Compute, AtSeam, SameRows
<1>6. ASSUME NEW p \in Proc, SeamRefuses(p) PROVE Contexts'
  BY <1>6 DEF SeamRefuses
<1>7. ASSUME NEW p \in Proc, Replace(p) PROVE Contexts'
  BY <1>7 DEF Replace
<1>8. ASSUME NEW p \in Proc, SaveTail(p) PROVE Contexts'
  BY <1>8 DEF SaveTail
<1>9. ASSUME NEW p \in Proc, Validate(p) PROVE Contexts'
  BY <1>9 DEF Validate
<1>10. ASSUME NEW p \in Proc, Condemn(p) PROVE Contexts'
  BY <1>10 DEF Condemn
<1>11. ASSUME NEW p \in Proc, Discard(p) PROVE Contexts'
  BY <1>11 DEF Discard
<1>12. ASSUME NEW p \in Proc, ReleaseLock(p) PROVE Contexts'
  BY <1>12 DEF ReleaseLock
<1>13. ASSUME NEW p \in Proc, SaveBegins(p) PROVE Contexts'
  <2>1. /\ pc[p] = "save" /\ pc' = [pc EXCEPT ![p] = "saving"]
        /\ UNCHANGED <<ctx, ckpt, base, done, under, own>>
        /\ clip' = [at |-> "partial", under |-> {}]
    BY <1>13 DEF SaveBegins
  <2>2. OneContext'
    BY <2>1
  <2>3. ASSUME NEW q \in Proc PROVE OwnContext(q)'
    <3>1. pc'[q] = pc[q] \/ (pc[q] = "save" /\ pc'[q] = "saving")
      BY <2>1
    <3> QED
      BY <2>1, <3>1
  <2> QED
    BY <2>2, <2>3
<1>14. ASSUME NEW p \in Proc, SaveEnds(p) PROVE Contexts'
  <2>1. /\ pc[p] = "saving" /\ pc' = [pc EXCEPT ![p] = "report"]
        /\ UNCHANGED <<ctx, ckpt, base, done, under, own>>
        /\ clip' = [at |-> "ok", under |-> under[p]]
    BY <1>14 DEF SaveEnds
  <2>2. OneContext'
    BY <2>1
  <2>3. ASSUME NEW q \in Proc PROVE OwnContext(q)'
    <3>1. pc'[q] = pc[q] \/ (pc[q] = "saving" /\ pc'[q] = "report")
      BY <2>1
    <3> QED
      BY <2>1, <3>1
  <2> QED
    BY <2>2, <2>3
<1>15. ASSUME NEW p \in Proc, Report(p) PROVE Contexts'
  <2>1. UNCHANGED <<ckpt, own, clip>> /\ pc'[p] = "free" /\ Fresh(p)'
    BY <1>15 DEF Report
  <2>2. OneContext'
    BY <2>1
  <2>3. ASSUME NEW q \in Proc PROVE OwnContext(q)'
    <3>1. CASE q = p
      BY <2>1, <3>1
    <3>2. CASE q # p
      <4>1. UNCHANGED <<pc[q], ctx[q], base[q], done[q], under[q]>>
        BY <1>15, <3>2 DEF Report
      <4> QED
        BY <4>1
    <3> QED
      BY <3>1, <3>2
  <2> QED
    BY <2>2, <2>3
<1>16. ASSUME NEW p \in Proc, Die(p) PROVE Contexts'
  BY <1>16 DEF Die
<1>17. ASSUME TailRegenerated PROVE Contexts'
  BY <1>17 DEF TailRegenerated
<1>18. ASSUME Rot PROVE Contexts'
  <2>1. ckpt'.at = "bad" /\ UNCHANGED <<pc, ctx, base, done, under, own, clip>>
    BY <1>18 DEF Rot
  <2> QED
    BY <2>1
<1>19. ASSUME Scan PROVE Contexts'
  <2>1. UNCHANGED <<dvars, gvars, ovars>>
    BY <1>19 DEF Scan, List, Read, Probe, Locks, Quit
  <2> QED
    BY <2>1
<1>20. ASSUME UNCHANGED vars PROVE Contexts'
  BY <1>20 DEF vars, gvars
<1> QED
  BY <1>1, <1>2, <1>3, <1>4, <1>5, <1>6, <1>7, <1>8, <1>9, <1>10, <1>11, <1>12, <1>13,
       <1>14, <1>15, <1>16, <1>17, <1>18, <1>19, <1>20 DEF Next, RunGenerate, Pipeline

\* The lock's holder is the only one whose steps the file counts.
LEMMA StepProgress ==
    ASSUME IInv, [Next]_vars
    PROVE  Progress'
<1> USE CheckpointAssumption
<1> SUFFICES ASSUME TypeOK, Exclusive, Contexts, Progress PROVE Progress'
  BY DEF IInv
<1> USE DEF TypeOK, File, Exclusive, Progress, WorkIsKept, Locked, After, NoFile, Go, End,
     Rest, DropLock, KeepDisk, WatchSame, dvars, ovars, rvars, gvars
<1>1. ASSUME NEW p \in Proc, Begin(p) PROVE Progress'
  BY <1>1 DEF Begin
<1>2. ASSUME NEW p \in Proc, LoadTail(p) PROVE Progress'
  BY <1>2 DEF LoadTail
<1>3. ASSUME NEW p \in Proc, AcquireLock(p) PROVE Progress'
  <2>1. UNCHANGED <<ckpt, own, clip, rotted>>
    BY <1>3 DEF AcquireLock
  <2>2. CASE Go(p, "open") /\ lock' = p
    BY <2>1, <2>2, <1>3 DEF AcquireLock
  <2>3. CASE End(p) /\ lock' = lock
    BY <2>1, <2>3
  <2> QED
    BY <1>3, <2>2, <2>3 DEF AcquireLock
<1>4. ASSUME NEW p \in Proc, LoadForResume(p) PROVE Progress'
  BY <1>4 DEF LoadForResume, Contexts, OwnContext, Fresh
<1>5. ASSUME NEW p \in Proc, Forward(p) PROVE Progress'
  BY <1>5 DEF Forward, Compute
<1>6. ASSUME NEW p \in Proc, SeamRefuses(p) PROVE Progress'
  BY <1>6 DEF SeamRefuses
<1>7. ASSUME NEW p \in Proc, Replace(p) PROVE Progress'
  BY <1>7 DEF Replace
<1>8. ASSUME NEW p \in Proc, SaveTail(p) PROVE Progress'
  BY <1>8 DEF SaveTail
<1>9. ASSUME NEW p \in Proc, Validate(p) PROVE Progress'
  BY <1>9 DEF Validate
<1>10. ASSUME NEW p \in Proc, Condemn(p) PROVE Progress'
  BY <1>10 DEF Condemn
<1>11. ASSUME NEW p \in Proc, Discard(p) PROVE Progress'
  BY <1>11 DEF Discard
<1>12. ASSUME NEW p \in Proc, ReleaseLock(p) PROVE Progress'
  BY <1>12 DEF ReleaseLock
<1>13. ASSUME NEW p \in Proc, SaveBegins(p) PROVE Progress'
  BY <1>13 DEF SaveBegins
<1>14. ASSUME NEW p \in Proc, SaveEnds(p) PROVE Progress'
  BY <1>14 DEF SaveEnds
<1>15. ASSUME NEW p \in Proc, Report(p) PROVE Progress'
  BY <1>15 DEF Report
<1>16. ASSUME NEW p \in Proc, Die(p) PROVE Progress'
  BY <1>16 DEF Die
<1>17. ASSUME TailRegenerated PROVE Progress'
  BY <1>17 DEF TailRegenerated
<1>18. ASSUME Rot PROVE Progress'
  BY <1>18 DEF Rot
<1>19. ASSUME Scan PROVE Progress'
  BY <1>19 DEF Scan, List, Read, Probe, Locks, Quit
<1>20. ASSUME UNCHANGED vars PROVE Progress'
  BY <1>20 DEF vars, gvars
<1> QED
  BY <1>1, <1>2, <1>3, <1>4, <1>5, <1>6, <1>7, <1>8, <1>9, <1>10, <1>11, <1>12, <1>13,
       <1>14, <1>15, <1>16, <1>17, <1>18, <1>19, <1>20 DEF Next, RunGenerate, Pipeline

\* The invariant is inductive.
LEMMA Invariance == Spec => []IInv
<1>1. Init => IInv
  BY InitInv
<1>2. IInv /\ [Next]_vars => IInv'
  BY StepType, StepExclusive, StepContexts, StepProgress DEF IInv
<1> QED
  BY <1>1, <1>2, PTL DEF Spec

\* Every variable keeps its range.
THEOREM TypeCorrect == Spec => []TypeOK
<1>1. IInv => TypeOK
  BY DEF IInv
<1> QED
  BY <1>1, Invariance, PTL

\* No two processes are between the lock and its release.
THEOREM LockIsExclusive ==
    Spec => [](\A p, q \in Proc : pc[p] \in Locked /\ pc[q] \in Locked => p = q)
<1>1. IInv => \A p, q \in Proc : pc[p] \in Locked /\ pc[q] \in Locked => p = q
  BY DEF IInv, Exclusive
<1> QED
  BY <1>1, Invariance, PTL

\* What a request leaves on the disk was denoised under one version of the tail
\* it continues from: CheckpointMismatch stands between every two others.
THEOREM ContextIsOne == Spec => []OneContext
<1>1. IInv => OneContext
  BY DEF IInv, Contexts
<1> QED
  BY <1>1, Invariance, PTL

\* Whatever dies, the steps a run has finished are in the file it would resume.
THEOREM WorkSurvives == Spec => []WorkIsKept
<1>1. IInv => WorkIsKept
  BY DEF IInv, Progress
<1> QED
  BY <1>1, Invariance, PTL

\* The file goes back only for --restart.
THEOREM CheckpointNeverBack == Spec => NeverBackwards
<1> DEFINE Back == ckpt.at = "ok" /\ ckpt'.at = "ok" /\ ckpt'.steps < ckpt.steps
                   => \E p \in Proc : pc[p] = "write" /\ how[p] = "restart"
<1>1. IInv /\ [Next]_vars => Back
  <2> SUFFICES ASSUME IInv, [Next]_vars PROVE Back
    OBVIOUS
  <2> USE CheckpointAssumption DEF IInv, TypeOK, File, NoFile
  <2>1. ASSUME NEW p \in Proc, Replace(p) PROVE Back
    BY <2>1 DEF Replace, Progress
  <2>2. ASSUME NEW p \in Proc, LoadForResume(p) PROVE Back
    BY <2>2 DEF LoadForResume
  <2>3. ASSUME NEW p \in Proc, Discard(p) PROVE Back
    BY <2>3 DEF Discard
  <2>4. CASE Rot
    BY <2>4 DEF Rot
  <2>5. CASE UNCHANGED ckpt
    BY <2>5
  <2>6. ASSUME NEW p \in Proc, RunGenerate(p),
               ~Replace(p), ~LoadForResume(p), ~Discard(p)
        PROVE  UNCHANGED ckpt
    BY <2>6 DEF RunGenerate, Pipeline, LoadTail, AcquireLock, Forward, SeamRefuses,
       SaveTail, Validate, Condemn, ReleaseLock, SaveBegins, SaveEnds, Report, KeepDisk
  <2>7. ASSUME NEW p \in Proc, Begin(p) \/ Die(p) PROVE UNCHANGED ckpt
    BY <2>7 DEF Begin, Die, KeepDisk
  <2>8. TailRegenerated \/ Scan => UNCHANGED ckpt
    BY DEF TailRegenerated, Scan, List, Read, Probe, Locks, Quit, WatchSame, KeepDisk
  <2> QED
    BY <2>1, <2>2, <2>3, <2>4, <2>5, <2>6, <2>7, <2>8 DEF Next, vars, dvars
<1>2. NeverBackwards <=> [][Back]_vars
  BY DEF NeverBackwards
<1> HIDE DEF Back
<1> QED
  BY <1>1, <1>2, Invariance, PTL DEF Spec

\* From the request's tail on its disk to the end of its clip's writing.
Writing == {"tailed", "decoded", "discarded", "save", "saving"}

\* Unless something is torn, one run at a time is between its tail and its clip,
\* and whoever writes the clip finds the lock free; with nobody there the two fit.
Paired ==
    ~torn =>
      /\ \A p \in Proc : pc[p] \in Writing =>
            /\ own = under[p]
            /\ \A q \in Proc : pc[q] \in Writing => q = p
            /\ pc[p] \in {"save", "saving"} => lock = NoProc
      /\ (\A p \in Proc : pc[p] \notin Writing) /\ own # {} /\ clip.at = "ok"
         => own = clip.under

\* Every step keeps tail and clip in pairs.
LEMMA StepPaired ==
    ASSUME IInv, Paired, [Next]_vars
    PROVE  Paired'
<1> USE CheckpointAssumption
<1> SUFFICES ASSUME TypeOK, Exclusive, ~torn' PROVE Paired'
  BY DEF IInv, Paired
<1> USE DEF Paired, Writing, TypeOK, Exclusive, Locked, After, Go, End, Rest, DropLock,
     KeepDisk, WatchSame, dvars, ovars, gvars
<1>1. ASSUME NEW p \in Proc, Begin(p) PROVE Paired'
  BY <1>1 DEF Begin
<1>2. ASSUME NEW p \in Proc, LoadTail(p) PROVE Paired'
  BY <1>2 DEF LoadTail
<1>3. ASSUME NEW p \in Proc, AcquireLock(p) PROVE Paired'
  <2>1. UNCHANGED <<own, clip, under>> \/ End(p)
    BY <1>3 DEF AcquireLock
  <2>2. CASE lock = NoProc
    <3>1. /\ Go(p, "open") /\ UNCHANGED <<own, clip>>
          /\ torn' = (torn \/ Saving)
      BY <1>3, <2>2 DEF AcquireLock
    <3>2. ~torn /\ ~Saving
      BY <3>1
    <3>3. \A q \in Proc : pc[q] \notin Writing
      BY <3>2, <2>2 DEF Saving
    <3> QED
      BY <3>1, <3>2, <3>3
  <2>3. CASE lock # NoProc
    BY <1>3, <2>3 DEF AcquireLock
  <2> QED
    BY <2>2, <2>3
<1>4. ASSUME NEW p \in Proc, LoadForResume(p) PROVE Paired'
  <2>1. /\ pc[p] = "open" /\ pc' = [pc EXCEPT ![p] = "loop"]
        /\ UNCHANGED <<lock, own, clip, torn>>
        /\ \A q \in Proc : q # p => under'[q] = under[q]
    BY <1>4 DEF LoadForResume
  <2> QED
    BY <2>1
<1>5. ASSUME NEW p \in Proc, Forward(p) PROVE Paired'
  BY <1>5 DEF Forward, Compute
<1>6. ASSUME NEW p \in Proc, SeamRefuses(p) PROVE Paired'
  BY <1>6 DEF SeamRefuses
<1>7. ASSUME NEW p \in Proc, Replace(p) PROVE Paired'
  BY <1>7 DEF Replace
<1>8. ASSUME NEW p \in Proc, SaveTail(p) PROVE Paired'
  <2>1. lock = p /\ ~torn
    BY <1>8 DEF SaveTail
  <2>2. \A q \in Proc : pc[q] \notin Writing
    BY <1>8, <2>1 DEF SaveTail
  <2> QED
    BY <1>8, <2>1, <2>2 DEF SaveTail
<1>9. ASSUME NEW p \in Proc, Validate(p) PROVE Paired'
  BY <1>9 DEF Validate
<1>10. ASSUME NEW p \in Proc, Condemn(p) PROVE Paired'
  BY <1>10 DEF Condemn
<1>11. ASSUME NEW p \in Proc, Discard(p) PROVE Paired'
  BY <1>11 DEF Discard
<1>12. ASSUME NEW p \in Proc, ReleaseLock(p) PROVE Paired'
  BY <1>12 DEF ReleaseLock
<1>13. ASSUME NEW p \in Proc, SaveBegins(p) PROVE Paired'
  BY <1>13 DEF SaveBegins
<1>14. ASSUME NEW p \in Proc, SaveEnds(p) PROVE Paired'
  BY <1>14 DEF SaveEnds
<1>15. ASSUME NEW p \in Proc, Report(p) PROVE Paired'
  BY <1>15 DEF Report
<1>16. ASSUME NEW p \in Proc, Die(p) PROVE Paired'
  BY <1>16 DEF Die
<1>17. ASSUME TailRegenerated \/ Rot \/ Scan PROVE Paired'
  <2>1. UNCHANGED <<lock, gvars, own, clip, torn>>
    BY <1>17 DEF TailRegenerated, Rot, Scan, List, Read, Probe, Locks, Quit
  <2> QED
    BY <2>1
<1>18. ASSUME UNCHANGED vars PROVE Paired'
  BY <1>18 DEF vars
<1> QED
  BY <1>1, <1>2, <1>3, <1>4, <1>5, <1>6, <1>7, <1>8, <1>9, <1>10, <1>11, <1>12, <1>13,
       <1>14, <1>15, <1>16, <1>17, <1>18 DEF Next, RunGenerate, Pipeline

\* The tail beside a finished clip is the clip's own.
THEOREM TailFits == Spec => []TailIsTheClips
<1>1. Init => Paired
  BY DEF Init, Paired, Writing
<1>2. IInv /\ Paired /\ [Next]_vars => Paired'
  BY StepPaired
<1>3. Paired => TailIsTheClips
  BY DEF Paired, TailIsTheClips, Writing, After
<1> QED
  BY <1>1, <1>2, <1>3, Invariance, PTL DEF Spec

\* What a scan knows by where it is: whoever has held the lock since it began holds
\* it now, a listed checkpoint is readable unless it went away, and a run whose
\* lock was asked for was found.
Found == watch.live \/ seen = NoProc \/ moved
Scanned ==
    /\ seen # NoProc => lock = seen
    /\ lock # NoProc => lockFile
    /\ watch.at = "read" => watch.listed /\ (ckpt.at = "ok" \/ moved)
    /\ watch.at = "probe" => watch.listed
    /\ watch.at = "locks" /\ watch.listed => Found
    /\ watch.at = "told" => Found

\* Every step keeps what a scan has seen.
LEMMA StepScanned ==
    ASSUME IInv, Scanned, [Next]_vars
    PROVE  Scanned'
<1> USE CheckpointAssumption
<1> SUFFICES ASSUME TypeOK, Exclusive PROVE Scanned'
  BY DEF IInv
<1> USE DEF Scanned, Found
<1>1. ASSUME NEW p \in Proc, AcquireLock(p) PROVE Scanned'
  BY <1>1 DEF AcquireLock, rvars, Go, End, TypeOK
<1>2. ASSUME NEW p \in Proc, LoadForResume(p) PROVE Scanned'
  <2>1. UNCHANGED <<lock, lockFile, watch, seen>>
    BY <1>2 DEF LoadForResume
  <2>2. UNCHANGED <<ckpt, moved>> \/ moved'
    BY <1>2 DEF LoadForResume
  <2> QED
    BY <2>1, <2>2
<1>3. ASSUME NEW p \in Proc, SeamRefuses(p) \/ Condemn(p) \/ ReleaseLock(p)
      PROVE  Scanned'
  <2>1. pc[p] \in Locked
    BY <1>3 DEF SeamRefuses, Condemn, ReleaseLock, Locked
  <2>2. lock = p
    BY <2>1 DEF Exclusive
  <2>3. DropLock(p) /\ UNCHANGED <<ckpt, lockFile, watch, moved>>
    BY <1>3 DEF SeamRefuses, Condemn, ReleaseLock, ovars
  <2> QED
    BY <2>2, <2>3 DEF DropLock
<1>4. ASSUME NEW p \in Proc, Replace(p) PROVE Scanned'
  BY <1>4 DEF Replace, rvars
<1>5. ASSUME NEW p \in Proc, Discard(p) PROVE Scanned'
  BY <1>5 DEF Discard
<1>6. ASSUME NEW p \in Proc, Die(p) PROVE Scanned'
  BY <1>6 DEF Die, DropLock
<1>7. ASSUME Rot PROVE Scanned'
  BY <1>7 DEF Rot
<1>8. ASSUME List PROVE Scanned'
  <2>1. /\ watch'.listed = (ckpt.at # "none")
        /\ watch'.at = IF ckpt.at # "none" THEN "read" ELSE "locks"
        /\ seen' = lock /\ moved' = (ckpt.at = "bad")
        /\ UNCHANGED <<ckpt, lock, lockFile>>
    BY <1>8 DEF List, WatchSame, KeepDisk
  <2> QED
    BY <2>1 DEF TypeOK, File
<1>9. ASSUME Read PROVE Scanned'
  BY <1>9 DEF Read, WatchSame, KeepDisk, TypeOK
<1>10. ASSUME Probe PROVE Scanned'
  <2>1. /\ watch'.at = "locks" /\ watch'.live = (lock # NoProc)
        /\ UNCHANGED <<ckpt, lock, lockFile, seen, moved>>
    BY <1>10 DEF Probe, WatchSame, KeepDisk
  <2> QED
    BY <2>1
<1>11. ASSUME Locks PROVE Scanned'
  <2>1. /\ watch.at = "locks" /\ watch'.at = "told"
        /\ watch'.live = (watch.live \/ (~watch.listed /\ lockFile /\ lock # NoProc))
        /\ UNCHANGED <<ckpt, lock, lockFile, seen, moved>>
    BY <1>11 DEF Locks, WatchSame, KeepDisk
  <2> QED
    BY <2>1
<1>12. ASSUME Quit PROVE Scanned'
  BY <1>12 DEF Quit, WatchSame, KeepDisk
<1>13. CASE UNCHANGED <<ckpt, lock, lockFile, rvars>>
  BY <1>13 DEF rvars
<1>14. ASSUME NEW p \in Proc,
             \/ Begin(p) \/ LoadTail(p) \/ Forward(p) \/ SaveTail(p) \/ Validate(p)
             \/ SaveBegins(p) \/ SaveEnds(p) \/ Report(p)
       PROVE UNCHANGED <<ckpt, lock, lockFile, rvars>>
  BY <1>14 DEF Begin, LoadTail, Forward, SaveTail, Validate, SaveBegins, SaveEnds, Report,
     KeepDisk
<1>15. ASSUME TailRegenerated \/ UNCHANGED vars
       PROVE  UNCHANGED <<ckpt, lock, lockFile, rvars>>
  BY <1>15 DEF TailRegenerated, vars, dvars
<1> QED
  BY <1>1, <1>2, <1>3, <1>4, <1>5, <1>6, <1>7, <1>8, <1>9, <1>10, <1>11, <1>12, <1>13,
     <1>14, <1>15 DEF Next, RunGenerate, Pipeline, Scan

\* h3 watch leaves no run that held its lock all through the scan.
THEOREM WatchIsHonest == Spec => []WatchHonest
<1>1. Init => Scanned
  BY DEF Init, Scanned
<1>2. IInv /\ Scanned /\ [Next]_vars => Scanned'
  BY StepScanned
<1>3. Scanned => WatchHonest
  BY DEF Scanned, Found, WatchHonest
<1> QED
  BY <1>1, <1>2, <1>3, Invariance, PTL DEF Spec

-----------------------------------------------------------------------------
(***************************************************************************)
(* JobFiles, for any number of requests, words and jobs.  The inductive    *)
(* invariant says what a request carries from what it has read to what it  *)
(* writes (Carried), and of a job that is on its own (OnItsOwn) that no    *)
(* other job has its directory, that no removal of another is about to     *)
(* take it, and that no directory above it is a job's by its name.         *)
(***************************************************************************)

\* What a tag is: a word, with numbers after it.
Tagged == {t \in Seq(STRING \cup Nat) : Len(t) > 0 /\ t[1] \in Words}
Stems == [dir : Seq(Names), tag : Seq(STRING \cup Nat)]
JobRecords ==
    [st : {"pending", "running", "done", "failed", "gone"}, stem : Stems,
     text : Nat, reads : Nat, left : BOOLEAN, doomed : BOOLEAN, torn : BOOLEAN,
     moved : BOOLEAN, alone : BOOLEAN]
OpRecords ==
    [pc : {"idle", "submit", "update", "copy", "duplicate", "file", "file_copy", "cancel",
           "tree", "record"},
     job : Nat, stem : Stems, reads : Nat, text : Nat, try : Nat, checked : Seq(Names)]

FileTypes ==
    /\ outdir \in Outdirs /\ minute \in Nat /\ source \in Nat /\ calls \in Nat
    /\ jobs \in Seq(JobRecords) /\ prompts \in Seq(Nat) /\ Len(prompts) = Len(jobs)
    /\ op \in [Requests -> OpRecords]

Stemmed(stem) == stem.dir # <<>> /\ stem.tag \in Tagged
Placed(j) == Stemmed(j.stem) /\ (Inside(j.stem.dir) \/ j.moved)
Filers == {"submit", "duplicate", "file", "file_copy"}

\* What a request carries.
Carried(o) ==
    /\ o.pc \in Filers \cup {"update", "copy"} => Stemmed(o.stem)
    /\ o.pc \in {"update", "tree"} => Inside(o.stem.dir)
    /\ o.pc \in {"file", "file_copy"} => Inside(o.checked)
    /\ o.pc \in {"update", "copy", "cancel", "tree", "record"} => o.job \in DOMAIN jobs
    /\ o.reads \in {NoJob} \cup DOMAIN jobs
    /\ o.pc \in Filers \cup {"update"} /\ o.text = NoText => o.reads = NoJob
    /\ o.pc = "tree" => /\ jobs[o.job].st \in {"done", "failed", "gone"}
                        /\ o.stem = jobs[o.job].stem
AllCarried == \A r \in Requests : Carried(op[r])

\* A job that is on its own: no name above its own is a job's, no other job has its
\* directory, and no removal of another has it to take.
OnItsOwn(n) ==
    /\ Apart(jobs[n].stem.dir)
    /\ \A m \in Known \ {n} : jobs[m].stem.dir # jobs[n].stem.dir
    /\ \A r \in Requests :
         op[r].pc = "tree" /\ op[r].job # n => op[r].stem.dir # jobs[n].stem.dir
Filed ==
    \A n \in DOMAIN jobs :
        /\ Placed(jobs[n])
        /\ jobs[n].reads \in {NoJob, n}
        /\ KeepsPrompt(jobs[n]) /\ KeepsOutput(n, jobs[n])
        /\ jobs[n].st # "gone" /\ jobs[n].alone => OnItsOwn(n)

FilesInv == FileTypes /\ AllCarried /\ Filed

-----------------------------------------------------------------------------
\* The server's directory is the beginning of a job's: what it says of the names.
LEMMA InsideIs ==
    ASSUME FileTypes, NEW d \in Seq(Names)
    PROVE  /\ Len(outdir) \in Nat \ {0}
           /\ Inside(d) => Len(outdir) <= Len(d) /\ d # <<>>
           /\ Inside(d) => \A i \in 1..Len(outdir) : d[i] = outdir[i]
<1>1. outdir \in Seq(Names) /\ outdir # <<>>
  BY FilesAssumption DEF FileTypes
<1>2. Len(outdir) \in Nat \ {0} /\ Len(d) \in Nat
  BY <1>1, EmptySeq
<1>3. ASSUME Inside(d)
      PROVE  Len(outdir) <= Len(d) /\ \A i \in 1..Len(outdir) : d[i] = outdir[i]
  <2>1. Len(outdir) <= Len(d) /\ SubSeq(outdir, 1, Len(outdir)) = SubSeq(d, 1, Len(outdir))
    BY <1>3 DEF Inside, IsPrefix
  <2>2. \A i \in 1..Len(outdir) : outdir[i] \in Names /\ d[i] \in Names
    BY <1>1, <1>2, <2>1
  <2>3. \A i \in 1..Len(outdir) : /\ SubSeq(outdir, 1, Len(outdir))[i] = outdir[i]
                                  /\ SubSeq(d, 1, Len(outdir))[i] = d[i]
    BY <1>2, <2>2, SubSeqProperties, Z3
  <2> QED BY <2>1, <2>3
<1>4. Inside(d) => d # <<>>
  BY <1>2, <1>3
<1> QED BY <1>2, <1>3, <1>4

\* Of two sequences with the same names the same names are below them.
LEMMA PrefixIs ==
    ASSUME NEW d \in Seq(Names), NEW e \in Seq(Names), IsPrefix(d, e)
    PROVE  /\ Len(d) <= Len(e) /\ \A i \in 1..Len(d) : d[i] = e[i]
           /\ Len(d) = Len(e) => d = e
<1>1. Len(d) \in Nat /\ Len(e) \in Nat /\ Len(d) <= Len(e)
  BY DEF IsPrefix
<1>2. \A i \in 1..Len(d) : d[i] \in Names /\ e[i] \in Names
  BY <1>1
<1>3. \A i \in 1..Len(d) : SubSeq(d, 1, Len(d))[i] = d[i] /\ SubSeq(e, 1, Len(d))[i] = e[i]
  BY <1>1, <1>2, SubSeqProperties, Z3
<1>4. \A i \in 1..Len(d) : d[i] = e[i]
  BY <1>3 DEF IsPrefix
<1> QED BY <1>1, <1>4, SeqEqual

\* rmtree of another job's directory does not reach a directory with no job's name
\* above its own.
LEMMA ApartIsSafe ==
    ASSUME FileTypes, NEW d \in Seq(Names), NEW e \in Seq(Names),
           Inside(d), OwnDir(d), Apart(e), IsPrefix(d, e)
    PROVE  d = e
<1>1. /\ Len(outdir) \in Nat \ {0} /\ Len(outdir) <= Len(d)
      /\ \A i \in 1..Len(outdir) : d[i] = outdir[i]
  BY InsideIs
<1>2. /\ Len(d) \in Nat /\ Len(e) \in Nat /\ Len(d) <= Len(e)
      /\ \A i \in 1..Len(d) : d[i] = e[i]
      /\ Len(d) = Len(e) => d = e
  BY PrefixIs
<1>3. d # outdir /\ d[Len(d)][1] # 0
  BY DEF OwnDir, Shaped, Last
<1>4. Len(d) # Len(outdir)
  <2>1. outdir \in Seq(Names)
    BY FilesAssumption DEF FileTypes
  <2> QED BY <1>1, <1>3, <2>1, SeqEqual
<1>5. CASE Len(d) < Len(e)
  <2>1. Len(d) \in (Len(outdir) + 1)..(Len(e) - 1) /\ Len(d) \in 1..Len(d)
    BY <1>1, <1>2, <1>4, <1>5
  <2>2. e[Len(d)][1] = 0
    BY <2>1 DEF Apart
  <2> QED BY <1>2, <1>3, <2>1, <2>2
<1> QED BY <1>2, <1>5

LEMMA OneName ==
    ASSUME NEW S, NEW x \in S
    PROVE  <<x>> \in Seq(S) /\ Len(<<x>>) = 1 /\ <<x>>[1] = x
OBVIOUS

\* The name of a copy begins with the same word.
LEMMA CopyTag ==
    ASSUME NEW t \in Tagged, NEW n \in Nat
    PROVE  Append(t, n) \in Tagged /\ t \in Seq(STRING \cup Nat)
<1>1. t \in Seq(STRING \cup Nat) /\ Len(t) > 0 /\ t[1] \in Words /\ n \in STRING \cup Nat
  BY DEF Tagged
<1>2. /\ Append(t, n) \in Seq(STRING \cup Nat) /\ Len(Append(t, n)) = Len(t) + 1
      /\ \A i \in 1..Len(t) : Append(t, n)[i] = t[i]
  BY <1>1, AppendProperties
<1>3. 1 \in 1..Len(t) /\ Len(t) \in Nat
  BY <1>1
<1>4. Append(t, n)[1] \in Words /\ Len(Append(t, n)) > 0
  BY <1>1, <1>2, <1>3
<1> QED BY <1>1, <1>2, <1>4 DEF Tagged

LEMMA SlugIs ==
    ASSUME NEW t \in Tagged
    PROVE  Slug(t) \in Seq(STRING \cup Nat)
<1>1. t \in Seq(STRING \cup Nat) /\ t # <<>> /\ t[1] \in Words
  BY DEF Tagged
<1>2. <<SlugOf[t[1]]>> \in Seq(STRING \cup Nat)
  <2>1. SlugOf[t[1]] \in STRING \cup Nat
    BY <1>1, FilesAssumption
  <2> QED BY <2>1, OneName
<1>3. Tail(t) \in Seq(STRING \cup Nat)
  BY <1>1, HeadTailProperties
<1> QED BY <1>2, <1>3, ConcatProperties DEF Slug

\* The directory a job is given is a new name below the one it was asked for, or
\* beside it.
LEMMA RelocateIs ==
    ASSUME FileTypes, NEW stem \in Stems, Stemmed(stem)
    PROVE  /\ Relocate(stem) \in Stems /\ Stemmed(Relocate(stem))
           /\ Relocate(stem).tag = stem.tag
           /\ Apart(stem.dir) /\ ~Orphan(stem.dir) => Apart(Relocate(stem).dir)
<1> DEFINE d == stem.dir
<1> DEFINE name == <<minute, Slug(stem.tag)>>
<1> DEFINE above == BaseOutdir(d)
<1>1. d \in Seq(Names) /\ stem.tag \in Tagged /\ d # <<>>
  BY DEF Stems, Stemmed
<1>2. name \in Names
  BY <1>1, SlugIs DEF Names, FileTypes
<1>3. Len(outdir) \in Nat /\ Len(d) \in Nat \ {0}
  BY <1>1, EmptySeq, InsideIs
<1> HIDE DEF name
<1>4. /\ above \in Seq(Names) /\ Len(above) \in {Len(d), Len(d) - 1}
      /\ \A i \in 1..Len(above) : above[i] = d[i]
  <2>1. CASE above = d
    BY <1>1, <2>1
  <2>2. CASE above = Front(d)
    <3>1. \A i \in 1..(Len(d) - 1) : d[i] \in Names
      BY <1>1, <1>3
    <3>2. 1 \in Int /\ Len(d) - 1 \in Int
      BY <1>3
    <3> DEFINE f == SubSeq(d, 1, Len(d) - 1)
    <3>3. /\ f \in Seq(Names)
          /\ Len(f) = IF 1 <= Len(d) - 1 THEN (Len(d) - 1) - 1 + 1 ELSE 0
          /\ \A i \in 1..(Len(d) - 1) - 1 + 1 : f[i] = d[1 + i - 1]
      BY <3>1, <3>2, SubSeqProperties
    <3>4. above = f
      BY <2>2 DEF Front
    <3> HIDE DEF f, above
    <3> QED BY <1>3, <3>3, <3>4
  <2> QED BY <2>1, <2>2 DEF BaseOutdir
<1>5. /\ Relocate(stem).dir = Append(above, name) /\ Relocate(stem).tag = stem.tag
      /\ Relocate(stem) = [stem EXCEPT !.dir = Append(above, name)]
  BY DEF Relocate, Stems, name
<1>6. /\ Append(above, name) \in Seq(Names) /\ Len(Append(above, name)) = Len(above) + 1
      /\ \A i \in 1..Len(above) : Append(above, name)[i] = above[i]
  BY <1>2, <1>4, AppendProperties
<1>7. Relocate(stem) \in Stems
  BY <1>5, <1>6 DEF Stems
<1>8. ASSUME Apart(d), ~Orphan(d) PROVE Apart(Append(above, name))
  <2> SUFFICES ASSUME NEW i \in (Len(outdir) + 1)..(Len(Append(above, name)) - 1)
               PROVE  Append(above, name)[i][1] = 0
    BY DEF Apart
  <2>1. i \in 1..Len(above) /\ i \in (Len(outdir) + 1)..Len(above)
    BY <1>3, <1>4, <1>6
  <2>2. Append(above, name)[i] = d[i]
    BY <2>1, <1>4, <1>6
  <2>3. CASE i <= Len(d) - 1
    BY <2>1, <2>2, <2>3, <1>3, <1>8 DEF Apart
  <2>4. CASE i = Len(d)
    <3>1. Len(above) = Len(d)
      BY <1>3, <1>4, <2>1, <2>4
    <3>2. d # outdir
      BY <2>1, <2>4, <1>3
    <3>3. ~Shaped(d)
      <4>1. Shaped(d) => KnownDir(d)
        BY <1>8, <3>2 DEF Orphan
      <4>2. ASSUME Shaped(d) /\ KnownDir(d) PROVE FALSE
        <5>1. above = SubSeq(d, 1, Len(d) - 1)
          BY <4>2 DEF BaseOutdir, Front
        <5>2. Len(SubSeq(d, 1, Len(d) - 1)) = Len(d) - 1
          BY <1>1, <1>3
        <5> HIDE DEF above
        <5> QED BY <3>1, <5>1, <5>2, <1>3
      <4> QED BY <4>1, <4>2
    <3> QED BY <3>3, <2>2, <2>4 DEF Shaped, Last
  <2> QED BY <2>1, <2>3, <2>4, <1>3, <1>4
<1>9. Stemmed(Relocate(stem))
  <2> HIDE DEF above
  <2>1. Len(above) \in Nat
    BY <1>4
  <2>2. Append(above, name) # <<>>
    <3>1. Append(above, name) \in Seq(Names) /\ Len(Append(above, name)) = Len(above) + 1
      BY <1>6
    <3>2. Len(Append(above, name)) # 0
      BY <2>1, <3>1
    <3> QED BY <3>1, <3>2, EmptySeq
  <2> QED BY <2>2, <1>1, <1>5, <1>7 DEF Stemmed, Stems
<1> QED BY <1>5, <1>7, <1>8, <1>9

-----------------------------------------------------------------------------
LEMMA FilesInitInv == FilesInit => FilesInv
<1> SUFFICES ASSUME FilesInit PROVE FilesInv
  OBVIOUS
<1>1. Idle \in OpRecords /\ Idle.pc = "idle" /\ Idle.reads = NoJob
  BY DEF Idle, OpRecords, Stems, NoJob, NoText
<1>2. FileTypes
  BY <1>1 DEF FilesInit, FileTypes
<1>3. AllCarried
  BY <1>1 DEF FilesInit, AllCarried, Carried, Filers
<1>4. Filed
  BY DEF FilesInit, Filed
<1> QED BY <1>2, <1>3, <1>4 DEF FilesInv

\* A request that goes on, or ends, and writes nothing.
LEMMA RequestKeeps ==
    ASSUME FilesInv, NEW r \in Requests, NEW o \in OpRecords,
           op' = [op EXCEPT ![r] = o], UNCHANGED <<outdir, jobs, prompts, clips, tails>>,
           minute' \in Nat, source' \in Nat, calls' \in Nat,
           Carried(o), o.pc = "tree" => o.job \in Known
    PROVE  FilesInv'
<1>1. FileTypes /\ AllCarried /\ Filed
  BY DEF FilesInv
<1>2. /\ op'[r] = o /\ \A s \in Requests \ {r} : op'[s] = op[s]
      /\ op' \in [Requests -> OpRecords]
  BY <1>1 DEF FileTypes
<1>3. FileTypes'
  BY <1>1, <1>2 DEF FileTypes
<1>4. AllCarried'
  <2> SUFFICES ASSUME NEW s \in Requests PROVE Carried(op[s])'
    BY DEF AllCarried
  <2>1. CASE s = r
    BY <2>1, <1>2 DEF Carried, Filers, Placed, Stemmed, Inside
  <2>2. CASE s # r
    BY <2>2, <1>1, <1>2 DEF AllCarried, Carried, Filers, Placed, Stemmed, Inside
  <2> QED BY <2>1, <2>2
<1>5. Filed'
  <2> SUFFICES ASSUME NEW n \in DOMAIN jobs
               PROVE  /\ Placed(jobs[n])' /\ jobs[n].reads \in {NoJob, n}
                      /\ KeepsPrompt(jobs[n])' /\ KeepsOutput(n, jobs[n])'
                      /\ jobs[n].st # "gone" /\ jobs[n].alone => OnItsOwn(n)'
    BY DEF Filed
  <2>1. /\ Placed(jobs[n]) /\ jobs[n].reads \in {NoJob, n}
        /\ KeepsPrompt(jobs[n]) /\ KeepsOutput(n, jobs[n])
        /\ jobs[n].st # "gone" /\ jobs[n].alone => OnItsOwn(n)
    BY <1>1 DEF Filed
  <2>2. Placed(jobs[n])' /\ KeepsPrompt(jobs[n])' /\ KeepsOutput(n, jobs[n])'
    BY <2>1 DEF Placed, Stemmed, Inside, KeepsPrompt, KeepsOutput, Saved
  <2>3. ASSUME OnItsOwn(n) PROVE OnItsOwn(n)'
    <3>1. \A s \in Requests :
             op'[s].pc = "tree" /\ op'[s].job # n => op'[s].stem.dir # jobs[n].stem.dir
      <4> SUFFICES ASSUME NEW s \in Requests, op'[s].pc = "tree", op'[s].job # n
                   PROVE  op'[s].stem.dir # jobs[n].stem.dir
        OBVIOUS
      <4>1. CASE s = r
        <5>1. o.job \in Known \ {n} /\ o.stem = jobs[o.job].stem
          BY <4>1, <1>2 DEF Carried, Filers
        <5> QED BY <5>1, <4>1, <1>2, <2>3 DEF OnItsOwn
      <4>2. CASE s # r
        BY <4>2, <1>2, <2>3 DEF OnItsOwn
      <4> QED BY <4>1, <4>2
    <3> QED BY <2>3, <3>1 DEF OnItsOwn, Apart, Known
  <2> QED BY <2>1, <2>2, <2>3
<1> QED BY <1>3, <1>4, <1>5 DEF FilesInv

\* What requests carry still stands when a job only goes on.
Onward(j, k) ==
    /\ k.stem = j.stem /\ k.reads = j.reads /\ k.moved = j.moved
    /\ j.st \in {"done", "failed", "gone"} => k.st \in {"done", "failed", "gone"}
    /\ j.st = "gone" => k.st = "gone"
    /\ k.alone => j.alone

\* A step that changes the record of one job, its prompt and the files: the job keeps
\* what it is to keep, the others lose nothing.
LEMMA OneJobKeeps ==
    ASSUME FilesInv, NEW n \in DOMAIN jobs, NEW k \in JobRecords,
           jobs' = [jobs EXCEPT ![n] = k],
           prompts' \in Seq(Nat), Len(prompts') = Len(prompts),
           \A m \in DOMAIN jobs \ {n} : prompts'[m] = prompts[m],
           op' \in [Requests -> OpRecords],
           \A s \in Requests : op'[s] = op[s] \/ (op'[s].pc # "tree" /\ Carried(op'[s])),
           outdir' = outdir, minute' \in Nat, source' \in Nat, calls' \in Nat,
           Onward(jobs[n], k),
           KeepsPrompt(jobs[n])', KeepsOutput(n, jobs[n])',
           \A m \in DOMAIN jobs \ {n} : jobs[m].st # "gone" => KeepsOutput(m, jobs[m])'
    PROVE  FilesInv'
<1>1. FileTypes /\ AllCarried /\ Filed
  BY DEF FilesInv
<1>2. /\ jobs' \in Seq(JobRecords) /\ Len(jobs') = Len(jobs) /\ DOMAIN jobs' = DOMAIN jobs
      /\ jobs'[n] = k /\ \A m \in DOMAIN jobs \ {n} : jobs'[m] = jobs[m]
  BY <1>1 DEF FileTypes
<1>3. FileTypes'
  BY <1>1, <1>2 DEF FileTypes
<1>4. \A m \in DOMAIN jobs : Onward(jobs[m], jobs'[m])
  BY <1>2 DEF Onward
<1>5. AllCarried'
  <2> SUFFICES ASSUME NEW s \in Requests PROVE Carried(op[s])'
    BY DEF AllCarried
  <2>1. Carried(op'[s])
    BY <1>1 DEF AllCarried
  <2> QED BY <2>1, <1>2, <1>4 DEF Carried, Filers, Placed, Stemmed, Inside, Onward
<1>6. Known' \subseteq Known
  BY <1>2, <1>4 DEF Known, Onward
<1>7. Filed'
  <2> SUFFICES ASSUME NEW m \in DOMAIN jobs
               PROVE  /\ Placed(jobs[m])' /\ jobs'[m].reads \in {NoJob, m}
                      /\ KeepsPrompt(jobs[m])' /\ KeepsOutput(m, jobs[m])'
                      /\ jobs'[m].st # "gone" /\ jobs'[m].alone => OnItsOwn(m)'
    BY <1>2 DEF Filed
  <2>1. /\ Placed(jobs[m]) /\ jobs[m].reads \in {NoJob, m}
        /\ KeepsPrompt(jobs[m]) /\ KeepsOutput(m, jobs[m])
        /\ jobs[m].st # "gone" /\ jobs[m].alone => OnItsOwn(m)
    BY <1>1 DEF Filed
  <2>2. Placed(jobs[m])' /\ jobs'[m].reads \in {NoJob, m}
    BY <2>1, <1>4 DEF Placed, Stemmed, Inside, Onward
  <2>3. KeepsPrompt(jobs[m])'
    <3>1. CASE m = n
      BY <3>1
    <3>2. CASE m # n
      BY <3>2, <2>1, <1>2 DEF KeepsPrompt, NoJob
    <3> QED BY <3>1, <3>2
  <2>4. KeepsOutput(m, jobs[m])'
    <3>1. CASE m = n \/ jobs[m].st # "gone"
      BY <3>1
    <3>2. CASE m # n /\ jobs[m].st = "gone"
      BY <3>2, <1>2 DEF KeepsOutput
    <3> QED BY <3>1, <3>2
  <2>5. ASSUME jobs'[m].st # "gone", jobs'[m].alone PROVE OnItsOwn(m)'
    <3>1. OnItsOwn(m)
      BY <2>1, <2>5, <1>4 DEF Onward
    <3>2. \A q \in DOMAIN jobs : jobs'[q].stem = jobs[q].stem
      BY <1>4 DEF Onward
    <3>3. Apart(jobs[m].stem.dir)'
      BY <3>1, <3>2 DEF OnItsOwn, Apart
    <3>4. Known \subseteq DOMAIN jobs
      BY DEF Known
    <3> QED BY <3>1, <3>2, <3>3, <3>4, <1>6 DEF OnItsOwn
  <2> QED BY <2>2, <2>3, <2>4, <2>5
<1> QED BY <1>3, <1>5, <1>7 DEF FilesInv

-----------------------------------------------------------------------------
(* The requests.                                                           *)

LEMMA IdleCarries == Idle \in OpRecords /\ Carried(Idle) /\ Idle.pc = "idle"
BY DEF Idle, OpRecords, Stems, NoJob, NoText, Carried, Filers

LEMMA LeaveKeeps ==
    ASSUME FilesInv, NEW r \in Requests, Leave(r),
           UNCHANGED <<outdir, jobs, prompts, clips, tails>>,
           minute' \in Nat, source' \in Nat, calls' \in Nat
    PROVE  FilesInv'
<1>1. Idle \in OpRecords /\ Carried(Idle) /\ Idle.pc # "tree"
  BY IdleCarries
<1>2. op' = [op EXCEPT ![r] = Idle]
  BY DEF Leave
<1> QED BY <1>1, <1>2, RequestKeeps

\* What the form may name is a directory.
LEMMA NamedIs ==
    ASSUME FileTypes
    PROVE  Named \subseteq Seq(Names)
<1>1. outdir \in Seq(Names) /\ Len(outdir) \in Nat
  BY FilesAssumption DEF FileTypes
<1>2. \A i \in 1..(Len(outdir) - 1) : outdir[i] \in Names
  BY <1>1
<1>3. 1 \in Int /\ Len(outdir) - 1 \in Int
  BY <1>1
<1>4. Front(outdir) \in Seq(Names)
  BY <1>2, <1>3, SubSeqProperties DEF Front
<1>5. \A n \in DOMAIN jobs : jobs[n].stem.dir \in Seq(Names)
  <2>1. \A n \in DOMAIN jobs : jobs[n] \in JobRecords
    BY DEF FileTypes
  <2> QED BY <2>1 DEF JobRecords, Stems
<1> QED BY <1>1, <1>4, <1>5 DEF Named

LEMMA PrepareKeeps ==
    ASSUME FilesInv, NEW r \in Requests, NEW does \in {"submit", "update"},
           NEW n \in Nat, NEW d \in Seq(Names), NEW tag \in Tagged,
           does = "update" => n \in DOMAIN jobs, Prepare(r, does, n, d, tag)
    PROVE  FilesInv'
<1>1. FileTypes
  BY DEF FilesInv
<1>2. PICK text \in {NoText, source} :
        op' = [op EXCEPT ![r] = [Idle EXCEPT !.pc = does, !.job = n,
                                              !.stem = DryRun(d, tag), !.text = text]]
  BY DEF Prepare
<1> DEFINE o == [Idle EXCEPT !.pc = does, !.job = n, !.stem = DryRun(d, tag), !.text = text]
<1>3. /\ DryRun(d, tag) \in Stems /\ Stemmed(DryRun(d, tag)) /\ text \in Nat
      /\ Inside(DryRun(d, tag).dir)
  BY <1>1, InsideIs DEF DryRun, Stems, Stemmed, Tagged, Prepare, FileTypes, NoText
<1>4. Idle \in OpRecords /\ Idle.reads = NoJob
  BY DEF Idle, OpRecords, Stems, NoJob, NoText
<1>5. /\ o \in OpRecords /\ o.pc = does /\ o.job = n /\ o.stem = DryRun(d, tag)
      /\ o.reads = NoJob
  BY <1>3, <1>4 DEF OpRecords
<1> HIDE DEF o
<1>6. Carried(o) /\ o.pc # "tree"
  BY <1>3, <1>5 DEF Carried, Filers
<1>7. UNCHANGED <<rest, book, disk>> /\ calls' \in Nat
  BY <1>1 DEF Prepare, BeginRequest, FileTypes
<1> QED BY <1>1, <1>2, <1>5, <1>6, <1>7, RequestKeeps DEF rest, book, disk, FileTypes, o

LEMMA TagsAre ==
    ASSUME FileTypes, Filed
    PROVE  /\ Tags \subseteq Tagged
           /\ \A n \in DOMAIN jobs : jobs[n].stem.tag \in Tagged
<1>1. ASSUME NEW w \in Words PROVE <<w>> \in Tagged
  <2>1. w \in STRING \cup Nat
    BY FilesAssumption
  <2>2. <<w>> \in Seq(STRING \cup Nat) /\ Len(<<w>>) = 1 /\ <<w>>[1] = w
    BY <2>1, OneName
  <2> QED BY <2>2 DEF Tagged
<1> QED BY <1>1 DEF Tags, Filed, Placed, Stemmed

LEMMA PrepareSubmitKeeps ==
    ASSUME FilesInv, NEW r \in Requests, PrepareSubmit(r)
    PROVE  FilesInv'
BY PrepareKeeps, TagsAre, NamedIs DEF PrepareSubmit, FilesInv, NoJob

LEMMA PrepareEditKeeps ==
    ASSUME FilesInv, NEW r \in Requests, PrepareEdit(r)
    PROVE  FilesInv'
<1>1. FileTypes /\ Filed
  BY DEF FilesInv
<1>2. PICK n \in DOMAIN jobs : \E d \in Named, tag \in Tags \cup {jobs[n].stem.tag} :
        Prepare(r, "update", n, d, tag)
  BY DEF PrepareEdit
<1>3. n \in Nat
  BY <1>1 DEF FileTypes
<1> QED BY <1>1, <1>2, <1>3, PrepareKeeps, TagsAre, NamedIs

LEMMA DuplicateScanKeeps ==
    ASSUME FilesInv, NEW r \in Requests, NEW n \in DOMAIN jobs, DuplicateScan(r, n)
    PROVE  FilesInv'
<1> DEFINE o == [Idle EXCEPT !.pc = "copy", !.job = n, !.try = 1,
                             !.stem = jobs[n].stem, !.reads = jobs[n].reads]
<1>1. FileTypes /\ Filed
  BY DEF FilesInv
<1>2. /\ n \in Nat /\ jobs[n] \in JobRecords /\ Stemmed(jobs[n].stem)
      /\ jobs[n].reads \in {NoJob, n}
  BY <1>1 DEF FileTypes, Filed, Placed
<1>3. Idle \in OpRecords
  BY IdleCarries
<1>4. jobs[n].stem \in Stems /\ jobs[n].reads \in Nat
  BY <1>2 DEF JobRecords
<1>5. /\ o \in OpRecords /\ o.pc = "copy" /\ o.job = n /\ o.stem = jobs[n].stem
      /\ o.reads = jobs[n].reads
  BY <1>2, <1>3, <1>4 DEF OpRecords
<1>6. op' = [op EXCEPT ![r] = o]
  BY DEF DuplicateScan
<1> HIDE DEF o
<1>7. Carried(o) /\ o.pc # "tree"
  BY <1>2, <1>5 DEF Carried, Filers
<1>8. UNCHANGED <<rest, book, disk>> /\ calls' \in Nat
  BY <1>1 DEF DuplicateScan, BeginRequest, FileTypes
<1> QED BY <1>1, <1>5, <1>6, <1>7, <1>8, RequestKeeps DEF rest, book, disk, FileTypes

LEMMA DuplicateReadKeeps ==
    ASSUME FilesInv, NEW r \in Requests, DuplicateRead(r)
    PROVE  FilesInv'
<1> DEFINE n == op[r].reads
<1> DEFINE text == IF n = NoJob THEN NoText ELSE prompts[n]
<1> DEFINE o == [op[r] EXCEPT !.pc = "duplicate", !.text = text]
<1>1. FileTypes /\ AllCarried
  BY DEF FilesInv
<1>2. /\ op[r] \in OpRecords /\ op[r].pc = "copy" /\ Stemmed(op[r].stem)
      /\ n \in {NoJob} \cup DOMAIN jobs
  BY <1>1 DEF FileTypes, AllCarried, Carried, Filers, DuplicateRead
<1>3. UNCHANGED <<rest, book, disk, calls>>
  BY DEF DuplicateRead
<1>4. CASE n # NoJob /\ prompts[n] = NoText
  <2>1. Leave(r)
    BY <1>4 DEF DuplicateRead
  <2> QED BY <2>1, <1>1, <1>3, LeaveKeeps DEF rest, book, disk, FileTypes
<1>5. CASE ~(n # NoJob /\ prompts[n] = NoText)
  <2>1. text \in Nat /\ (text = NoText => n = NoJob)
    BY <1>1, <1>2, <1>5 DEF FileTypes, NoText, NoJob
  <2>2. op' = [op EXCEPT ![r] = o]
    BY <1>1, <1>5 DEF DuplicateRead, FileTypes
  <2> HIDE DEF text
  <2>3. /\ o \in OpRecords /\ o.pc = "duplicate" /\ o.stem = op[r].stem /\ o.reads = n
        /\ o.text = text
    BY <1>2, <2>1 DEF OpRecords
  <2> HIDE DEF o
  <2>4. Carried(o) /\ o.pc # "tree"
    BY <1>2, <2>1, <2>3 DEF Carried, Filers
  <2> QED BY <1>1, <1>3, <2>2, <2>3, <2>4, RequestKeeps DEF rest, book, disk, FileTypes
<1> QED BY <1>4, <1>5

LEMMA RouteKeeps ==
    ASSUME FilesInv, NEW r \in Requests, NEW n \in DOMAIN jobs, Route(r, n)
    PROVE  FilesInv'
<1>1. FileTypes
  BY DEF FilesInv
<1>2. n \in Nat /\ jobs[n] \in JobRecords /\ jobs[n].stem \in Stems
  <2>1. n \in Nat /\ jobs[n] \in JobRecords
    BY <1>1 DEF FileTypes
  <2> QED BY <2>1 DEF JobRecords
<1>3. Idle \in OpRecords /\ Idle.reads = NoJob
  BY DEF Idle, OpRecords, Stems, NoJob, NoText
<1>4. UNCHANGED <<rest, book, disk>> /\ calls' \in Nat
  BY <1>1 DEF Route, BeginRequest, FileTypes
<1>5. ASSUME op' = [op EXCEPT ![r] = [Idle EXCEPT !.pc = "cancel", !.job = n]]
      PROVE  FilesInv'
  <2> DEFINE o == [Idle EXCEPT !.pc = "cancel", !.job = n]
  <2>1. o \in OpRecords /\ o.pc = "cancel" /\ o.job = n /\ o.reads = NoJob
    BY <1>2, <1>3 DEF OpRecords
  <2>2. op' = [op EXCEPT ![r] = o]
    BY <1>5
  <2> HIDE DEF o
  <2>3. Carried(o) /\ o.pc # "tree"
    BY <2>1 DEF Carried, Filers
  <2> QED BY <1>1, <1>4, <2>1, <2>2, <2>3, RequestKeeps DEF rest, book, disk, FileTypes
<1>6. ASSUME jobs[n].st \in {"done", "failed"}, Inside(jobs[n].stem.dir),
             op' = [op EXCEPT ![r] = [Idle EXCEPT !.pc = "tree", !.job = n,
                                                  !.stem = jobs[n].stem]]
      PROVE  FilesInv'
  <2> DEFINE o == [Idle EXCEPT !.pc = "tree", !.job = n, !.stem = jobs[n].stem]
  <2>1. /\ o \in OpRecords /\ o.pc = "tree" /\ o.job = n /\ o.stem = jobs[n].stem
        /\ o.reads = NoJob
    BY <1>2, <1>3 DEF OpRecords
  <2>2. op' = [op EXCEPT ![r] = o]
    BY <1>6
  <2> HIDE DEF o
  <2>3. Carried(o) /\ o.job \in Known
    BY <2>1, <1>6 DEF Carried, Filers, Known
  <2> QED BY <1>1, <1>4, <2>1, <2>2, <2>3, RequestKeeps DEF rest, book, disk, FileTypes
<1> QED BY <1>5, <1>6 DEF Route

\* The others' files are where they were.
LEMMA OthersKeep ==
    ASSUME FilesInv, NEW m \in DOMAIN jobs, jobs'[m] = jobs[m], prompts'[m] = prompts[m],
           [dir |-> jobs[m].stem.dir, tag |-> jobs[m].stem.tag, by |-> m] \in clips
              => [dir |-> jobs[m].stem.dir, tag |-> jobs[m].stem.tag, by |-> m] \in clips',
           Saved(m) \in tails => Saved(m) \in tails'
    PROVE  KeepsOutput(m, jobs[m])'
<1>1. KeepsOutput(m, jobs[m])
  BY DEF FilesInv, Filed
<1>2. Saved(m)' = Saved(m)
  BY DEF Saved
<1> QED BY <1>1, <1>2 DEF KeepsOutput

\* One job's record and prompt change and no file does.
LEMMA RecordKeeps ==
    ASSUME FilesInv, NEW n \in DOMAIN jobs, NEW k \in JobRecords,
           jobs' = [jobs EXCEPT ![n] = k],
           \/ prompts' = prompts
           \/ \E t \in Nat : prompts' = [prompts EXCEPT ![n] = t],
           op' \in [Requests -> OpRecords],
           \A s \in Requests : op'[s] = op[s] \/ (op'[s].pc # "tree" /\ Carried(op'[s])),
           UNCHANGED <<outdir, clips, tails>>, minute' \in Nat, source' \in Nat, calls' \in Nat,
           Onward(jobs[n], k), KeepsPrompt(jobs[n])', KeepsOutput(n, jobs[n])'
    PROVE  FilesInv'
<1>1. FileTypes
  BY DEF FilesInv
<1>2. /\ jobs'[n] = k /\ \A m \in DOMAIN jobs \ {n} : jobs'[m] = jobs[m]
      /\ prompts' \in Seq(Nat) /\ Len(prompts') = Len(prompts)
      /\ \A m \in DOMAIN jobs \ {n} : prompts'[m] = prompts[m]
  BY <1>1 DEF FileTypes
<1>3. \A m \in DOMAIN jobs \ {n} : KeepsOutput(m, jobs[m])'
  BY <1>2, OthersKeep
<1> QED BY <1>2, <1>3, OneJobKeeps

\* Leaving is nothing to the requests that go on.
LEMMA LeftIs ==
    ASSUME FileTypes, NEW r \in Requests, Leave(r)
    PROVE  /\ op' \in [Requests -> OpRecords]
           /\ \A s \in Requests : op'[s] = op[s] \/ (op'[s].pc # "tree" /\ Carried(op'[s]))
BY IdleCarries DEF FileTypes, Leave

\* What a request on its way is, and what it carries.
LEMMA OpIs ==
    ASSUME FilesInv, NEW r \in Requests
    PROVE  op[r] \in OpRecords /\ Carried(op[r])
BY DEF FilesInv, FileTypes, AllCarried

LEMMA CancelKeeps ==
    ASSUME FilesInv, NEW r \in Requests, Cancel(r)
    PROVE  FilesInv'
<1>0. PICK n : n = op[r].job
  OBVIOUS
<1> DEFINE k == [jobs[n] EXCEPT !.st = "gone"]
<1>1. FileTypes
  BY DEF FilesInv
<1>2. n \in DOMAIN jobs /\ jobs[n] \in JobRecords
  BY <1>0, <1>1, OpIs DEF FileTypes, Carried, Filers, Cancel
<1>3. Leave(r) /\ UNCHANGED <<rest, disk, calls>>
  BY DEF Cancel
<1>4. CASE UNCHANGED book
  BY <1>1, <1>3, <1>4, LeaveKeeps DEF rest, book, disk, FileTypes
<1>5. CASE /\ jobs[n].st = "pending"
           /\ jobs' = [jobs EXCEPT ![n].st = "gone"] /\ prompts' = [prompts EXCEPT ![n] = NoText]
  <2>1. k \in JobRecords /\ k.st = "gone" /\ k.stem = jobs[n].stem /\ k.reads = jobs[n].reads
        /\ k.alone = jobs[n].alone /\ k.moved = jobs[n].moved
    BY <1>2 DEF JobRecords
  <2>2. jobs' = [jobs EXCEPT ![n] = k]
    BY <1>5
  <2> HIDE DEF k
  <2>3. jobs'[n] = k
    BY <1>1, <1>2, <2>2 DEF FileTypes
  <2>4. Onward(jobs[n], k) /\ KeepsPrompt(jobs[n])' /\ KeepsOutput(n, jobs[n])'
    BY <2>1, <2>3, <1>5 DEF Onward, KeepsPrompt, KeepsOutput
  <2>5. \E t \in Nat : prompts' = [prompts EXCEPT ![n] = t]
    BY <1>5 DEF NoText
  <2> QED BY <1>1, <1>2, <1>3, <2>1, <2>2, <2>4, <2>5, LeftIs, RecordKeeps
          DEF rest, disk, FileTypes
<1> QED BY <1>0, <1>4, <1>5 DEF Cancel

LEMMA RemoveRecordKeeps ==
    ASSUME FilesInv, NEW r \in Requests, RemoveRecord(r)
    PROVE  FilesInv'
<1>0. PICK n : n = op[r].job
  OBVIOUS
<1> DEFINE k == [jobs[n] EXCEPT !.st = "gone"]
<1>1. FileTypes
  BY DEF FilesInv
<1>2. n \in DOMAIN jobs /\ jobs[n] \in JobRecords
  BY <1>0, <1>1, OpIs DEF FileTypes, Carried, Filers, RemoveRecord
<1>3. Leave(r) /\ UNCHANGED <<rest, disk, calls>>
  BY DEF RemoveRecord
<1>4. k \in JobRecords /\ k.st = "gone" /\ k.stem = jobs[n].stem /\ k.reads = jobs[n].reads
      /\ k.alone = jobs[n].alone /\ k.moved = jobs[n].moved
  BY <1>2 DEF JobRecords
<1>5. jobs' = [jobs EXCEPT ![n] = k]
  BY <1>0 DEF RemoveRecord
<1> HIDE DEF k
<1>6. jobs'[n] = k
  BY <1>1, <1>2, <1>5 DEF FileTypes
<1>7. Onward(jobs[n], k) /\ KeepsPrompt(jobs[n])' /\ KeepsOutput(n, jobs[n])'
  BY <1>4, <1>6 DEF Onward, KeepsPrompt, KeepsOutput
<1>8. \E t \in Nat : prompts' = [prompts EXCEPT ![n] = t]
  BY <1>0 DEF NoText, RemoveRecord
<1> QED BY <1>1, <1>2, <1>3, <1>4, <1>5, <1>7, <1>8, LeftIs, RecordKeeps
        DEF rest, disk, FileTypes

\* A removal takes the files of its own job, and of those that shared its directory.
LEMMA TreeTakes ==
    ASSUME FilesInv, NEW r \in Requests, RemoveTree(r),
           NEW m \in DOMAIN jobs, m # op[r].job, jobs[m].st # "gone"
    PROVE  KeepsOutput(m, jobs[m])'
<1> DEFINE d == op[r].stem.dir
<1> DEFINE e == jobs[m].stem.dir
<1>1. FileTypes /\ AllCarried /\ Filed
  BY DEF FilesInv
<1>2. jobs'[m] = jobs[m] /\ prompts' = prompts
  BY <1>1 DEF RemoveTree, FileTypes
<1>3. CASE ~jobs[m].alone
  BY <1>2, <1>3 DEF KeepsOutput
<1>4. CASE jobs[m].alone
  <2>1. OnItsOwn(m) /\ Apart(e) /\ d # e
    BY <1>1, <1>4 DEF Filed, OnItsOwn, RemoveTree
  <2>2. op[r].job \in DOMAIN jobs /\ op[r].stem = jobs[op[r].job].stem
    BY <1>1 DEF AllCarried, Carried, Filers, RemoveTree
  <2>3. Inside(d)
    BY <1>1 DEF AllCarried, Carried, Filers, RemoveTree
  <2>4. \A q \in DOMAIN jobs : jobs[q].stem.dir \in Seq(Names)
    <3>1. \A q \in DOMAIN jobs : jobs[q] \in JobRecords
      BY <1>1 DEF FileTypes
    <3> QED BY <3>1 DEF JobRecords, Stems
  <2>5. ~(OwnDir(d) /\ IsPrefix(d, e))
    BY <1>1, <2>1, <2>2, <2>3, <2>4, ApartIsSafe
  <2>6. \A t \in FlatTails(d) : t.dir = d
    BY DEF FlatTails
  <2> HIDE DEF d, e
  <2>7. ASSUME NEW c, c \in clips, c.dir = e PROVE c \in clips'
    BY <2>1, <2>5, <2>7 DEF RemoveTree, d
  <2>8. ASSUME NEW t, t \in tails, t.dir = e PROVE t \in tails'
    BY <2>1, <2>5, <2>6, <2>8 DEF RemoveTree, d
  <2>9. Saved(m).dir = e /\ [dir |-> jobs[m].stem.dir, tag |-> jobs[m].stem.tag, by |-> m].dir = e
    BY DEF Saved, e
  <2> QED BY <1>2, <2>7, <2>8, <2>9, OthersKeep
<1> QED BY <1>1, <1>3, <1>4 DEF FileTypes, JobRecords

LEMMA RemoveTreeKeeps ==
    ASSUME FilesInv, NEW r \in Requests, RemoveTree(r)
    PROVE  FilesInv'
<1>0. PICK n : n = op[r].job
  OBVIOUS
<1> DEFINE k == [jobs[n] EXCEPT !.doomed = TRUE]
<1> DEFINE o == [op[r] EXCEPT !.pc = "record"]
<1>1. FileTypes /\ AllCarried /\ Filed
  BY DEF FilesInv
<1>2. /\ n \in DOMAIN jobs /\ jobs[n] \in JobRecords /\ op[r] \in OpRecords
      /\ op[r].pc = "tree" /\ op[r].reads \in {NoJob} \cup DOMAIN jobs
  BY <1>0, <1>1, OpIs DEF FileTypes, Carried, Filers, RemoveTree
<1>3. UNCHANGED <<rest, prompts, calls>>
  BY DEF RemoveTree
<1>4. /\ k \in JobRecords /\ k.doomed /\ k.st = jobs[n].st /\ k.stem = jobs[n].stem
      /\ k.reads = jobs[n].reads /\ k.alone = jobs[n].alone /\ k.torn = jobs[n].torn
      /\ k.text = jobs[n].text /\ k.moved = jobs[n].moved
  BY <1>2 DEF JobRecords
<1>5. jobs' = [jobs EXCEPT ![n] = k]
  BY <1>0 DEF RemoveTree
<1>6. o \in OpRecords /\ o.pc = "record" /\ o.job = n /\ o.reads = op[r].reads
  BY <1>0, <1>2 DEF OpRecords
<1>7. op' = [op EXCEPT ![r] = o]
  BY DEF RemoveTree
<1> HIDE DEF k, o
<1>8. jobs'[n] = k
  BY <1>1, <1>2, <1>5 DEF FileTypes
<1>9. Carried(o)
  BY <1>2, <1>6 DEF Carried, Filers
<1>10. /\ op' \in [Requests -> OpRecords]
       /\ \A s \in Requests : op'[s] = op[s] \/ (op'[s].pc # "tree" /\ Carried(op'[s]))
  BY <1>1, <1>6, <1>7, <1>9 DEF FileTypes
<1>11. KeepsPrompt(jobs[n])' /\ KeepsOutput(n, jobs[n])' /\ Onward(jobs[n], k)
  <2>1. KeepsPrompt(jobs[n])
    BY <1>1, <1>2 DEF Filed
  <2>2. KeepsPrompt(jobs[n])'
    BY <2>1, <1>3, <1>4, <1>8 DEF KeepsPrompt
  <2> QED BY <2>2, <1>4, <1>8 DEF KeepsOutput, Onward
<1>12. \A m \in DOMAIN jobs \ {n} : jobs[m].st # "gone" => KeepsOutput(m, jobs[m])'
  BY <1>0, TreeTakes
<1>13. prompts' \in Seq(Nat) /\ Len(prompts') = Len(prompts) /\ prompts' = prompts
  BY <1>1, <1>3 DEF FileTypes
<1> QED BY <1>1, <1>2, <1>3, <1>4, <1>5, <1>10, <1>11, <1>12, <1>13, OneJobKeeps
        DEF rest, FileTypes

-----------------------------------------------------------------------------
(* The worker, the clock and the death of the panel.                       *)

\* Nothing of a job or of a request changes but that requests end.
LEMMA NothingKeeps ==
    ASSUME FilesInv, UNCHANGED <<outdir, jobs, prompts, clips, tails>>,
           minute' \in Nat, source' \in Nat, calls' \in Nat,
           op' = op \/ op' = [r \in Requests |-> Idle]
    PROVE  FilesInv'
<1>1. FileTypes /\ AllCarried /\ Filed
  BY DEF FilesInv
<1>2. /\ op' \in [Requests -> OpRecords]
      /\ \A s \in Requests : op'[s] = op[s] \/ (op'[s] = Idle /\ op'[s].pc = "idle")
  BY <1>1, IdleCarries DEF FileTypes
<1>3. FileTypes'
  BY <1>1, <1>2 DEF FileTypes
<1>4. AllCarried'
  <2> SUFFICES ASSUME NEW s \in Requests PROVE Carried(op[s])'
    BY DEF AllCarried
  <2>1. Carried(op'[s])
    BY <1>1, <1>2, IdleCarries DEF AllCarried
  <2> QED BY <2>1 DEF Carried, Filers, Placed, Stemmed, Inside
<1>5. Filed'
  BY <1>1, <1>2 DEF Filed, Placed, Stemmed, Inside, KeepsPrompt, KeepsOutput, Saved, OnItsOwn, Apart, Known
<1> QED BY <1>3, <1>4, <1>5 DEF FilesInv

LEMMA SavePromptKeeps == FilesInv /\ (SavePrompt \/ Tick) => FilesInv'
BY NothingKeeps DEF SavePrompt, Tick, rest, book, disk, FilesInv, FileTypes

LEMMA ClaimKeeps ==
    ASSUME FilesInv, NEW n \in DOMAIN jobs, Claim(n)
    PROVE  FilesInv'
<1> DEFINE k == [jobs[n] EXCEPT !.st = "running"]
<1>1. FileTypes /\ AllCarried /\ KeepsPrompt(jobs[n])
  BY DEF FilesInv, Filed
<1>2. jobs[n] \in JobRecords /\ jobs[n].st = "pending"
  BY <1>1 DEF FileTypes, Claim
<1>3. /\ k \in JobRecords /\ k.st = "running" /\ k.stem = jobs[n].stem
      /\ k.reads = jobs[n].reads /\ k.alone = jobs[n].alone /\ k.torn = jobs[n].torn
      /\ k.text = jobs[n].text /\ k.moved = jobs[n].moved
  BY <1>2 DEF JobRecords
<1>4. jobs' = [jobs EXCEPT ![n] = k] /\ UNCHANGED <<rest, prompts, disk, op, calls>>
  BY DEF Claim
<1> HIDE DEF k
<1>5. jobs'[n] = k
  BY <1>1, <1>4 DEF FileTypes
<1>6. Onward(jobs[n], k) /\ KeepsPrompt(jobs[n])' /\ KeepsOutput(n, jobs[n])'
  BY <1>1, <1>2, <1>3, <1>4, <1>5 DEF Onward, KeepsPrompt, KeepsOutput
<1> QED BY <1>1, <1>3, <1>4, <1>6, RecordKeeps DEF rest, disk, FileTypes

LEMMA FinishFailedKeeps ==
    ASSUME FilesInv, NEW n \in DOMAIN jobs, FinishFailed(n)
    PROVE  FilesInv'
<1>1. FileTypes /\ AllCarried /\ KeepsPrompt(jobs[n])
  BY DEF FilesInv, Filed
<1>2. jobs[n] \in JobRecords /\ jobs[n].st = "running"
  BY <1>1 DEF FileTypes, FinishFailed
<1>3. PICK st \in {"failed", "pending"} :
        jobs' = [jobs EXCEPT ![n].st = st, ![n].left = Saved(n) \in tails]
  BY DEF FinishFailed
<1>4. UNCHANGED <<rest, prompts, disk, op, calls>>
  BY DEF FinishFailed
<1> DEFINE there == Saved(n) \in tails
<1> DEFINE k == [jobs[n] EXCEPT !.st = st, !.left = there]
<1>5. /\ k \in JobRecords /\ k.st = st /\ k.stem = jobs[n].stem /\ k.reads = jobs[n].reads
      /\ k.alone = jobs[n].alone /\ k.torn = jobs[n].torn /\ k.text = jobs[n].text
      /\ k.left = there /\ k.moved = jobs[n].moved
  <2>1. there \in BOOLEAN
    OBVIOUS
  <2> HIDE DEF there
  <2> QED BY <1>2, <2>1 DEF JobRecords
<1>6. jobs' = [jobs EXCEPT ![n] = k]
  BY <1>1, <1>3 DEF FileTypes
<1> HIDE DEF k
<1>7. jobs'[n] = k
  BY <1>1, <1>6 DEF FileTypes
<1>8. Saved(n)' = Saved(n) /\ tails' = tails
  BY <1>4, <1>5, <1>7 DEF Saved, disk
<1>9. Onward(jobs[n], k) /\ KeepsPrompt(jobs[n])' /\ KeepsOutput(n, jobs[n])'
  BY <1>1, <1>2, <1>4, <1>5, <1>7, <1>8 DEF Onward, KeepsPrompt, KeepsOutput
<1> QED BY <1>1, <1>4, <1>5, <1>6, <1>9, RecordKeeps DEF rest, disk, FileTypes

LEMMA SaveKeeps ==
    ASSUME FilesInv, NEW n \in DOMAIN jobs, Save(n)
    PROVE  FilesInv'
<1>1. FileTypes /\ AllCarried
  BY DEF FilesInv
<1>2. /\ tails \subseteq tails' /\ UNCHANGED <<rest, book, clips, op, calls>>
  BY DEF Save
<1>3. jobs[n] \in JobRecords /\ jobs' = [jobs EXCEPT ![n] = jobs[n]]
  BY <1>1, <1>2 DEF FileTypes, book
<1>4. \A m \in DOMAIN jobs : KeepsOutput(m, jobs[m])'
  BY <1>2, OthersKeep DEF book
<1>5. KeepsPrompt(jobs[n])'
  BY <1>2 DEF FilesInv, Filed, KeepsPrompt, book
<1>6. Onward(jobs[n], jobs[n])
  BY DEF Onward
<1> QED BY <1>1, <1>2, <1>3, <1>4, <1>5, <1>6, OneJobKeeps DEF rest, book, FileTypes

LEMMA FinishKeeps ==
    ASSUME FilesInv, NEW n \in DOMAIN jobs, Finish(n)
    PROVE  FilesInv'
<1> DEFINE k == [jobs[n] EXCEPT !.st = "done"]
<1>1. FileTypes /\ AllCarried /\ Filed
  BY DEF FilesInv
<1>2. jobs[n] \in JobRecords /\ jobs[n].st = "running"
  BY <1>1 DEF FileTypes, Finish
<1>3. /\ k \in JobRecords /\ k.st = "done" /\ k.stem = jobs[n].stem
      /\ k.reads = jobs[n].reads /\ k.alone = jobs[n].alone /\ k.moved = jobs[n].moved
  BY <1>2 DEF JobRecords
<1>4. jobs' = [jobs EXCEPT ![n] = k] /\ UNCHANGED <<rest, prompts, op, calls>>
  BY DEF Finish
<1> HIDE DEF k
<1>5. jobs'[n] = k /\ \A m \in DOMAIN jobs \ {n} : jobs'[m] = jobs[m]
  BY <1>1, <1>4 DEF FileTypes
<1>6. KeepsPrompt(jobs[n])' /\ Onward(jobs[n], k)
  BY <1>2, <1>3, <1>5 DEF Onward, KeepsPrompt
<1>7. KeepsOutput(n, jobs[n])'
  BY <1>3, <1>5 DEF KeepsOutput, Finish
<1>8. ASSUME NEW m \in DOMAIN jobs \ {n}, jobs[m].st # "gone" PROVE KeepsOutput(m, jobs[m])'
  <2>1. CASE ~jobs[m].alone
    BY <2>1, <1>5, <1>8 DEF KeepsOutput
  <2>2. CASE jobs[m].alone
    <3>1. n \in Known \ {m}
      BY <1>2, <1>8 DEF Known
    <3>2. jobs[n].stem.dir # jobs[m].stem.dir
      BY <1>1, <1>8, <2>2, <3>1 DEF Filed, OnItsOwn
    <3>3. ASSUME NEW c, c \in clips, c.dir = jobs[m].stem.dir PROVE c \in clips'
      BY <3>2, <3>3 DEF Finish
    <3>4. Saved(m) \in tails => Saved(m) \in tails'
      BY <3>2 DEF Finish, Saved
    <3>5. [dir |-> jobs[m].stem.dir, tag |-> jobs[m].stem.tag, by |-> m].dir = jobs[m].stem.dir
      OBVIOUS
    <3> QED BY <1>4, <1>5, <1>8, <3>3, <3>4, <3>5, OthersKeep
  <2> QED BY <2>1, <2>2
<1> QED BY <1>1, <1>3, <1>4, <1>6, <1>7, <1>8, OneJobKeeps DEF rest, FileTypes

LEMMA CrashKeeps ==
    ASSUME FilesInv, Crash
    PROVE  FilesInv'
<1>1. FileTypes /\ AllCarried
  BY DEF FilesInv
<1>2. /\ op' = [r \in Requests |-> Idle] /\ UNCHANGED <<rest, disk>> /\ calls' \in Nat
  BY <1>1 DEF Crash, FileTypes
<1>3. CASE UNCHANGED book
  BY <1>1, <1>2, <1>3, NothingKeeps DEF rest, book, disk, FileTypes
<1>4. ASSUME NEW r \in Requests, Editable(r), op[r].text # NoText, prompts' = NewPrompt(r),
             jobs' = [jobs EXCEPT ![op[r].job].torn = TRUE]
      PROVE  FilesInv'
  <2>0. PICK n : n = op[r].job
    OBVIOUS
  <2> DEFINE k == [jobs[n] EXCEPT !.torn = TRUE]
  <2>1. n \in DOMAIN jobs /\ jobs[n] \in JobRecords /\ op[r] \in OpRecords
    BY <1>1, <1>4, <2>0, OpIs DEF FileTypes, Carried, Filers, Editable
  <2>2. /\ k \in JobRecords /\ k.st = "pending" /\ k.stem = jobs[n].stem /\ k.torn
        /\ k.reads = jobs[n].reads /\ k.alone = jobs[n].alone /\ k.moved = jobs[n].moved
    BY <2>0, <2>1, <1>4 DEF JobRecords, Editable
  <2>3. jobs' = [jobs EXCEPT ![n] = k]
    BY <1>4, <2>0
  <2> HIDE DEF k
  <2>4. jobs'[n] = k
    BY <1>1, <2>1, <2>3 DEF FileTypes
  <2>5. Onward(jobs[n], k) /\ KeepsPrompt(jobs[n])' /\ KeepsOutput(n, jobs[n])'
    BY <1>4, <2>0, <2>2, <2>4 DEF Onward, KeepsPrompt, KeepsOutput, Editable
  <2>6. op[r].text \in Nat
    BY <2>1 DEF OpRecords
  <2>7. \E t \in Nat : prompts' = [prompts EXCEPT ![n] = t]
    BY <1>4, <2>0, <2>6 DEF NewPrompt
  <2>8. /\ op' \in [Requests -> OpRecords]
        /\ \A s \in Requests : op'[s].pc # "tree" /\ Carried(op'[s])
    BY <1>2, IdleCarries
  <2> QED BY <1>1, <1>2, <2>1, <2>2, <2>3, <2>5, <2>7, <2>8, RecordKeeps
          DEF rest, disk, FileTypes
<1> QED BY <1>3, <1>4 DEF Crash

-----------------------------------------------------------------------------
(* A job is filed, or edited.                                              *)

\* Who shares the directory from now on is not on his own, and nothing else is said
\* of him.
LEMMA MeetIs ==
    ASSUME FileTypes, NEW d
    PROVE  /\ Meet(jobs, d) \in Seq(JobRecords) /\ Len(Meet(jobs, d)) = Len(jobs)
           /\ \A n \in DOMAIN jobs :
                /\ Meet(jobs, d)[n] \in JobRecords
                /\ \/ Meet(jobs, d)[n] = jobs[n] /\ n \notin Mates(d)
                   \/ Meet(jobs, d)[n] = [jobs[n] EXCEPT !.alone = FALSE]
<1>1. \A n \in DOMAIN jobs : jobs[n] \in JobRecords
  BY DEF FileTypes
<1>2. \A n \in DOMAIN jobs : [jobs[n] EXCEPT !.alone = FALSE] \in JobRecords
  BY <1>1 DEF JobRecords
<1>3. \A n \in DOMAIN jobs :
        /\ Meet(jobs, d)[n] \in JobRecords
        /\ \/ Meet(jobs, d)[n] = jobs[n] /\ n \notin Mates(d)
           \/ Meet(jobs, d)[n] = [jobs[n] EXCEPT !.alone = FALSE]
  BY <1>1, <1>2 DEF Meet
<1>4. Meet(jobs, d) \in [1..Len(jobs) -> JobRecords]
  <2>1. DOMAIN jobs = 1..Len(jobs)
    BY DEF FileTypes
  <2> QED BY <1>3, <2>1 DEF Meet
<1>5. Len(jobs) \in Nat
  BY DEF FileTypes
<1> HIDE DEF Meet
<1>6. Meet(jobs, d) \in Seq(JobRecords) /\ Len(Meet(jobs, d)) = Len(jobs)
  BY <1>4, <1>5
<1> QED BY <1>3, <1>6

LEMMA NoMates ==
    ASSUME NEW d, Mates(d) = {}
    PROVE  /\ \A n \in Known : jobs[n].stem.dir # d
           /\ \A r \in Requests : op[r].pc = "tree" => op[r].stem.dir # d
BY DEF Mates

\* What a job says otherwise is as before, and it is on its own only if it was.
Alike(j, k) ==
    /\ k.st = j.st /\ k.stem = j.stem /\ k.text = j.text /\ k.reads = j.reads
    /\ k.left = j.left /\ k.doomed = j.doomed /\ k.torn = j.torn /\ k.moved = j.moved
    /\ k.alone => j.alone

LEMMA MeetIsAlike ==
    ASSUME FileTypes, NEW d
    PROVE  \A n \in DOMAIN jobs :
             /\ Alike(jobs[n], Meet(jobs, d)[n])
             /\ Meet(jobs, d)[n].alone => n \notin Mates(d)
<1> SUFFICES ASSUME NEW n \in DOMAIN jobs
             PROVE  /\ Alike(jobs[n], Meet(jobs, d)[n])
                    /\ Meet(jobs, d)[n].alone => n \notin Mates(d)
  OBVIOUS
<1>1. jobs[n] \in JobRecords
  BY DEF FileTypes
<1> HIDE DEF Meet
<1>2. CASE Meet(jobs, d)[n] = jobs[n] /\ n \notin Mates(d)
  BY <1>2 DEF Alike
<1>3. CASE Meet(jobs, d)[n] = [jobs[n] EXCEPT !.alone = FALSE]
  BY <1>1, <1>3 DEF Alike, JobRecords
<1> QED BY <1>2, <1>3, MeetIs

\* The jobs that are there already keep what they are to keep beside the one that is
\* filed or edited, n, now in the directory d.
LEMMA BesideKeep ==
    ASSUME FilesInv, NEW n \in Nat, NEW d, NEW m \in DOMAIN jobs, m # n,
           m \in DOMAIN jobs', jobs'[m].stem = jobs[m].stem, Alike(jobs[m], jobs'[m]),
           prompts'[m] = prompts[m],
           UNCHANGED <<outdir, clips, tails>>,
           \A q \in Known' : q = n \/ (q \in Known /\ jobs'[q].stem = jobs[q].stem),
           jobs'[n].stem.dir = d,
           (n \in Known /\ d = jobs[n].stem.dir)
              \/ (jobs'[m].alone => m \notin Mates(d)),
           \A s \in Requests : op'[s].pc = "tree" => op'[s] = op[s]
    PROVE  /\ Placed(jobs[m])' /\ jobs'[m].reads \in {NoJob, m}
           /\ KeepsPrompt(jobs[m])' /\ KeepsOutput(m, jobs[m])'
           /\ jobs'[m].st # "gone" /\ jobs'[m].alone => OnItsOwn(m)'
<1>1. /\ Placed(jobs[m]) /\ jobs[m].reads \in {NoJob, m}
      /\ KeepsPrompt(jobs[m]) /\ KeepsOutput(m, jobs[m])
      /\ jobs[m].st # "gone" /\ jobs[m].alone => OnItsOwn(m)
  BY DEF FilesInv, Filed
<1>2. Placed(jobs[m])' /\ jobs'[m].reads \in {NoJob, m}
  BY <1>1 DEF Placed, Stemmed, Inside, Alike
<1>3. KeepsPrompt(jobs[m])'
  BY <1>1 DEF KeepsPrompt, Alike
<1>4. Saved(m)' = Saved(m)
  BY DEF Saved
<1>5. KeepsOutput(m, jobs[m])'
  BY <1>1, <1>4 DEF KeepsOutput, Alike
<1>6. ASSUME jobs'[m].st # "gone", jobs'[m].alone PROVE OnItsOwn(m)'
  <2>1. OnItsOwn(m) /\ m \in Known
    BY <1>1, <1>6 DEF Alike, Known
  <2>2. d # jobs[m].stem.dir
    <3>1. CASE n \in Known /\ d = jobs[n].stem.dir
      BY <2>1, <3>1 DEF OnItsOwn
    <3>2. CASE m \notin Mates(d)
      BY <2>1, <3>2 DEF Mates
    <3> QED BY <1>6, <3>1, <3>2
  <2>3. \A q \in Known' \ {m} : jobs'[q].stem.dir # jobs'[m].stem.dir
    BY <2>1, <2>2 DEF OnItsOwn
  <2>4. Apart(jobs[m].stem.dir)'
    BY <2>1 DEF OnItsOwn, Apart
  <2> QED BY <2>1, <2>3, <2>4 DEF OnItsOwn
<1> QED BY <1>2, <1>3, <1>5, <1>6

\* What a request that files a job asks for.
LEMMA CandidateIs ==
    ASSUME FileTypes, AllCarried, NEW r \in Requests, op[r].pc \in Filers
    PROVE  Candidate(r) \in Stems /\ Stemmed(Candidate(r))
<1>1. op[r] \in OpRecords /\ Stemmed(op[r].stem)
  BY DEF FileTypes, AllCarried, Carried, Filers
<1>2. op[r].stem \in Stems /\ op[r].try \in Nat
  BY <1>1 DEF OpRecords
<1>3. CASE op[r].pc \in {"submit", "file"}
  BY <1>1, <1>2, <1>3 DEF Candidate
<1>4. CASE op[r].pc \notin {"submit", "file"}
  <2> DEFINE t == Append(op[r].stem.tag, op[r].try)
  <2>1. op[r].stem.tag \in Tagged
    BY <1>1 DEF Stemmed
  <2>2. t \in Tagged /\ t \in Seq(STRING \cup Nat)
    <3>1. t \in Tagged
      BY <1>2, <2>1, CopyTag
    <3> QED BY <3>1 DEF Tagged
  <2>3. Candidate(r) = [op[r].stem EXCEPT !.tag = t]
    BY <1>4 DEF Candidate
  <2> HIDE DEF t
  <2>4. /\ Candidate(r) \in Stems /\ Candidate(r).tag = t
        /\ Candidate(r).dir = op[r].stem.dir
    BY <1>2, <2>2, <2>3 DEF Stems
  <2> QED BY <1>1, <2>2, <2>4 DEF Stemmed
<1> QED BY <1>3, <1>4

\* What hangs from the directory that was checked is in the server's, unless what
\* was checked is the server's directory itself.
LEMMA MovedIs ==
    ASSUME FileTypes, NEW r \in Requests, NEW c \in Seq(Names), c = op[r].checked, Inside(c),
           NEW d \in Seq(Names), d # <<>>, ~Moved(r, d)
    PROVE  Inside(d)
<1>1. Front(d) = Front(c) /\ c # outdir
  BY DEF Moved
<1>2. outdir \in Seq(Names) /\ outdir # <<>>
  BY FilesAssumption DEF FileTypes
<1>3. /\ Len(outdir) \in Nat \ {0} /\ Len(c) \in Nat \ {0} /\ Len(d) \in Nat \ {0}
      /\ Len(outdir) <= Len(c)
  BY <1>2, InsideIs, EmptySeq
<1>4. Len(outdir) < Len(c)
  BY <1>1, <1>2, <1>3, PrefixIs DEF Inside
<1>5. \A e \in Seq(Names) : e # <<>> =>
        /\ Len(Front(e)) = Len(e) - 1
        /\ \A i \in 1..(Len(e) - 1) : Front(e)[i] = e[i]
  <2> SUFFICES ASSUME NEW e \in Seq(Names), e # <<>>
               PROVE  /\ Len(Front(e)) = Len(e) - 1
                      /\ \A i \in 1..(Len(e) - 1) : Front(e)[i] = e[i]
    OBVIOUS
  <2>1. Len(e) \in Nat \ {0} /\ \A i \in 1..(Len(e) - 1) : e[i] \in Names
    BY EmptySeq
  <2>2. 1 \in Int /\ Len(e) - 1 \in Int
    BY <2>1
  <2> DEFINE f == SubSeq(e, 1, Len(e) - 1)
  <2>3. /\ Len(f) = IF 1 <= Len(e) - 1 THEN (Len(e) - 1) - 1 + 1 ELSE 0
        /\ \A i \in 1..(Len(e) - 1) - 1 + 1 : f[i] = e[1 + i - 1]
    BY <2>1, <2>2, SubSeqProperties
  <2>4. Front(e) = f
    BY DEF Front
  <2> HIDE DEF f
  <2> QED BY <2>1, <2>3, <2>4
<1>6. Len(d) = Len(c) /\ \A i \in 1..(Len(c) - 1) : d[i] = c[i]
  BY <1>1, <1>3, <1>5, EmptySeq
<1>7. \A i \in 1..Len(outdir) : outdir[i] = d[i]
  BY <1>3, <1>4, <1>6, InsideIs
<1>8. SubSeq(d, 1, Len(outdir)) = SubSeq(outdir, 1, Len(outdir))
  BY <1>2, <1>3, <1>4, <1>6, <1>7
<1> QED BY <1>3, <1>4, <1>6, <1>8 DEF Inside, IsPrefix

\* A job is filed.
Filing(r, asked, stem) ==
    /\ jobs' = Append(Meet(jobs, stem.dir),
                 [st |-> "pending", stem |-> stem, text |-> op[r].text,
                  reads |-> IF op[r].text = NoText THEN op[r].reads ELSE Len(jobs) + 1,
                  left |-> FALSE, doomed |-> FALSE, torn |-> FALSE,
                  moved |-> Moved(r, stem.dir),
                  alone |-> Mates(stem.dir) = {} /\ Apart(asked.dir) /\ ~Orphan(asked.dir)])
    /\ prompts' = Append(prompts, op[r].text)
    /\ Leave(r) /\ UNCHANGED <<rest, disk, calls>>

LEMMA FilingKeeps ==
    ASSUME FilesInv, NEW r \in Requests, op[r].pc \in {"file", "file_copy"},
           NEW asked, asked = Candidate(r), NEW stem, stem = Relocate(asked),
           Filing(r, asked, stem)
    PROVE  FilesInv'
<1>0. PICK d, id : d = stem.dir /\ id = Len(jobs) + 1
  OBVIOUS
<1> DEFINE lone == Mates(stem.dir) = {} /\ Apart(asked.dir) /\ ~Orphan(asked.dir)
<1> DEFINE reads == IF op[r].text = NoText THEN op[r].reads ELSE Len(jobs) + 1
<1> DEFINE new == [st |-> "pending", stem |-> stem, text |-> op[r].text, reads |-> reads,
                   left |-> FALSE, doomed |-> FALSE, torn |-> FALSE,
                   moved |-> Moved(r, stem.dir), alone |-> lone]
<1>1. FileTypes /\ AllCarried /\ Filed
  BY DEF FilesInv
<1>2. /\ op[r] \in OpRecords /\ op[r].text \in Nat /\ op[r].reads \in Nat
      /\ op[r].text = NoText => op[r].reads = NoJob
      /\ Len(jobs) \in Nat /\ id \in Nat /\ DOMAIN jobs = 1..Len(jobs)
  <2>1. op[r] \in OpRecords
    BY <1>1 DEF FileTypes
  <2>2. op[r].text \in Nat /\ op[r].reads \in Nat
    BY <2>1 DEF OpRecords
  <2>3. op[r].text = NoText => op[r].reads = NoJob
    BY <1>1 DEF AllCarried, Carried, Filers
  <2>4. Len(jobs) \in Nat /\ DOMAIN jobs = 1..Len(jobs)
    BY <1>1 DEF FileTypes
  <2> QED BY <2>1, <2>2, <2>3, <2>4, <1>0
<1>3. asked \in Stems /\ Stemmed(asked)
  BY <1>1, CandidateIs DEF Filers
<1>4. /\ stem \in Stems /\ Stemmed(stem) /\ (lone => Apart(stem.dir))
      /\ Inside(stem.dir) \/ Moved(r, stem.dir)
  <2>1. op[r] \in OpRecords /\ Inside(op[r].checked)
    BY <1>1 DEF FileTypes, AllCarried, Carried, Filers
  <2>2. /\ stem.dir = Append(BaseOutdir(asked.dir), <<minute, Slug(stem.tag)>>)
        /\ stem \in Stems /\ Stemmed(stem)
    BY <1>1, <1>3, RelocateIs DEF Relocate, Stems
  <2>3. op[r].checked \in Seq(Names) /\ stem.dir \in Seq(Names)
    BY <2>1, <2>2 DEF OpRecords, Stems
  <2> QED BY <1>1, <1>3, <2>1, <2>2, <2>3, RelocateIs, MovedIs DEF Stemmed
<1>5. lone \in BOOLEAN /\ reads \in Nat /\ reads \in {NoJob, id}
      /\ (reads # NoJob => reads = id)
  BY <1>0, <1>2
<1>6. lone => Mates(d) = {}
  BY <1>0
<1> HIDE DEF lone, reads
<1>7. /\ new \in JobRecords /\ new.st = "pending" /\ new.stem = stem /\ new.reads = reads
      /\ new.text = op[r].text /\ new.alone = lone /\ new.moved = Moved(r, stem.dir)
  BY <1>2, <1>4, <1>5 DEF JobRecords, Moved
<1>8. jobs' = Append(Meet(jobs, d), new)
  BY <1>0 DEF lone, reads, Filing
<1> HIDE DEF new
<1>9. /\ jobs' \in Seq(JobRecords) /\ Len(jobs') = id /\ jobs'[id] = new
      /\ \A n \in DOMAIN jobs : n \in DOMAIN jobs' /\ jobs'[n] = Meet(jobs, d)[n]
      /\ DOMAIN jobs' = DOMAIN jobs \cup {id} /\ id \notin DOMAIN jobs
  <2>1. Meet(jobs, d) \in Seq(JobRecords) /\ Len(Meet(jobs, d)) = Len(jobs)
    BY <1>1, MeetIs
  <2>2. /\ Append(Meet(jobs, d), new) \in Seq(JobRecords)
        /\ Len(Append(Meet(jobs, d), new)) = Len(jobs) + 1
        /\ \A i \in 1..Len(jobs) : Append(Meet(jobs, d), new)[i] = Meet(jobs, d)[i]
        /\ Append(Meet(jobs, d), new)[Len(jobs) + 1] = new
    BY <2>1, <1>7, AppendProperties
  <2>3. DOMAIN jobs' = 1..(Len(jobs) + 1)
    BY <2>2, <1>8
  <2> QED BY <2>2, <2>3, <1>0, <1>2, <1>8
<1>10. /\ prompts' \in Seq(Nat) /\ Len(prompts') = id /\ prompts'[id] = op[r].text
       /\ \A n \in DOMAIN jobs : prompts'[n] = prompts[n]
  <2>1. prompts \in Seq(Nat) /\ Len(prompts) = Len(jobs) /\ prompts' = Append(prompts, op[r].text)
    BY <1>1 DEF FileTypes, Filing
  <2>2. /\ prompts' \in Seq(Nat) /\ Len(prompts') = Len(prompts) + 1
        /\ \A i \in 1..Len(prompts) : prompts'[i] = prompts[i]
        /\ prompts'[Len(prompts) + 1] = op[r].text
    BY <2>1, <1>2, AppendProperties
  <2> QED BY <2>1, <2>2, <1>0, <1>2
<1>11. \A n \in DOMAIN jobs : /\ Alike(jobs[n], jobs'[n]) /\ jobs'[n].stem = jobs[n].stem
                              /\ jobs'[n].alone => n \notin Mates(d)
  BY <1>1, <1>9, MeetIsAlike DEF Alike
<1>12. /\ op' \in [Requests -> OpRecords] /\ op'[r].pc # "tree"
       /\ \A s \in Requests : op'[s] = op[s] \/ op'[s] = Idle
       /\ \A s \in Requests : op'[s].pc = "tree" => op'[s] = op[s]
  BY <1>1, IdleCarries DEF FileTypes, Leave, Filing
<1>13. FileTypes'
  BY <1>1, <1>9, <1>10, <1>12 DEF FileTypes, rest, Filing
<1>14. AllCarried'
  <2> SUFFICES ASSUME NEW s \in Requests PROVE Carried(op[s])'
    BY DEF AllCarried
  <2>1. Carried(op'[s])
    BY <1>1, <1>12, IdleCarries DEF AllCarried
  <2>2. outdir' = outdir
    BY DEF rest, Filing
  <2> QED BY <2>1, <2>2, <1>9, <1>11 DEF Carried, Filers, Placed, Stemmed, Inside, Alike
<1>15. \A q \in Known' : q = id \/ (q \in Known /\ jobs'[q].stem = jobs[q].stem)
  BY <1>9, <1>11 DEF Known, Alike
<1>16. ASSUME NEW m \in DOMAIN jobs
       PROVE  /\ Placed(jobs[m])' /\ jobs'[m].reads \in {NoJob, m}
              /\ KeepsPrompt(jobs[m])' /\ KeepsOutput(m, jobs[m])'
              /\ jobs'[m].st # "gone" /\ jobs'[m].alone => OnItsOwn(m)'
  <2>1. m # id /\ m \in DOMAIN jobs' /\ jobs'[id].stem.dir = d
    BY <1>0, <1>7, <1>9
  <2>2. UNCHANGED <<outdir, clips, tails>>
    BY DEF rest, disk, Filing
  <2> QED BY <2>1, <2>2, <1>2, <1>10, <1>11, <1>12, <1>15, BesideKeep
<1>17. /\ Placed(jobs[id])' /\ jobs'[id].reads \in {NoJob, id}
       /\ KeepsPrompt(jobs[id])' /\ KeepsOutput(id, jobs[id])'
       /\ jobs'[id].st # "gone" /\ jobs'[id].alone => OnItsOwn(id)'
  <2>1. Placed(jobs[id])' /\ jobs'[id].reads \in {NoJob, id}
    BY <1>4, <1>5, <1>7, <1>9 DEF Placed, Stemmed, Inside, rest, Filing
  <2>2. KeepsPrompt(jobs[id])'
    BY <1>5, <1>7, <1>9, <1>10 DEF KeepsPrompt
  <2>3. KeepsOutput(id, jobs[id])'
    BY <1>7, <1>9 DEF KeepsOutput
  <2>4. ASSUME jobs'[id].alone PROVE OnItsOwn(id)'
    <3>1. Mates(d) = {} /\ Apart(stem.dir) /\ jobs'[id].stem.dir = d
      BY <2>4, <1>0, <1>4, <1>6, <1>7, <1>9
    <3>0. outdir' = outdir
      BY DEF rest, Filing
    <3>2. Apart(jobs[id].stem.dir)'
      BY <3>0, <3>1, <1>0 DEF Apart
    <3>3. \A q \in Known' \ {id} : jobs'[q].stem.dir # d
      BY <3>1, <1>15, NoMates
    <3>4. \A s \in Requests : op'[s].pc = "tree" => op'[s].stem.dir # d
      BY <3>1, <1>12, NoMates
    <3> QED BY <3>1, <3>2, <3>3, <3>4 DEF OnItsOwn
  <2> QED BY <2>1, <2>2, <2>3, <2>4
<1>18. Filed'
  BY <1>9, <1>16, <1>17 DEF Filed
<1> QED BY <1>13, <1>14, <1>18 DEF FilesInv

LEMMA CheckRootsKeeps ==
    ASSUME FilesInv, NEW r \in Requests, CheckRoots(r)
    PROVE  FilesInv'
<1>0. PICK there : there = Relocate(Candidate(r)).dir
  OBVIOUS
<1>1. FileTypes /\ AllCarried
  BY DEF FilesInv
<1>2. op[r].pc \in {"submit", "duplicate"} /\ UNCHANGED <<rest, book, disk, calls>>
  BY DEF CheckRoots
<1>3. CASE Leave(r)
  BY <1>1, <1>2, <1>3, LeaveKeeps DEF rest, book, disk, FileTypes
<1>4. ASSUME Inside(there), NEW at, at = IF op[r].pc = "submit" THEN "file" ELSE "file_copy",
             op' = [op EXCEPT ![r].checked = there, ![r].pc = at]
      PROVE  FilesInv'
  <2> DEFINE o == [op[r] EXCEPT !.checked = there, !.pc = at]
  <2>1. op[r] \in OpRecords /\ Carried(op[r]) /\ at \in {"file", "file_copy"}
    BY <1>1, <1>4 DEF FileTypes, AllCarried
  <2>2. there \in Seq(Names)
    <3>1. Relocate(Candidate(r)) \in Stems
      BY <1>1, <1>2, CandidateIs, RelocateIs DEF Filers
    <3> QED BY <3>1, <1>0 DEF Stems
  <2>3. /\ o \in OpRecords /\ o.pc = at /\ o.stem = op[r].stem /\ o.reads = op[r].reads
        /\ o.text = op[r].text /\ o.job = op[r].job /\ o.checked = there
    BY <2>1, <2>2 DEF OpRecords
  <2>4. op' = [op EXCEPT ![r] = o]
    BY <1>1, <1>4 DEF FileTypes
  <2> HIDE DEF o
  <2>5. Carried(o) /\ o.pc # "tree"
    BY <2>1, <2>3, <1>2, <1>4 DEF Carried, Filers
  <2> QED BY <1>1, <1>2, <2>3, <2>4, <2>5, RequestKeeps DEF rest, book, disk, FileTypes
<1> QED BY <1>0, <1>3, <1>4 DEF CheckRoots

LEMMA SubmitKeeps ==
    ASSUME FilesInv, NEW r \in Requests, Submit(r)
    PROVE  FilesInv'
<1>1. FileTypes /\ AllCarried
  BY DEF FilesInv
<1>2. PICK asked, stem : asked = Candidate(r) /\ stem = Relocate(asked)
  OBVIOUS
<1>3. op[r].pc \in {"file", "file_copy"} /\ UNCHANGED <<rest, disk, calls>>
  BY DEF Submit
<1>4. CASE Leave(r) /\ UNCHANGED book
  BY <1>1, <1>3, <1>4, LeaveKeeps DEF rest, book, disk, FileTypes
<1>5. CASE op' = [op EXCEPT ![r].pc = "duplicate", ![r].try = @ + 1] /\ UNCHANGED book
  <2> DEFINE next == op[r].try + 1
  <2> DEFINE o == [op[r] EXCEPT !.pc = "duplicate", !.try = next]
  <2>1. op[r] \in OpRecords /\ Carried(op[r]) /\ next \in Nat
    BY OpIs DEF OpRecords
  <2>2. op' = [op EXCEPT ![r] = o]
    BY <1>1, <1>5 DEF FileTypes
  <2> HIDE DEF next
  <2>3. /\ o \in OpRecords /\ o.pc = "duplicate" /\ o.stem = op[r].stem /\ o.reads = op[r].reads
        /\ o.text = op[r].text /\ o.job = op[r].job
    BY <2>1 DEF OpRecords
  <2> HIDE DEF o
  <2>4. Carried(o) /\ o.pc # "tree"
    BY <2>1, <2>3, <1>3 DEF Carried, Filers
  <2> QED BY <1>1, <1>3, <1>5, <2>2, <2>3, <2>4, RequestKeeps DEF rest, book, disk, FileTypes
<1>6. CASE /\ jobs' = Append(Meet(jobs, stem.dir),
                     [st |-> "pending", stem |-> stem, text |-> op[r].text,
                      reads |-> IF op[r].text = NoText THEN op[r].reads ELSE Len(jobs) + 1,
                      left |-> FALSE, doomed |-> FALSE, torn |-> FALSE,
                      moved |-> Moved(r, stem.dir),
                      alone |-> Mates(stem.dir) = {} /\ Apart(asked.dir) /\ ~Orphan(asked.dir)])
           /\ prompts' = Append(prompts, op[r].text)
           /\ Leave(r)
  BY <1>2, <1>3, <1>6, FilingKeeps DEF Filing
<1> QED BY <1>2, <1>4, <1>5, <1>6 DEF Submit

\* A waiting job is edited.
LEMMA EditKeeps ==
    ASSUME FilesInv, NEW r \in Requests, Editable(r), Leave(r),
           jobs' = Edited(r), prompts' = NewPrompt(r), UNCHANGED <<rest, disk, calls>>
    PROVE  FilesInv'
<1>0. PICK n, o : n = op[r].job /\ o = op[r]
  OBVIOUS
<1> DEFINE d == o.stem.dir
<1> DEFINE on == o.text # NoText
<1> DEFINE met == IF d = jobs[n].stem.dir THEN jobs ELSE Meet(jobs, d)
<1> DEFINE lone == met[n].alone /\ (d = jobs[n].stem.dir \/ (Mates(d) = {} /\ Apart(d)))
<1> DEFINE k == [met[n] EXCEPT !.stem = o.stem,
                               !.text = IF on THEN o.text ELSE @,
                               !.reads = IF on THEN n ELSE NoJob,
                               !.torn = @ /\ ~on, !.moved = FALSE,
                               !.alone = lone]
<1>1. FileTypes /\ AllCarried /\ Filed
  BY DEF FilesInv
<1>2. /\ o \in OpRecords /\ o.pc = "update" /\ n = o.job /\ n \in DOMAIN jobs /\ n \in Nat
      /\ jobs[n] \in JobRecords /\ jobs[n].st = "pending"
      /\ Stemmed(o.stem) /\ Inside(o.stem.dir) /\ o.stem \in Stems /\ o.text \in Nat
  <2>1. o \in OpRecords /\ Carried(o) /\ n = o.job /\ o.pc = "update" /\ jobs[n].st = "pending"
    BY <1>0, <1>1 DEF FileTypes, AllCarried, Editable
  <2>2. n \in DOMAIN jobs /\ Stemmed(o.stem) /\ Inside(o.stem.dir)
    BY <2>1 DEF Carried, Filers
  <2>3. jobs[n] \in JobRecords /\ n \in Nat
    BY <2>2, <1>1 DEF FileTypes
  <2>4. o.stem \in Stems /\ o.text \in Nat
    BY <2>1 DEF OpRecords
  <2> QED BY <2>1, <2>2, <2>3, <2>4
<1>3. /\ met \in Seq(JobRecords) /\ Len(met) = Len(jobs) /\ DOMAIN met = DOMAIN jobs
      /\ \A m \in DOMAIN jobs :
           /\ met[m] \in JobRecords /\ Alike(jobs[m], met[m])
           /\ d # jobs[n].stem.dir /\ met[m].alone => m \notin Mates(d)
  <2>1. CASE d = jobs[n].stem.dir
    <3>1. \A m \in DOMAIN jobs : jobs[m] \in JobRecords /\ Alike(jobs[m], jobs[m])
      BY <1>1 DEF FileTypes, Alike
    <3> QED BY <2>1, <3>1, <1>1 DEF FileTypes
  <2>2. CASE d # jobs[n].stem.dir
    <3>1. met = Meet(jobs, d)
      BY <2>2
    <3>2. DOMAIN jobs = 1..Len(jobs)
      BY <1>1 DEF FileTypes
    <3> HIDE DEF met
    <3>3. Meet(jobs, d) \in Seq(JobRecords) /\ Len(Meet(jobs, d)) = Len(jobs)
      BY <1>1, MeetIs
    <3>4. DOMAIN Meet(jobs, d) = 1..Len(jobs)
      BY <3>3
    <3>5. \A m \in DOMAIN jobs :
            /\ Meet(jobs, d)[m] \in JobRecords /\ Alike(jobs[m], Meet(jobs, d)[m])
            /\ Meet(jobs, d)[m].alone => m \notin Mates(d)
      BY <1>1, MeetIs, MeetIsAlike
    <3> QED BY <3>1, <3>2, <3>3, <3>4, <3>5
  <2> QED BY <2>1, <2>2
<1>4. jobs' = [met EXCEPT ![n] = k]
  <2>1. jobs' = [met EXCEPT ![n].stem = o.stem,
                    ![n].text = IF on THEN o.text ELSE @,
                    ![n].reads = IF on THEN n ELSE NoJob,
                    ![n].torn = @ /\ ~on, ![n].moved = FALSE,
                    ![n].alone = @ /\ (d = jobs[n].stem.dir
                                       \/ (Mates(d) = {} /\ Apart(d)))]
    BY <1>0 DEF Edited
  <2> HIDE DEF on, d, met
  <2> QED BY <2>1, <1>2, <1>3
<1>5. /\ k \in JobRecords /\ k.st = "pending" /\ k.stem = o.stem
      /\ k.text = (IF on THEN o.text ELSE jobs[n].text) /\ k.reads = (IF on THEN n ELSE NoJob)
      /\ k.alone = lone
  <2>1. lone \in BOOLEAN /\ (IF on THEN n ELSE NoJob) \in Nat
    BY <1>2, <1>3 DEF JobRecords, NoJob
  <2>2. met[n] \in JobRecords /\ met[n].st = "pending" /\ met[n].text = jobs[n].text
    BY <1>2, <1>3 DEF Alike
  <2> DEFINE text == IF on THEN o.text ELSE met[n].text
  <2> DEFINE reads == IF on THEN n ELSE NoJob
  <2> DEFINE split == met[n].torn /\ ~on
  <2>3. text \in Nat /\ split \in BOOLEAN /\ text = IF on THEN o.text ELSE jobs[n].text
    BY <1>2, <2>2 DEF JobRecords
  <2>4. k = [met[n] EXCEPT !.stem = o.stem, !.text = text, !.reads = reads, !.torn = split,
                           !.moved = FALSE, !.alone = lone]
    OBVIOUS
  <2> HIDE DEF met, lone, d, k, text, reads, split, on
  <2>5. reads \in Nat /\ lone \in BOOLEAN
    BY <2>1 DEF reads
  <2>6. met[n] \in JobRecords /\ o.stem \in Stems /\ text \in Nat /\ split \in BOOLEAN
    BY <1>2, <2>2, <2>3
  <2>7. /\ k.st = met[n].st /\ k.stem = o.stem /\ k.text = text /\ k.reads = reads
        /\ k.alone = lone
    BY <2>4, <2>6 DEF JobRecords
  <2>8. k \in JobRecords
    BY <2>4, <2>5, <2>6 DEF JobRecords
  <2> QED BY <2>2, <2>3, <2>7, <2>8 DEF reads
<1> HIDE DEF k, met, on
<1>6. /\ jobs' \in Seq(JobRecords) /\ Len(jobs') = Len(jobs) /\ DOMAIN jobs' = DOMAIN jobs
      /\ jobs'[n] = k /\ \A m \in DOMAIN jobs \ {n} : jobs'[m] = met[m]
  BY <1>2, <1>3, <1>4, <1>5
<1>7. /\ prompts' \in Seq(Nat) /\ Len(prompts') = Len(prompts)
      /\ on => prompts'[n] = o.text
      /\ \A m \in DOMAIN jobs \ {n} : prompts'[m] = prompts[m]
  <2>1. prompts \in Seq(Nat) /\ Len(prompts) = Len(jobs)
    BY <1>1 DEF FileTypes
  <2>2. prompts' = IF on THEN [prompts EXCEPT ![n] = o.text] ELSE prompts
    BY <1>0 DEF NewPrompt, on
  <2>3. n \in DOMAIN prompts
    BY <1>1, <1>2, <2>1 DEF FileTypes
  <2> QED BY <1>2, <2>1, <2>2, <2>3
<1>8. \A m \in DOMAIN jobs \ {n} :
        /\ Alike(jobs[m], jobs'[m]) /\ jobs'[m].stem = jobs[m].stem
        /\ d # jobs[n].stem.dir /\ jobs'[m].alone => m \notin Mates(d)
  BY <1>3, <1>6 DEF Alike
<1>9. /\ op' \in [Requests -> OpRecords]
      /\ \A s \in Requests : op'[s] = op[s] \/ op'[s] = Idle
      /\ \A s \in Requests : op'[s].pc = "tree" => op'[s] = op[s]
  BY <1>1, IdleCarries DEF FileTypes, Leave
<1>10. UNCHANGED <<outdir, minute, source, clips, tails, calls>>
  BY DEF rest, disk
<1>11. FileTypes'
  BY <1>1, <1>6, <1>7, <1>9, <1>10 DEF FileTypes
<1>12. AllCarried'
  <2> SUFFICES ASSUME NEW s \in Requests PROVE Carried(op[s])'
    BY DEF AllCarried
  <2>1. Carried(op'[s])
    BY <1>1, <1>9, IdleCarries DEF AllCarried
  <2>2. op'[s].pc = "tree" => op'[s].job # n
    BY <2>1, <1>2 DEF Carried, Filers
  <2> QED BY <2>1, <2>2, <1>6, <1>8, <1>10 DEF Carried, Filers, Placed, Stemmed, Inside, Alike
<1>13. \A q \in Known' : q = n \/ (q \in Known /\ jobs'[q].stem = jobs[q].stem)
  BY <1>6, <1>8 DEF Known, Alike
<1>14. n \in Known
  BY <1>2 DEF Known
<1>15. ASSUME NEW m \in DOMAIN jobs \ {n}
       PROVE  /\ Placed(jobs[m])' /\ jobs'[m].reads \in {NoJob, m}
              /\ KeepsPrompt(jobs[m])' /\ KeepsOutput(m, jobs[m])'
              /\ jobs'[m].st # "gone" /\ jobs'[m].alone => OnItsOwn(m)'
  <2>1. jobs'[n].stem.dir = d /\ m \in DOMAIN jobs'
    BY <1>5, <1>6
  <2>2. (n \in Known /\ d = jobs[n].stem.dir) \/ (jobs'[m].alone => m \notin Mates(d))
    BY <1>8, <1>14
  <2> HIDE DEF d
  <2> QED BY <2>1, <2>2, <1>2, <1>7, <1>8, <1>9, <1>10, <1>13, BesideKeep
<1>16. /\ Placed(jobs[n])' /\ jobs'[n].reads \in {NoJob, n}
       /\ KeepsPrompt(jobs[n])' /\ KeepsOutput(n, jobs[n])'
       /\ jobs'[n].st # "gone" /\ jobs'[n].alone => OnItsOwn(n)'
  <2>1. Placed(jobs[n])' /\ jobs'[n].reads \in {NoJob, n}
    BY <1>2, <1>5, <1>6, <1>10 DEF Placed, Stemmed, Inside
  <2>2. KeepsPrompt(jobs[n])'
    BY <1>5, <1>6, <1>7 DEF KeepsPrompt
  <2>3. KeepsOutput(n, jobs[n])'
    BY <1>5, <1>6 DEF KeepsOutput
  <2>4. ASSUME jobs'[n].alone PROVE OnItsOwn(n)'
    <3>1. lone /\ jobs'[n].stem.dir = d
      BY <2>4, <1>5, <1>6
    <3>2. /\ Apart(d) /\ \A q \in Known \ {n} : jobs[q].stem.dir # d
          /\ \A s \in Requests : op[s].pc = "tree" /\ op[s].job # n => op[s].stem.dir # d
      <4>1. CASE d = jobs[n].stem.dir
        <5>1. jobs[n].alone
          BY <1>2, <1>3, <3>1 DEF Alike
        <5>2. OnItsOwn(n)
          BY <5>1, <1>1, <1>2 DEF Filed
        <5> QED BY <4>1, <5>2 DEF OnItsOwn
      <4>2. CASE Mates(d) = {} /\ Apart(d)
        BY <4>2, NoMates
      <4> QED BY <3>1, <4>1, <4>2
    <3> HIDE DEF d, lone
    <3>3. Apart(jobs[n].stem.dir)'
      BY <3>1, <3>2, <1>10 DEF Apart
    <3>4. \A q \in Known' \ {n} : jobs'[q].stem.dir # d
      BY <3>2, <1>13
    <3> QED BY <3>1, <3>2, <3>3, <3>4, <1>9 DEF OnItsOwn
  <2> QED BY <2>1, <2>2, <2>3, <2>4
<1>17. Filed'
  BY <1>6, <1>15, <1>16 DEF Filed
<1> QED BY <1>11, <1>12, <1>17 DEF FilesInv

LEMMA UpdateKeeps ==
    ASSUME FilesInv, NEW r \in Requests, Update(r)
    PROVE  FilesInv'
<1>1. CASE Editable(r)
  BY <1>1, EditKeeps DEF Update
<1>2. CASE UNCHANGED book
  BY <1>2, LeaveKeeps DEF Update, rest, book, disk, FilesInv, FileTypes
<1> QED BY <1>1, <1>2 DEF Update

LEMMA FilesNextInv ==
    ASSUME FilesInv, [FilesNext]_fileVars
    PROVE  FilesInv'
<1>1. ASSUME NEW r \in Requests, Step(r) PROVE FilesInv'
  BY <1>1, PrepareSubmitKeeps, PrepareEditKeeps, DuplicateReadKeeps, CheckRootsKeeps, SubmitKeeps,
     UpdateKeeps,
     CancelKeeps, RemoveTreeKeeps, RemoveRecordKeeps, DuplicateScanKeeps, RouteKeeps DEF Step
<1>2. ASSUME NEW n \in DOMAIN jobs, Run(n) PROVE FilesInv'
  BY <1>2, ClaimKeeps, SaveKeeps, FinishKeeps, FinishFailedKeeps DEF Run
<1>3. CASE UNCHANGED fileVars
  BY <1>3, NothingKeeps DEF fileVars, FilesInv, FileTypes
<1> QED BY <1>1, <1>2, <1>3, SavePromptKeeps, CrashKeeps DEF FilesNext

\* What the jobs of the queue, the copies of their prompts and the requests at work on
\* them are, in every state (queue.py, web.py).
THEOREM FilesStayTyped == FilesSpec => []FileTypes
<1>1. FilesInit => FilesInv
  BY FilesInitInv
<1>2. FilesInv /\ [FilesNext]_fileVars => FilesInv'
  BY FilesNextInv
<1>3. FilesInv => FileTypes
  BY DEF FilesInv
<1> QED BY <1>1, <1>2, <1>3, PTL DEF FilesSpec

\* A job keeps the prompt it was filed or edited with, and its clip or checkpoint while
\* it is on its own, whatever is filed, edited, copied and removed beside it; and it
\* lies in the server's directory, unless a directory became a job's, or ceased to be,
\* between the check of the roots and the filing: for any number of requests, words and
\* jobs (submit and edit of queue.py, _submit_job and the removal of web.py).
THEOREM FilesAreKept == FilesSpec => []FilesStay
<1>1. FilesInit => FilesInv
  BY FilesInitInv
<1>2. FilesInv /\ [FilesNext]_fileVars => FilesInv'
  BY FilesNextInv
<1>3. FilesInv => FilesStay
  BY DEF FilesInv, Filed, Placed, FilesStay
<1> QED BY <1>1, <1>2, <1>3, PTL DEF FilesSpec

-----------------------------------------------------------------------------
(***************************************************************************)
(* Library, for any number of requests, projects and faults.  The          *)
(* inductive invariant says who holds which lock (LocksHeld), what a       *)
(* request at work in the card's directory knows of the card (Sees), that  *)
(* a card in the making is nobody else's (BeingMade), and which folders it *)
(* may have that it does not name (Unnamed).                               *)
(***************************************************************************)

Entries == [text : Nat, assets : Nat]
Folders == [card : Seq(Entries), folders : SUBSET Nat]
Handling == {"read", "copy", "write", "scan", "move"}
Calls ==
    [pc : Handling \cup {"idle", "open", "lock", "pin"},
     does : {"nothing", "create", "update", "delete"}, at : Nat, card : Seq(Entries),
     text : Nat, assets : Nat, project : Projects \cup {Nobody}]
Pins == [version : Nat, text : Nat]

CardTypes ==
    /\ dirs \in Seq(Folders) /\ dir \in {NoDir, Len(dirs)}
    /\ cardLock \in Seq(Callers \cup {Nobody}) /\ Len(cardLock) = Len(dirs)
    /\ pins \in [Projects -> Pins]
    /\ call \in [Callers -> Calls]
    /\ cardCalls \in Nat /\ faults \in Nat /\ raced \in SUBSET Projects
    /\ foreign \in BOOLEAN /\ cut \in BOOLEAN

\* Who is past the lock of a directory has it, and what it carries.
Carries(c) ==
    /\ c.pc \in Handling \cup {"lock", "pin"} => c.at \in DOMAIN dirs
    /\ c.pc \in {"open", "lock"} => c.does # "nothing"
    /\ c.pc \in {"copy", "write"} => c.does \in {"create", "update"}
    /\ c.pc \in {"scan", "move"} => c.does = "delete"
    /\ c.pc = "read" => c.does \in {"update", "delete"}
    /\ c.does = "create" => c.pc \in {"open", "lock", "copy", "write"} /\ c.card = NoCard
    /\ c.pc = "write" /\ c.does = "create" => c.assets = 1
    /\ c.pc = "pin" => c.assets \in DOMAIN c.card /\ c.project \in Projects
LocksHeld ==
    \A r \in Callers : /\ Carries(call[r])
                       /\ call[r].pc \in Handling => cardLock[call[r].at] = r

\* The projects a deletion has found without a pin are still so, or beside it.
NothingPinned ==
    (\E r \in Callers : call[r].pc = "move") => \A p \in Projects \ raced : pins[p] = NoPin

\* What a request at work in the directory knows of the card.
Sees(c) ==
    /\ c.pc \in {"copy", "write"} /\ c.does = "update" => c.card = Card /\ Card # NoCard
    /\ c.pc = "write" => c.assets \in dirs[dir].folders
    /\ c.pc \in {"scan", "move"} => Card # NoCard
    /\ c.pc = "pin" => \A n \in DOMAIN c.card : n \in DOMAIN Card /\ Card[n] = c.card[n]
AtWork == \A r \in Callers : call[r].at = dir /\ dir # NoDir => Sees(call[r])

\* A card that is being made: nobody else has written to it.
Making(r) ==
    /\ dir # NoDir /\ Card = NoCard
    /\ call[r].pc # "open" => call[r].at = dir
    /\ dirs[dir].folders = IF call[r].pc = "write" THEN {1} ELSE {}
BeingMade ==
    \A r \in Callers : call[r].does = "create" =>
        /\ Making(r)
        /\ \A s \in Callers : call[s].does = "create" => s = r

Versions ==
    dir # NoDir => \A n \in DOMAIN Card : Card[n].assets \in dirs[dir].folders
\* A folder the card does not name is one that is being written for it.
Unnamed ==
    ~cut /\ dir # NoDir =>
        /\ Card = NoCard => \E r \in Callers : call[r].does = "create"
        /\ \A n \in dirs[dir].folders \ DOMAIN Card : \E r \in Callers :
              /\ call[r].pc = "write" /\ call[r].at = dir
              /\ n = Len(Card) + 1 /\ call[r].assets = n

CardInv ==
    /\ CardTypes /\ LocksHeld /\ NothingPinned
    /\ ~foreign => AtWork /\ BeingMade /\ Versions /\ Unnamed /\ PinsHold

\* What the card is, and where.
LEMMA CardTyped ==
    ASSUME CardTypes
    PROVE  /\ Card \in Seq(Entries)
           /\ dir # NoDir => dir \in DOMAIN dirs /\ dirs[dir] \in Folders
           /\ Card # NoCard => dir # NoDir /\ Len(Card) \in Nat \ {0}
<1>1. dir # NoDir => dir \in DOMAIN dirs /\ dirs[dir] \in Folders /\ dirs[dir].card \in Seq(Entries)
  <2> SUFFICES ASSUME dir # NoDir
               PROVE  dir \in DOMAIN dirs /\ dirs[dir] \in Folders /\ dirs[dir].card \in Seq(Entries)
    OBVIOUS
  <2>1. dirs \in Seq(Folders) /\ dir = Len(dirs) /\ Len(dirs) \in Nat \ {0}
    BY LenProperties DEF CardTypes, NoDir
  <2>2. dir \in DOMAIN dirs /\ dirs[dir] \in Folders
    BY <2>1
  <2> QED BY <2>2 DEF Folders
<1>2. NoCard \in Seq(Entries)
  BY DEF NoCard
<1>3. Card \in Seq(Entries)
  BY <1>1, <1>2 DEF Card
<1>4. Card # NoCard => Len(Card) # 0
  BY <1>3, EmptySeq DEF NoCard
<1> QED BY <1>1, <1>3, <1>4 DEF Card

\* At the start there is no card.
LEMMA CardInitInv == CardInit => CardInv
<1> SUFFICES ASSUME CardInit PROVE CardInv
  OBVIOUS
<1> USE DEF CardInit, NoCall, NoDir, NoCard, NoPin
<1>1. CardTypes
  <2>1. NoCall \in Calls
    BY DEF Calls, Handling
  <2>2. NoPin \in Pins
    BY DEF Pins
  <2>3. dirs \in Seq(Folders) /\ cardLock \in Seq(Callers \cup {Nobody})
        /\ Len(dirs) = 0 /\ Len(cardLock) = 0
    OBVIOUS
  <2> QED BY <2>1, <2>2, <2>3 DEF CardTypes
<1>2. LocksHeld
  BY DEF LocksHeld, Carries, Handling
<1>3. NothingPinned
  BY DEF NothingPinned
<1>4. AtWork /\ BeingMade /\ Versions /\ Unnamed /\ PinsHold
  BY DEF AtWork, BeingMade, Versions, Unnamed, PinsHold
<1> QED BY <1>1, <1>2, <1>3, <1>4 DEF CardInv

\* Only r's call changes, and it is what c says.
OneCall(r, c) == call' = [call EXCEPT ![r] = c]

\* A step that leaves the directories and the pins alone keeps the invariant if what
\* the one request carries afterwards is in order.
LEMMA QuietKeeps ==
    ASSUME CardInv, NEW r \in Callers, NEW c \in Calls,
           OneCall(r, c), SameDirs, UNCHANGED pinned,
           cardLock' \in Seq(Callers \cup {Nobody}), Len(cardLock') = Len(cardLock),
           cardCalls' \in Nat, faults' \in Nat, cut' \in BOOLEAN, cut => cut',
           foreign' \in BOOLEAN, foreign => foreign',
           Carries(c), c.pc \in Handling => cardLock'[c.at] = r,
           \A s \in Callers \ {r} : call[s].pc \in Handling => cardLock'[call[s].at] = s,
           c.pc = "move" => \A p \in Projects \ raced : pins[p] = NoPin,
           ~foreign' /\ c.at = dir /\ dir # NoDir => Sees(c),
           ~foreign' /\ c.does = "create" =>
               /\ call[r].does = "create"
               /\ c.pc # "open" => c.at = dir
               /\ c.pc = "write" <=> call[r].pc = "write",
           ~foreign' /\ ~cut' =>
               /\ call[r].does = "create" => c.does = "create"
               /\ ~(call[r].pc = "write" /\ call[r].at = dir
                    /\ call[r].assets = Len(Card) + 1)
    PROVE  CardInv'
<1>0. CardTypes /\ LocksHeld /\ NothingPinned
  BY DEF CardInv
<1>1. /\ call'[r] = c
      /\ \A s \in Callers \ {r} : call'[s] = call[s]
      /\ call' \in [Callers -> Calls]
  BY <1>0 DEF OneCall, CardTypes
<1>2. UNCHANGED <<dir, dirs, pins, raced>>
  BY DEF SameDirs, pinned
<1>3. Card' = Card
  BY <1>2 DEF Card
<1>4. CardTypes'
  BY <1>0, <1>1, <1>2 DEF CardTypes
<1>5. LocksHeld'
  <2> SUFFICES ASSUME NEW s \in Callers
               PROVE  Carries(call[s])' /\ (call'[s].pc \in Handling => cardLock'[call'[s].at] = s)
    BY DEF LocksHeld
  <2>1. CASE s = r
    BY <2>1, <1>1, <1>2 DEF Carries
  <2>2. CASE s # r
    BY <2>2, <1>0, <1>1, <1>2 DEF LocksHeld, Carries
  <2> QED BY <2>1, <2>2
<1>6. NothingPinned'
  BY <1>0, <1>1, <1>2 DEF NothingPinned, NoPin
<1>7. ASSUME ~foreign' PROVE (AtWork /\ BeingMade /\ Versions /\ Unnamed /\ PinsHold)'
  <2>0. AtWork /\ BeingMade /\ Versions /\ Unnamed /\ PinsHold
    BY <1>7 DEF CardInv
  <2>1. AtWork'
    <3> SUFFICES ASSUME NEW s \in Callers, call'[s].at = dir', dir' # NoDir
                 PROVE  Sees(call[s])'
      BY DEF AtWork
    <3>1. CASE s = r
      BY <3>1, <1>7, <1>1, <1>2, <1>3 DEF Sees
    <3>2. CASE s # r
      BY <3>2, <2>0, <1>1, <1>2, <1>3 DEF AtWork, Sees
    <3> QED BY <3>1, <3>2
  <2>2. BeingMade'
    <3> SUFFICES ASSUME NEW s \in Callers, call'[s].does = "create"
                 PROVE  Making(s)' /\ \A q \in Callers : call'[q].does = "create" => q = s
      BY DEF BeingMade
    <3>1. \A q \in Callers : call'[q].does = "create" => call[q].does = "create"
      BY <1>1, <1>7
    <3>2. Making(s) /\ \A q \in Callers : call[q].does = "create" => q = s
      BY <3>1, <2>0 DEF BeingMade
    <3>3. Making(s)'
      BY <3>2, <1>1, <1>2, <1>3, <1>7 DEF Making
    <3> QED BY <3>1, <3>2, <3>3
  <2>3. Versions'
    BY <2>0, <1>2, <1>3 DEF Versions
  <2>4. Unnamed'
    <3> SUFFICES ASSUME ~cut', dir' # NoDir
                 PROVE  /\ Card' = NoCard => \E s \in Callers : call'[s].does = "create"
                        /\ \A n \in dirs'[dir'].folders \ DOMAIN Card' : \E s \in Callers :
                              /\ call'[s].pc = "write" /\ call'[s].at = dir'
                              /\ n = Len(Card') + 1 /\ call'[s].assets = n
      BY DEF Unnamed
    <3>1. ~cut /\ dir # NoDir
      BY <1>2
    <3>2. ASSUME Card' = NoCard PROVE \E s \in Callers : call'[s].does = "create"
      <4>1. PICK s \in Callers : call[s].does = "create"
        BY <3>1, <3>2, <2>0, <1>3 DEF Unnamed
      <4> QED BY <4>1, <1>1, <1>7
    <3>3. ASSUME NEW n \in dirs'[dir'].folders \ DOMAIN Card'
          PROVE  \E s \in Callers : /\ call'[s].pc = "write" /\ call'[s].at = dir'
                                    /\ n = Len(Card') + 1 /\ call'[s].assets = n
      <4>1. PICK s \in Callers : /\ call[s].pc = "write" /\ call[s].at = dir
                                 /\ n = Len(Card) + 1 /\ call[s].assets = n
        BY <3>1, <3>3, <2>0, <1>2, <1>3 DEF Unnamed
      <4>2. s # r
        BY <4>1, <1>7
      <4> QED BY <4>1, <4>2, <1>1, <1>2, <1>3
    <3> QED BY <3>2, <3>3
  <2>5. PinsHold'
    BY <2>0, <1>2, <1>3 DEF PinsHold
  <2> QED BY <2>1, <2>2, <2>3, <2>4, <2>5
<1> QED BY <1>4, <1>5, <1>6, <1>7 DEF CardInv

\* A request that leaves has nothing to answer for.
LEMMA LeavingKeeps ==
    ASSUME CardInv, NEW r \in Callers, EndCall(r), SameDirs, UNCHANGED pinned,
           cardCalls' \in Nat, faults' \in Nat, cut' \in BOOLEAN, cut => cut',
           foreign' \in BOOLEAN, foreign => foreign',
           ~foreign' /\ ~cut' =>
               /\ call[r].does # "create"
               /\ ~(call[r].pc = "write" /\ call[r].at = dir
                    /\ call[r].assets = Len(Card) + 1)
    PROVE  CardInv'
<1>1. CardTypes /\ LocksHeld
  BY DEF CardInv
<1>2. NoCall \in Calls /\ Carries(NoCall)
  BY DEF NoCall, NoDir, NoCard, Calls, Handling, Carries
<1>3. /\ NoCall.pc = "idle" /\ NoCall.does = "nothing" /\ NoCall.at = NoDir
      /\ "idle" \notin Handling
  BY DEF NoCall, Handling
<1>4. OneCall(r, NoCall)
  BY DEF EndCall, OneCall
<1>5. /\ cardLock' \in Seq(Callers \cup {Nobody}) /\ Len(cardLock') = Len(cardLock)
      /\ \A g \in DOMAIN cardLock : cardLock[g] # r => cardLock'[g] = cardLock[g]
  <2>1. cardLock' \in [1..Len(cardLock) -> Callers \cup {Nobody}]
    BY <1>1 DEF EndCall, CardTypes
  <2> QED BY <2>1, <1>1 DEF EndCall, CardTypes
<1>6. \A s \in Callers \ {r} : call[s].pc \in Handling => cardLock'[call[s].at] = s
  <2> SUFFICES ASSUME NEW s \in Callers \ {r}, call[s].pc \in Handling
               PROVE  cardLock'[call[s].at] = s
    OBVIOUS
  <2>1. cardLock[call[s].at] = s /\ call[s].at \in DOMAIN cardLock
    BY <1>1 DEF LocksHeld, Carries, CardTypes
  <2> QED BY <2>1, <1>5
<1> HIDE DEF NoCall, EndCall, Carries, OneCall, SameDirs, Sees, CardInv
<1>7. ~foreign' /\ NoCall.at = dir /\ dir # NoDir => Sees(NoCall)
  BY <1>3
<1> QED BY <1>2, <1>3, <1>4, <1>5, <1>6, <1>7, QuietKeeps

LEMMA CallKeeps ==
    ASSUME CardInv, NEW r \in Callers, NEW does \in {"update", "delete"}, Call(r, does)
    PROVE  CardInv'
<1> DEFINE c == [NoCall EXCEPT !.pc = "open", !.does = does, !.text = cardCalls']
<1>1. CardTypes /\ LocksHeld
  BY DEF CardInv
<1>2. c \in Calls /\ c.pc = "open" /\ c.does = does /\ c.at = NoDir
  <2>1. cardCalls' \in Nat
    BY <1>1 DEF CardTypes, Call, BeginCall
  <2>2. NoCall \in Calls /\ NoCall.at = NoDir
    BY DEF NoCall, NoDir, NoCard, Calls, Handling
  <2> QED BY <2>1, <2>2 DEF Calls
<1>3. Carries(c) /\ "open" \notin Handling
  BY <1>2 DEF Carries, Handling
<1>4. OneCall(r, c) /\ call[r].pc = "idle" /\ call[r].does # "create"
  BY <1>1 DEF Call, BeginCall, OneCall, LocksHeld, Carries
<1>5. \A s \in Callers \ {r} : call[s].pc \in Handling => cardLock'[call[s].at] = s
  BY <1>1 DEF Call, LocksHeld
<1>6. /\ SameDirs /\ UNCHANGED <<pinned, cardLock, faults, foreign, cut>>
      /\ cardCalls' \in Nat
  BY <1>1 DEF Call, BeginCall, CardTypes
<1> HIDE DEF c
<1> QED BY <1>1, <1>2, <1>3, <1>4, <1>5, <1>6, QuietKeeps DEF CardTypes

LEMMA OpenKeeps ==
    ASSUME CardInv, NEW r \in Callers, Open(r)
    PROVE  CardInv'
<1>1. CardTypes /\ LocksHeld
  BY DEF CardInv
<1>2. call[r].pc = "open" /\ call[r] \in Calls
  BY <1>1 DEF Open, CardTypes
<1>3. /\ SameDirs /\ UNCHANGED <<pinned, cardCalls, faults, foreign, cut>>
  BY DEF Open
<1>4. CASE dir = NoDir
  <2>1. ~foreign => call[r].does # "create"
    BY <1>4 DEF CardInv, BeingMade, Making
  <2> QED BY <1>1, <1>2, <1>3, <1>4, <2>1, LeavingKeeps DEF Open, CardTypes
<1>5. CASE dir # NoDir
  <2> DEFINE c == [call[r] EXCEPT !.pc = "lock", !.at = dir]
  <2>1. dir \in DOMAIN dirs /\ dir \in Nat
    BY <1>1, <1>5 DEF CardTypes, NoDir
  <2>2. c \in Calls
    BY <1>2, <2>1 DEF Calls
  <2>3. c.pc = "lock" /\ c.at = dir /\ c.does = call[r].does /\ c.card = call[r].card
    BY <1>2 DEF Calls
  <2>4. Carries(c) /\ "lock" \notin Handling /\ Sees(c)
    BY <1>1, <1>2, <2>1, <2>3 DEF LocksHeld, Carries, Sees, Handling
  <2>5. OneCall(r, c) /\ cardLock' = cardLock
    BY <1>1, <1>5 DEF Open, OneCall, CardTypes
  <2>6. \A s \in Callers \ {r} : call[s].pc \in Handling => cardLock'[call[s].at] = s
    BY <1>1, <2>5 DEF LocksHeld
  <2> HIDE DEF c
  <2> QED BY <1>1, <1>2, <1>3, <2>2, <2>3, <2>4, <2>5, <2>6, QuietKeeps DEF CardTypes
<1> QED BY <1>4, <1>5

LEMMA FlockKeeps ==
    ASSUME CardInv, NEW r \in Callers, Flock(r)
    PROVE  CardInv'
<1> DEFINE to == IF call[r].does = "create" THEN "copy" ELSE "read"
<1> DEFINE c == [call[r] EXCEPT !.pc = to]
<1>1. CardTypes /\ LocksHeld
  BY DEF CardInv
<1>2. call[r].pc = "lock" /\ call[r] \in Calls /\ call[r].at \in DOMAIN dirs
  BY <1>1 DEF Flock, CardTypes, LocksHeld, Carries
<1>3. SameDirs /\ UNCHANGED <<pinned, cardCalls, faults, foreign, cut>>
  BY DEF Flock
<1>4. /\ c \in Calls /\ c.pc = to /\ c.at = call[r].at /\ c.does = call[r].does
      /\ c.card = call[r].card /\ to \in Handling /\ to \notin {"move", "open", "write"}
  BY <1>2 DEF Calls, Handling
<1>5. OneCall(r, c)
  BY <1>1 DEF Flock, Goto, OneCall, CardTypes
<1>6. /\ cardLock' \in Seq(Callers \cup {Nobody}) /\ Len(cardLock') = Len(cardLock)
      /\ cardLock'[c.at] = r
      /\ \A s \in Callers \ {r} : call[s].pc \in Handling => cardLock'[call[s].at] = s
  <2>1. call[r].at \in DOMAIN cardLock /\ cardLock[call[r].at] = Nobody
    BY <1>1, <1>2 DEF CardTypes, Flock
  <2>2. \A s \in Callers : call[s].pc \in Handling => cardLock[call[s].at] = s
    BY <1>1 DEF LocksHeld
  <2> QED BY <1>1, <1>4, <2>1, <2>2, CardAssumption DEF Flock, CardTypes
<1>7. call[r].does \in {"create", "update", "delete", "nothing"}
  BY <1>2 DEF Calls
<1>8. Carries(c)
  BY <1>1, <1>2, <1>4, <1>7 DEF LocksHeld, Carries, Handling
<1>9. Sees(c)
  BY <1>4 DEF Sees
<1>10. ~foreign /\ call[r].does = "create" => call[r].at = dir
  BY <1>2 DEF CardInv, BeingMade, Making
<1> HIDE DEF c, to
<1> QED BY <1>1, <1>2, <1>3, <1>4, <1>5, <1>6, <1>8, <1>9, <1>10, QuietKeeps DEF CardTypes

LEMMA ReadCardKeeps ==
    ASSUME CardInv, NEW r \in Callers, ReadCard(r)
    PROVE  CardInv'
<1>1. CardTypes /\ LocksHeld
  BY DEF CardInv
<1>2. /\ call[r].pc = "read" /\ call[r] \in Calls /\ call[r].does # "create"
      /\ call[r].at \in DOMAIN dirs /\ cardLock[call[r].at] = r
  BY <1>1 DEF ReadCard, CardTypes, LocksHeld, Carries, Handling
<1>3. SameDirs /\ UNCHANGED <<pinned, cardCalls, faults, foreign, cut>>
  BY DEF ReadCard
<1>4. CASE Card = NoCard /\ EndCall(r)
  BY <1>1, <1>2, <1>3, <1>4, LeavingKeeps DEF CardTypes
<1>5. ASSUME Card # NoCard, cardLock' = cardLock, NEW c \in Calls, OneCall(r, c),
             c.does = call[r].does, c.at = call[r].at, Carries(c), Sees(c),
             c.pc \in {"scan", "copy", "write"}
      PROVE  CardInv'
  <2>1. \A s \in Callers : call[s].pc \in Handling => cardLock[call[s].at] = s
    BY <1>1 DEF LocksHeld
  <2>2. c.pc # "move"
    BY <1>5
  <2> QED BY <1>1, <1>2, <1>3, <1>5, <2>1, <2>2, QuietKeeps DEF CardTypes
<1>6. CASE Card # NoCard /\ cardLock' = cardLock /\ call[r].does = "delete" /\ Goto(r, "scan")
  <2> DEFINE c == [call[r] EXCEPT !.pc = "scan"]
  <2>1. /\ c \in Calls /\ c.pc = "scan" /\ c.does = "delete" /\ c.at = call[r].at
    BY <1>2, <1>6 DEF Calls, Handling
  <2>2. Carries(c) /\ Sees(c)
    BY <1>2, <1>6, <2>1 DEF Carries, Sees
  <2>3. OneCall(r, c)
    BY <1>1, <1>6 DEF Goto, OneCall, CardTypes
  <2> HIDE DEF c
  <2> QED BY <1>5, <1>6, <2>1, <2>2, <2>3
<1>7. Card # NoCard => Card \in Seq(Entries) /\ dir \in DOMAIN dirs /\ Len(Card) \in Nat \ {0}
  BY <1>1, CardTyped
<1>8. CASE /\ Card # NoCard /\ cardLock' = cardLock /\ call[r].does = "update"
           /\ call' = [call EXCEPT ![r].pc = "copy", ![r].card = Card]
  <2> DEFINE c == [call[r] EXCEPT !.pc = "copy", !.card = Card]
  <2>1. c \in Calls /\ c.pc = "copy" /\ c.does = "update" /\ c.at = call[r].at /\ c.card = Card
    BY <1>2, <1>7, <1>8 DEF Calls, Handling
  <2>2. Carries(c) /\ Sees(c)
    BY <1>2, <1>8, <2>1 DEF Carries, Sees
  <2>3. OneCall(r, c)
    BY <1>1, <1>8 DEF OneCall, CardTypes
  <2> HIDE DEF c
  <2> QED BY <1>5, <1>8, <2>1, <2>2, <2>3
<1>9. CASE /\ Card # NoCard /\ cardLock' = cardLock /\ call[r].does = "update"
           /\ Last(Card).assets \in dirs[dir].folders
           /\ call' = [call EXCEPT ![r].pc = "write", ![r].card = Card,
                                   ![r].assets = Last(Card).assets]
  <2> DEFINE c == [call[r] EXCEPT !.pc = "write", !.card = Card, !.assets = Last(Card).assets]
  <2>1. Last(Card).assets \in Nat
    <3>1. Card[Len(Card)] \in Entries
      BY <1>7, <1>9
    <3> QED BY <3>1 DEF Last, Entries
  <2>2. /\ c \in Calls /\ c.pc = "write" /\ c.does = "update" /\ c.at = call[r].at
        /\ c.card = Card /\ c.assets = Last(Card).assets
    BY <1>2, <1>7, <1>9, <2>1 DEF Calls, Handling
  <2>3. Carries(c) /\ Sees(c)
    BY <1>2, <1>9, <2>2 DEF Carries, Sees
  <2>4. OneCall(r, c)
    BY <1>1, <1>9 DEF OneCall, CardTypes
  <2> HIDE DEF c
  <2> QED BY <1>5, <1>9, <2>2, <2>3, <2>4
<1> QED BY <1>4, <1>6, <1>8, <1>9 DEF ReadCard

LEMMA ScanPinsKeeps ==
    ASSUME CardInv, NEW r \in Callers, ScanPins(r)
    PROVE  CardInv'
<1>1. CardTypes /\ LocksHeld
  BY DEF CardInv
<1>2. /\ call[r].pc = "scan" /\ call[r] \in Calls /\ call[r].does = "delete"
      /\ call[r].at \in DOMAIN dirs /\ cardLock[call[r].at] = r
  BY <1>1 DEF ScanPins, CardTypes, LocksHeld, Carries, Handling
<1>3. SameDirs /\ UNCHANGED <<pinned, cardCalls, faults, foreign, cut>>
  BY DEF ScanPins
<1>4. CASE \E p \in Projects : pins[p] # NoPin
  BY <1>1, <1>2, <1>3, <1>4, LeavingKeeps DEF CardTypes, ScanPins
<1>5. CASE \A p \in Projects : pins[p] = NoPin
  <2> DEFINE c == [call[r] EXCEPT !.pc = "move"]
  <2>1. c \in Calls /\ c.pc = "move" /\ c.does = "delete" /\ c.at = call[r].at
    BY <1>2 DEF Calls, Handling
  <2>2. Carries(c)
    BY <1>2, <2>1 DEF Carries
  <2>3. ~foreign /\ c.at = dir /\ dir # NoDir => Sees(c)
    BY <1>2, <2>1 DEF CardInv, AtWork, Sees
  <2>4. OneCall(r, c) /\ cardLock' = cardLock
    BY <1>1, <1>5 DEF ScanPins, Goto, OneCall, CardTypes
  <2>5. \A s \in Callers : call[s].pc \in Handling => cardLock[call[s].at] = s
    BY <1>1 DEF LocksHeld
  <2> HIDE DEF c
  <2> QED BY <1>1, <1>2, <1>3, <1>5, <2>1, <2>2, <2>3, <2>4, <2>5, QuietKeeps DEF CardTypes
<1> QED BY <1>4, <1>5

LEMMA LookUpKeeps ==
    ASSUME CardInv, NEW r \in Callers, NEW p \in Projects, LookUp(r, p)
    PROVE  CardInv'
<1>1. CardTypes /\ LocksHeld
  BY DEF CardInv
<1>2. PICK n \in DOMAIN Card :
        call' = [call EXCEPT ![r] = [NoCall EXCEPT !.pc = "pin", !.at = dir, !.card = Card,
                                              !.assets = n, !.project = p]]
  BY DEF LookUp
<1> DEFINE c == [NoCall EXCEPT !.pc = "pin", !.at = dir, !.card = Card,
                               !.assets = n, !.project = p]
<1>3. Card \in Seq(Entries) /\ dir \in DOMAIN dirs /\ n \in Nat
  <2>1. Card # NoCard
    BY DEF NoCard
  <2> QED BY <1>1, <2>1, CardTyped
<1>4. /\ c \in Calls /\ c.pc = "pin" /\ c.does = "nothing" /\ c.at = dir /\ c.card = Card
      /\ c.assets = n /\ c.project = p
  <2>1. NoCall \in Calls /\ NoCall.does = "nothing"
    BY DEF NoCall, NoDir, NoCard, Calls, Handling
  <2>2. dir \in Nat
    BY <1>1 DEF CardTypes, NoDir
  <2> HIDE DEF NoCall
  <2>3. c \in Calls
    BY <1>3, <2>1, <2>2 DEF Calls
  <2> QED BY <1>3, <2>1, <2>3 DEF Calls
<1>5. Carries(c) /\ Sees(c) /\ "pin" \notin Handling
  BY <1>3, <1>4 DEF Carries, Sees, Handling
<1>6. OneCall(r, c) /\ call[r].pc = "idle" /\ call[r].does # "create"
  BY <1>1, <1>2 DEF LookUp, BeginCall, OneCall, LocksHeld, Carries
<1>7. \A s \in Callers \ {r} : call[s].pc \in Handling => cardLock'[call[s].at] = s
  BY <1>1 DEF LookUp, LocksHeld
<1>8. /\ SameDirs /\ UNCHANGED <<pinned, cardLock, faults, foreign, cut>>
      /\ cardCalls' \in Nat
  BY <1>1 DEF LookUp, BeginCall, CardTypes
<1> HIDE DEF c
<1> QED BY <1>1, <1>4, <1>5, <1>6, <1>7, <1>8, QuietKeeps DEF CardTypes

LEMMA FailKeeps ==
    ASSUME CardInv, NEW r \in Callers, Fail(r)
    PROVE  CardInv'
<1>1. CardTypes /\ LocksHeld
  BY DEF CardInv
<1>2. /\ SameDirs /\ UNCHANGED <<pinned, cardCalls, foreign>> /\ EndCall(r)
      /\ faults' \in Nat /\ cut' \in BOOLEAN /\ (cut => cut')
  BY <1>1 DEF Fail, Fault, CardTypes
<1>3. ASSUME ~foreign, ~cut'
      PROVE  /\ call[r].does # "create"
             /\ ~(call[r].pc = "write" /\ call[r].at = dir
                  /\ call[r].assets = Len(Card) + 1)
  <2>1. ~Halfway(r)
    BY <1>1, <1>3 DEF Fail, CardTypes
  <2>2. call[r].does # "create"
    BY <2>1 DEF Halfway
  <2>3. ASSUME call[r].pc = "write", call[r].at = dir, call[r].assets = Len(Card) + 1
        PROVE  FALSE
    <3>1. call[r].does = "update" /\ dir \in DOMAIN dirs
      BY <1>1, <2>2, <2>3 DEF LocksHeld, Carries, Handling
    <3>2. call[r].card = Card
      BY <1>1, <1>3, <2>3, <3>1 DEF CardInv, AtWork, Sees, CardTypes, NoDir
    <3> QED BY <2>1, <2>3, <3>2 DEF Halfway
  <2> QED BY <2>2, <2>3
<1> QED BY <1>1, <1>2, <1>3, LeavingKeeps DEF CardTypes

\* What needs no knowledge of the card: the directories only grow in number.
LEMMA GrowingKeeps ==
    ASSUME CardTypes, LocksHeld, NothingPinned, NEW r \in Callers, NEW c \in Calls,
           OneCall(r, c), UNCHANGED pinned,
           dirs' \in Seq(Folders), Len(dirs') \in {Len(dirs), Len(dirs) + 1},
           dir' \in {NoDir, Len(dirs')},
           cardLock' \in Seq(Callers \cup {Nobody}), Len(cardLock') = Len(dirs'),
           cardCalls' \in Nat, faults' \in Nat, foreign' \in BOOLEAN, cut' \in BOOLEAN,
           Carries(c), c.pc \in Handling => cardLock'[c.at] = r, c.pc # "move",
           \A s \in Callers \ {r} : call[s].pc \in Handling => cardLock'[call[s].at] = s
    PROVE  /\ CardTypes' /\ LocksHeld' /\ NothingPinned'
           /\ call'[r] = c
           /\ \A s \in Callers \ {r} : call'[s] = call[s]
<1>1. /\ call'[r] = c
      /\ \A s \in Callers \ {r} : call'[s] = call[s]
      /\ call' \in [Callers -> Calls]
  BY DEF OneCall, CardTypes
<1>2. UNCHANGED <<pins, raced>>
  BY DEF pinned
<1>3. CardTypes'
  BY <1>1, <1>2 DEF CardTypes
<1>4. DOMAIN dirs \subseteq DOMAIN dirs'
  BY DEF CardTypes
<1>5. LocksHeld'
  <2> SUFFICES ASSUME NEW s \in Callers
               PROVE  Carries(call[s])' /\ (call'[s].pc \in Handling => cardLock'[call'[s].at] = s)
    BY DEF LocksHeld
  <2>1. CASE s = r
    BY <2>1, <1>1, <1>4 DEF Carries
  <2>2. CASE s # r
    <3>1. Carries(call[s])
      BY DEF LocksHeld
    <3>2. Carries(call[s])'
      BY <3>1, <2>2, <1>1, <1>4 DEF Carries
    <3> QED BY <3>2, <2>2, <1>1
  <2> QED BY <2>1, <2>2
<1>6. NothingPinned'
  BY <1>1, <1>2 DEF NothingPinned, NoPin
<1> QED BY <1>1, <1>3, <1>5, <1>6

\* mkdir gives a directory nobody has a lock of.
LEMMA MakeDirGives ==
    ASSUME CardTypes, LocksHeld, NEW folders \in SUBSET Nat, MakeDir(folders)
    PROVE  /\ dirs' \in Seq(Folders) /\ Len(dirs') = Len(dirs) + 1 /\ dir' = Len(dirs')
           /\ dirs'[dir'] = [card |-> NoCard, folders |-> folders]
           /\ cardLock' \in Seq(Callers \cup {Nobody}) /\ Len(cardLock') = Len(dirs')
           /\ \A s \in Callers : call[s].pc \in Handling => cardLock'[call[s].at] = s
           /\ \A s \in Callers : call[s].pc \in Handling \cup {"lock", "pin"} => call[s].at # dir'
<1>1. [card |-> NoCard, folders |-> folders] \in Folders
  BY DEF Folders, NoCard
<1>2. /\ dirs' \in Seq(Folders) /\ Len(dirs') = Len(dirs) + 1 /\ dir' = Len(dirs')
      /\ dirs'[dir'] = [card |-> NoCard, folders |-> folders]
      /\ cardLock' \in Seq(Callers \cup {Nobody}) /\ Len(cardLock') = Len(dirs')
      /\ \A g \in DOMAIN cardLock : cardLock'[g] = cardLock[g]
  BY <1>1 DEF MakeDir, CardTypes
<1>3. \A s \in Callers : call[s].pc \in Handling => call[s].at \in DOMAIN cardLock
                                                    /\ cardLock[call[s].at] = s
  BY DEF LocksHeld, Carries, CardTypes
<1>4. \A s \in Callers : call[s].pc \in Handling \cup {"lock", "pin"} => call[s].at \in 1..Len(dirs)
  BY DEF LocksHeld, Carries, CardTypes
<1>5. Len(dirs) \in Nat
  BY DEF CardTypes
<1> QED BY <1>2, <1>3, <1>4, <1>5

LEMMA CreateKeeps ==
    ASSUME CardInv, NEW r \in Callers, Create(r)
    PROVE  CardInv'
<1> DEFINE c == [NoCall EXCEPT !.pc = "open", !.does = "create", !.text = cardCalls']
<1>1. CardTypes /\ LocksHeld /\ NothingPinned
  BY DEF CardInv
<1>2. c \in Calls /\ c.pc = "open" /\ c.does = "create" /\ c.at = NoDir /\ c.card = NoCard
  <2>1. cardCalls' \in Nat
    BY <1>1 DEF CardTypes, Create, BeginCall
  <2>2. NoCall \in Calls /\ NoCall.at = NoDir /\ NoCall.card = NoCard
    BY DEF NoCall, NoDir, NoCard, Calls, Handling
  <2> QED BY <2>1, <2>2 DEF Calls
<1>3. Carries(c) /\ "open" \notin Handling
  BY <1>2 DEF Carries, Handling
<1>4. OneCall(r, c) /\ dir = NoDir /\ MakeDir({}) /\ UNCHANGED <<pinned, faults, foreign, cut>>
  BY DEF Create, OneCall
<1>5. /\ dirs' \in Seq(Folders) /\ Len(dirs') = Len(dirs) + 1 /\ dir' = Len(dirs')
      /\ dirs'[dir'] = [card |-> NoCard, folders |-> {}]
      /\ cardLock' \in Seq(Callers \cup {Nobody}) /\ Len(cardLock') = Len(dirs')
      /\ \A s \in Callers : call[s].pc \in Handling => cardLock'[call[s].at] = s
      /\ \A s \in Callers : call[s].pc \in Handling \cup {"lock", "pin"} => call[s].at # dir'
  BY <1>1, <1>4, MakeDirGives
<1>6. cardCalls' \in Nat /\ faults' \in Nat /\ foreign' \in BOOLEAN /\ cut' \in BOOLEAN
  BY <1>1, <1>4 DEF Create, BeginCall, CardTypes
<1> HIDE DEF c
<1>7. /\ CardTypes' /\ LocksHeld' /\ NothingPinned'
      /\ call'[r] = c /\ \A s \in Callers \ {r} : call'[s] = call[s]
  BY <1>1, <1>2, <1>3, <1>4, <1>5, <1>6, GrowingKeeps
<1>8. ASSUME ~foreign' PROVE (AtWork /\ BeingMade /\ Versions /\ Unnamed /\ PinsHold)'
  <2>1. AtWork /\ BeingMade /\ PinsHold
    BY <1>4, <1>8 DEF CardInv
  <2>2. dir' # NoDir /\ Card' = NoCard /\ dirs'[dir'].folders = {}
    BY <1>1, <1>5 DEF Card, CardTypes, NoDir
  <2>3. AtWork'
    <3> SUFFICES ASSUME NEW s \in Callers, call'[s].at = dir', dir' # NoDir
                 PROVE  Sees(call[s])'
      BY DEF AtWork
    <3>1. s # r
      BY <1>2, <1>7
    <3>2. call'[s].pc \notin Handling \cup {"lock", "pin"}
      BY <3>1, <1>5, <1>7
    <3> QED BY <3>2 DEF Sees, Handling
  <2>4. \A s \in Callers : call'[s].does = "create" => s = r
    BY <1>4, <1>7, <2>1 DEF BeingMade, Making
  <2>5. BeingMade'
    BY <1>2, <1>7, <2>2, <2>4 DEF BeingMade, Making
  <2>6. Versions'
    BY <2>2 DEF Versions, NoCard
  <2>7. Unnamed'
    BY <1>2, <1>7, <2>2 DEF Unnamed
  <2>8. \A p \in Projects \ raced : pins[p] = NoPin
    BY <1>4, <2>1 DEF PinsHold, Card
  <2>9. PinsHold'
    BY <1>4, <2>8 DEF PinsHold, pinned, NoPin
  <2> QED BY <2>3, <2>5, <2>6, <2>7, <2>9
<1> QED BY <1>7, <1>8 DEF CardInv

\* One request is at work in a directory.
LEMMA OneAtWork ==
    ASSUME LocksHeld, NEW r \in Callers, NEW s \in Callers,
           call[r].pc \in Handling, call[s].pc \in Handling, call[r].at = call[s].at
    PROVE  r = s
BY DEF LocksHeld

\* While a card that is there is written to, none is being made.
LEMMA NoneMade ==
    ASSUME BeingMade, Card # NoCard
    PROVE  \A s \in Callers : call[s].does # "create"
BY DEF BeingMade, Making

LEMMA CopyKeeps ==
    ASSUME CardInv, NEW r \in Callers, Copy(r)
    PROVE  CardInv'
<1> DEFINE n == Len(call[r].card) + 1
<1> DEFINE c == [call[r] EXCEPT !.pc = "write", !.assets = n]
<1>1. CardTypes /\ LocksHeld /\ NothingPinned
  BY DEF CardInv
<1>2. /\ call[r].pc = "copy" /\ call[r] \in Calls /\ call[r].does \in {"create", "update"}
      /\ call[r].does = "create" => call[r].card = NoCard
      /\ call[r].at \in DOMAIN dirs /\ cardLock[call[r].at] = r
      /\ call[r].card \in Seq(Entries) /\ n \in Nat
  BY <1>1 DEF Copy, CardTypes, LocksHeld, Carries, Handling, Calls
<1>3. /\ c \in Calls /\ c.pc = "write" /\ c.assets = n /\ c.does = call[r].does
      /\ c.at = call[r].at /\ c.card = call[r].card
  BY <1>2 DEF Calls, Handling
<1>4. Carries(c) /\ "write" \in Handling
  BY <1>2, <1>3 DEF Carries, Handling, NoCard
<1>5. /\ UNCHANGED <<pinned, cardCalls, faults, cut>>
      /\ foreign' \in BOOLEAN /\ (foreign => foreign') /\ (~foreign' => call[r].at = dir)
  BY <1>1 DEF Copy, Under, CardTypes
<1>6. cardCalls' \in Nat /\ faults' \in Nat /\ cut' \in BOOLEAN
  BY <1>1, <1>5 DEF CardTypes
<1>7. \A s \in Callers : call[s].pc \in Handling => cardLock[call[s].at] = s
  BY <1>1 DEF LocksHeld
<1>8. dir # NoDir => dir \in DOMAIN dirs /\ dirs[dir] \in Folders
  BY <1>1, CardTyped
<1> HIDE DEF c
<1>9. CASE dir = NoDir /\ MakeDir({n}) /\ call' = [call EXCEPT ![r].pc = "write", ![r].assets = n]
  <2>1. OneCall(r, c)
    BY <1>1, <1>9 DEF OneCall, CardTypes, c
  <2>2. /\ dirs' \in Seq(Folders) /\ Len(dirs') = Len(dirs) + 1 /\ dir' = Len(dirs')
        /\ cardLock' \in Seq(Callers \cup {Nobody}) /\ Len(cardLock') = Len(dirs')
        /\ \A s \in Callers : call[s].pc \in Handling => cardLock'[call[s].at] = s
    <3>1. {n} \in SUBSET Nat
      BY <1>2
    <3> QED BY <1>1, <1>9, <3>1, MakeDirGives
  <2>3. c.pc \in Handling => cardLock'[c.at] = r
    BY <1>2, <1>3, <2>2 DEF Handling
  <2>4. CardTypes' /\ LocksHeld' /\ NothingPinned'
    BY <1>1, <1>3, <1>4, <1>5, <1>6, <2>1, <2>2, <2>3, GrowingKeeps
  <2>5. ~foreign' => FALSE
    <3>1. call[r].at # 0
      BY <1>1, <1>2 DEF CardTypes
    <3> QED BY <3>1, <1>5, <1>9 DEF NoDir
  <2> QED BY <2>4, <2>5 DEF CardInv
<1>10. CASE dir # NoDir /\ n \in dirs[dir].folders /\ EndCall(r) /\ SameDirs
  <2>1. ~foreign' => call[r].does # "create"
    BY <1>2, <1>5, <1>10 DEF CardInv, BeingMade, Making
  <2> QED BY <1>1, <1>2, <1>5, <1>6, <1>10, <2>1, LeavingKeeps
<1>11. CASE /\ dir # NoDir /\ n \notin dirs[dir].folders
            /\ dirs' = [dirs EXCEPT ![dir].folders = @ \cup {n}]
            /\ call' = [call EXCEPT ![r].pc = "write", ![r].assets = n]
            /\ UNCHANGED <<dir, cardLock>>
  <2>1. OneCall(r, c)
    BY <1>1, <1>11 DEF OneCall, CardTypes, c
  <2>2. /\ dirs' \in Seq(Folders) /\ Len(dirs') = Len(dirs) /\ Card' = Card
        /\ dirs'[dir].card = dirs[dir].card
        /\ dirs'[dir].folders = dirs[dir].folders \cup {n}
    <3> DEFINE f == [dirs[dir] EXCEPT !.folders = @ \cup {n}]
    <3>1. f \in Folders /\ f.card = dirs[dir].card /\ f.folders = dirs[dir].folders \cup {n}
      BY <1>2, <1>8, <1>11 DEF Folders
    <3>2. dirs' = [dirs EXCEPT ![dir] = f]
      BY <1>11
    <3> HIDE DEF f
    <3>3. dirs \in Seq(Folders) /\ dir \in DOMAIN dirs
      BY <1>1, <1>8, <1>11 DEF CardTypes
    <3>4. dirs' \in Seq(Folders) /\ Len(dirs') = Len(dirs) /\ dirs'[dir] = f
      BY <3>1, <3>2, <3>3
    <3> QED BY <3>1, <3>4, <1>11 DEF Card
  <2>3. dir' \in {NoDir, Len(dirs')} /\ cardLock' \in Seq(Callers \cup {Nobody})
        /\ Len(cardLock') = Len(dirs')
    BY <1>1, <1>11, <2>2 DEF CardTypes
  <2>4. /\ CardTypes' /\ LocksHeld' /\ NothingPinned'
        /\ call'[r] = c /\ \A s \in Callers \ {r} : call'[s] = call[s]
    BY <1>1, <1>2, <1>3, <1>4, <1>5, <1>6, <1>7, <1>11, <2>1, <2>2, <2>3, GrowingKeeps
  <2>5. ASSUME ~foreign' PROVE (AtWork /\ BeingMade /\ Versions /\ Unnamed /\ PinsHold)'
    <3>1. AtWork /\ BeingMade /\ Versions /\ Unnamed /\ PinsHold /\ call[r].at = dir
      BY <1>5, <2>5 DEF CardInv
    <3>2. /\ call[r].card = Card /\ n = Len(Card) + 1
          /\ call[r].does = "update" => Card # NoCard
          /\ call[r].does = "create" => Card = NoCard /\ dirs[dir].folders = {} /\ n = 1
      BY <1>2, <1>11, <3>1 DEF AtWork, Sees, BeingMade, Making, NoCard
    <3>3. AtWork'
      <4> SUFFICES ASSUME NEW s \in Callers, call'[s].at = dir', dir' # NoDir
                   PROVE  Sees(call[s])'
        BY DEF AtWork
      <4>1. CASE s = r
        BY <4>1, <1>3, <1>11, <2>2, <2>4, <3>2 DEF Sees
      <4>2. CASE s # r
        <5>1. Sees(call[s])
          BY <4>2, <1>11, <2>4, <3>1 DEF AtWork
        <5> QED BY <5>1, <4>2, <1>11, <2>2, <2>4 DEF Sees
      <4> QED BY <4>1, <4>2
    <3>4. BeingMade'
      <4> SUFFICES ASSUME NEW s \in Callers, call'[s].does = "create"
                   PROVE  Making(s)' /\ \A q \in Callers : call'[q].does = "create" => q = s
        BY DEF BeingMade
      <4>1. \A q \in Callers : call'[q].does = call[q].does
        BY <1>3, <2>4
      <4>2. call[r].does = "create"
        BY <1>2, <4>1, <3>1, <3>2, NoneMade
      <4>3. s = r /\ \A q \in Callers : call[q].does = "create" => q = s
        BY <4>1, <4>2, <3>1 DEF BeingMade
      <4> QED BY <4>1, <4>3, <4>2, <1>3, <1>11, <2>2, <2>4, <3>1, <3>2 DEF Making
    <3>5. Versions'
      BY <1>11, <2>2, <3>1 DEF Versions
    <3>6. Unnamed'
      <4> SUFFICES ASSUME ~cut', dir' # NoDir
                   PROVE  /\ Card' = NoCard => \E s \in Callers : call'[s].does = "create"
                          /\ \A m \in dirs'[dir'].folders \ DOMAIN Card' : \E s \in Callers :
                                /\ call'[s].pc = "write" /\ call'[s].at = dir'
                                /\ m = Len(Card') + 1 /\ call'[s].assets = m
        BY DEF Unnamed
      <4>1. ASSUME Card' = NoCard PROVE call'[r].does = "create"
        BY <4>1, <1>2, <1>3, <2>2, <2>4, <3>2
      <4>2. ASSUME NEW m \in dirs'[dir'].folders \ DOMAIN Card' PROVE m = n
        <5>1. CASE m = n
          BY <5>1
        <5>2. CASE m \in dirs[dir].folders \ DOMAIN Card
          BY <5>2, <1>5, <1>11, <3>1, <3>2 DEF Unnamed
        <5> QED BY <4>2, <5>1, <5>2, <1>11, <2>2
      <4> QED BY <4>1, <4>2, <1>3, <1>11, <2>2, <2>4, <3>1, <3>2
    <3>7. PinsHold'
      BY <1>5, <1>11, <2>2, <3>1 DEF PinsHold, pinned, NoPin
    <3> QED BY <3>3, <3>4, <3>5, <3>6, <3>7
  <2> QED BY <2>4, <2>5 DEF CardInv
<1> QED BY <1>9, <1>10, <1>11 DEF Copy

LEMMA MoveKeeps ==
    ASSUME CardInv, NEW r \in Callers, Move(r)
    PROVE  CardInv'
<1>1. CardTypes /\ LocksHeld /\ NothingPinned
  BY DEF CardInv
<1>2. /\ call[r].pc = "move" /\ dir' = NoDir /\ UNCHANGED <<dirs, pinned, cardCalls, faults, cut>>
      /\ foreign' \in BOOLEAN /\ (foreign => foreign') /\ (~foreign' => call[r].at = dir)
      /\ call[r].at \in DOMAIN dirs
  BY <1>1 DEF Move, Under, CardTypes, LocksHeld, Carries, Handling
<1>3. EndCall(r)
  BY DEF Move
<1>4. NoCall \in Calls /\ Carries(NoCall) /\ NoCall.pc = "idle" /\ NoCall.does = "nothing"
  BY DEF NoCall, NoDir, NoCard, Calls, Handling, Carries
<1>5. /\ cardLock' \in Seq(Callers \cup {Nobody}) /\ Len(cardLock') = Len(cardLock)
      /\ \A g \in DOMAIN cardLock : cardLock[g] # r => cardLock'[g] = cardLock[g]
  <2>1. cardLock' \in [1..Len(cardLock) -> Callers \cup {Nobody}]
    BY <1>1, <1>3 DEF EndCall, CardTypes
  <2> QED BY <2>1, <1>1, <1>3 DEF EndCall, CardTypes
<1>6. \A s \in Callers \ {r} : call[s].pc \in Handling => cardLock'[call[s].at] = s
  <2> SUFFICES ASSUME NEW s \in Callers \ {r}, call[s].pc \in Handling
               PROVE  cardLock'[call[s].at] = s
    OBVIOUS
  <2>1. cardLock[call[s].at] = s /\ call[s].at \in DOMAIN cardLock
    BY <1>1 DEF LocksHeld, Carries, CardTypes
  <2> QED BY <2>1, <1>5
<1>7. OneCall(r, NoCall) /\ NoCall.pc \notin Handling /\ NoCall.pc # "move"
  BY <1>3, <1>4 DEF EndCall, OneCall, Handling
<1>8. /\ cardCalls' \in Nat /\ faults' \in Nat /\ cut' \in BOOLEAN /\ dirs' \in Seq(Folders)
      /\ Len(cardLock') = Len(dirs') /\ Len(dirs') = Len(dirs)
  BY <1>1, <1>2, <1>5 DEF CardTypes
<1> HIDE DEF NoCall
<1>9. /\ CardTypes' /\ LocksHeld' /\ NothingPinned'
      /\ call'[r] = NoCall /\ \A s \in Callers \ {r} : call'[s] = call[s]
  BY <1>1, <1>2, <1>4, <1>5, <1>6, <1>7, <1>8, GrowingKeeps
<1>10. ASSUME ~foreign' PROVE (AtWork /\ BeingMade /\ Versions /\ Unnamed /\ PinsHold)'
  <2>1. Card # NoCard /\ BeingMade
    BY <1>1, <1>2, <1>10 DEF CardInv, AtWork, Sees, NoDir, CardTypes
  <2>2. \A s \in Callers : call'[s].does # "create"
    BY <1>4, <1>9, <2>1, NoneMade
  <2>3. \A p \in Projects \ raced : pins[p] = NoPin
    BY <1>1, <1>2 DEF NothingPinned
  <2>4. PinsHold'
    BY <1>2, <2>3 DEF PinsHold, pinned, NoPin
  <2> QED BY <1>2, <2>2, <2>4 DEF AtWork, BeingMade, Versions, Unnamed
<1> QED BY <1>9, <1>10 DEF CardInv

LEMMA WriteKeeps ==
    ASSUME CardInv, NEW r \in Callers, Write(r)
    PROVE  CardInv'
<1> DEFINE e == [text |-> call[r].text, assets |-> call[r].assets]
<1> DEFINE new == Append(call[r].card, e)
<1>1. CardTypes /\ LocksHeld /\ NothingPinned
  BY DEF CardInv
<1>2. /\ call[r].pc = "write" /\ call[r] \in Calls /\ call[r].does \in {"create", "update"}
      /\ call[r].does = "create" => call[r].card = NoCard
      /\ call[r].at \in DOMAIN dirs /\ e \in Entries /\ e.assets = call[r].assets
      /\ call[r].card \in Seq(Entries) /\ new \in Seq(Entries)
  BY <1>1 DEF Write, CardTypes, LocksHeld, Carries, Handling, Calls, Entries
<1>3. /\ UNCHANGED <<dir, pinned, cardCalls, faults, cut>> /\ EndCall(r)
      /\ foreign' \in BOOLEAN /\ (foreign => foreign') /\ (~foreign' => call[r].at = dir)
  BY <1>1 DEF Write, Under, CardTypes
<1>4. NoCall \in Calls /\ Carries(NoCall) /\ NoCall.pc = "idle" /\ NoCall.does = "nothing"
      /\ NoCall.at = NoDir
  BY DEF NoCall, NoDir, NoCard, Calls, Handling, Carries
<1>5. /\ cardLock' \in Seq(Callers \cup {Nobody}) /\ Len(cardLock') = Len(cardLock)
      /\ \A g \in DOMAIN cardLock : cardLock[g] # r => cardLock'[g] = cardLock[g]
  <2>1. cardLock' \in [1..Len(cardLock) -> Callers \cup {Nobody}]
    BY <1>1, <1>3 DEF EndCall, CardTypes
  <2> QED BY <2>1, <1>1, <1>3 DEF EndCall, CardTypes
<1>6. \A s \in Callers \ {r} : call[s].pc \in Handling => cardLock'[call[s].at] = s
  <2> SUFFICES ASSUME NEW s \in Callers \ {r}, call[s].pc \in Handling
               PROVE  cardLock'[call[s].at] = s
    OBVIOUS
  <2>1. cardLock[call[s].at] = s /\ call[s].at \in DOMAIN cardLock
    BY <1>1 DEF LocksHeld, Carries, CardTypes
  <2> QED BY <2>1, <1>5
<1>7. OneCall(r, NoCall) /\ NoCall.pc \notin Handling /\ NoCall.pc # "move"
  BY <1>3, <1>4 DEF EndCall, OneCall, Handling
<1>8. dir # NoDir => dir \in DOMAIN dirs /\ dirs[dir] \in Folders
  BY <1>1, CardTyped
<1> HIDE DEF e, new, NoCall
<1>9. /\ dirs' \in Seq(Folders) /\ Len(dirs') = Len(dirs)
      /\ dir # NoDir => dirs'[dir].card = new /\ dirs'[dir].folders = dirs[dir].folders
  <2>1. CASE dir = NoDir
    BY <2>1, <1>1 DEF Write, CardTypes
  <2>2. CASE dir # NoDir
    <3> DEFINE f == [dirs[dir] EXCEPT !.card = new]
    <3>1. f \in Folders /\ f.card = new /\ f.folders = dirs[dir].folders
      BY <1>2, <1>8, <2>2 DEF Folders
    <3>2. dirs' = [dirs EXCEPT ![dir] = f]
      BY <2>2 DEF Write, new, e
    <3> HIDE DEF f
    <3>3. dirs \in Seq(Folders) /\ dir \in DOMAIN dirs
      BY <1>1, <1>8, <2>2 DEF CardTypes
    <3> QED BY <3>1, <3>2, <3>3
  <2> QED BY <2>1, <2>2
<1>10. /\ cardCalls' \in Nat /\ faults' \in Nat /\ cut' \in BOOLEAN
       /\ Len(cardLock') = Len(dirs') /\ dir' \in {NoDir, Len(dirs')}
  BY <1>1, <1>3, <1>5, <1>9 DEF CardTypes
<1>11. /\ CardTypes' /\ LocksHeld' /\ NothingPinned'
       /\ call'[r] = NoCall /\ \A s \in Callers \ {r} : call'[s] = call[s]
  BY <1>1, <1>3, <1>4, <1>5, <1>6, <1>7, <1>9, <1>10, GrowingKeeps
<1>12. ASSUME ~foreign' PROVE (AtWork /\ BeingMade /\ Versions /\ Unnamed /\ PinsHold)'
  <2>1. /\ AtWork /\ BeingMade /\ Versions /\ Unnamed /\ PinsHold
        /\ call[r].at = dir /\ dir # NoDir
    BY <1>1, <1>2, <1>3, <1>12 DEF CardInv, NoDir, CardTypes
  <2>2. Card' = new /\ dirs'[dir'].folders = dirs[dir].folders /\ dir' = dir /\ dir' # NoDir
    BY <1>3, <1>9, <2>1 DEF Card
  <2>3. /\ call[r].card = Card /\ call[r].assets \in dirs[dir].folders
        /\ \A s \in Callers : call[s].does = "create" => s = r
    <3>1. CASE call[r].does = "create"
      BY <3>1, <1>2, <2>1 DEF AtWork, Sees, BeingMade, Making
    <3>2. CASE call[r].does = "update"
      <4>1. call[r].card = Card /\ Card # NoCard /\ call[r].assets \in dirs[dir].folders
        BY <3>2, <1>2, <2>1 DEF AtWork, Sees
      <4> QED BY <4>1, <2>1, NoneMade
    <3> QED BY <1>2, <3>1, <3>2
  <2>4. /\ Card \in Seq(Entries) /\ Card' \in Seq(Entries) /\ Len(Card') = Len(Card) + 1
        /\ \A m \in DOMAIN Card : m \in DOMAIN Card' /\ Card'[m] = Card[m]
        /\ \A m \in DOMAIN Card' : m \in DOMAIN Card \/ Card'[m] = e
        /\ DOMAIN Card' = DOMAIN Card \cup {Len(Card) + 1} /\ Card' # NoCard
    BY <1>2, <2>2, <2>3 DEF new, NoCard
  <2>5. \A s \in Callers : call'[s].does # "create"
    BY <1>4, <1>11, <2>3
  <2>6. AtWork'
    <3> SUFFICES ASSUME NEW s \in Callers, call'[s].at = dir', dir' # NoDir
                 PROVE  Sees(call[s])'
      BY DEF AtWork
    <3>1. s # r /\ call'[s] = call[s] /\ Sees(call[s])
      BY <1>4, <1>11, <2>1, <2>2 DEF AtWork
    <3>2. call[s].pc \notin Handling
      BY <1>1, <1>2, <2>1, <2>2, <3>1, OneAtWork DEF Handling
    <3> QED BY <3>1, <3>2, <2>4 DEF Sees, Handling
  <2>7. BeingMade'
    BY <2>5 DEF BeingMade
  <2>8. Versions'
    BY <1>2, <2>1, <2>2, <2>3, <2>4 DEF Versions
  <2>9. Unnamed'
    <3> SUFFICES ASSUME ~cut', NEW m \in dirs'[dir'].folders \ DOMAIN Card'
                 PROVE  FALSE
      BY <2>4 DEF Unnamed
    <3>1. m \in dirs[dir].folders \ DOMAIN Card
      BY <2>2, <2>4
    <3>2. m = Len(Card) + 1
      BY <3>1, <1>3, <2>1 DEF Unnamed
    <3> QED BY <3>2, <2>4
  <2>10. PinsHold'
    <3>1. \A p \in Projects \ raced : pins[p] # NoPin =>
              /\ pins[p].version \in DOMAIN Card
              /\ Card[pins[p].version].text = pins[p].text
              /\ Card[pins[p].version].assets \in dirs[dir].folders
      BY <2>1 DEF PinsHold
    <3> QED BY <3>1, <1>3, <2>2, <2>4 DEF PinsHold, pinned, NoPin
  <2> QED BY <2>6, <2>7, <2>8, <2>9, <2>10
<1> QED BY <1>11, <1>12 DEF CardInv

LEMMA SetReferencesKeeps ==
    ASSUME CardInv, NEW r \in Callers, SetReferences(r)
    PROVE  CardInv'
<1> DEFINE p == call[r].project
<1> DEFINE n == call[r].assets
<1> DEFINE pin == [version |-> n, text |-> call[r].card[n].text]
<1>1. CardTypes /\ LocksHeld /\ NothingPinned
  BY DEF CardInv
<1>2. /\ call[r].pc = "pin" /\ call[r] \in Calls /\ call[r].at \in DOMAIN dirs
      /\ p \in Projects /\ n \in DOMAIN call[r].card /\ call[r].does # "create"
      /\ SameDirs /\ UNCHANGED <<cardLock, cardCalls, faults, foreign, cut>>
      /\ pins' = [pins EXCEPT ![p] = pin] /\ call' = [call EXCEPT ![r] = NoCall]
      /\ raced' = IF dir # call[r].at \/ \E s \in Callers : call[s].pc = "move"
                  THEN raced \cup {p} ELSE raced \ {p}
  BY <1>1 DEF SetReferences, CardTypes, LocksHeld, Carries
<1>3. n \in Nat /\ call[r].card[n] \in Entries
  BY <1>2 DEF Calls
<1>4. pin \in Pins /\ pin.version = n /\ pin.text = call[r].card[n].text
  BY <1>3 DEF Pins, Entries
<1>5. NoCall \in Calls /\ Carries(NoCall) /\ NoCall.pc = "idle" /\ NoCall.does = "nothing"
      /\ NoCall.at = NoDir
  BY DEF NoCall, NoDir, NoCard, Calls, Handling, Carries
<1> HIDE DEF NoCall, p, n, pin
<1>6. /\ call'[r] = NoCall /\ \A s \in Callers \ {r} : call'[s] = call[s]
      /\ call' \in [Callers -> Calls]
  BY <1>1, <1>2, <1>5 DEF CardTypes
<1>7. /\ pins'[p] = pin /\ \A q \in Projects \ {p} : pins'[q] = pins[q]
      /\ pins' \in [Projects -> Pins]
  BY <1>1, <1>2, <1>4 DEF CardTypes
<1>8. dir' = dir /\ dirs' = dirs /\ Card' = Card
  BY <1>2 DEF SameDirs, Card
<1>9. raced' \in SUBSET Projects
  BY <1>1, <1>2 DEF CardTypes
<1>10. CardTypes'
  BY <1>1, <1>2, <1>6, <1>7, <1>8, <1>9 DEF CardTypes
<1>11. LocksHeld'
  <2> SUFFICES ASSUME NEW s \in Callers
               PROVE  Carries(call[s])' /\ (call'[s].pc \in Handling => cardLock'[call'[s].at] = s)
    BY DEF LocksHeld
  <2>1. CASE s = r
    BY <2>1, <1>5, <1>6, <1>8 DEF Carries, Handling
  <2>2. CASE s # r
    BY <2>2, <1>1, <1>2, <1>6, <1>8 DEF LocksHeld, Carries
  <2> QED BY <2>1, <2>2
<1>12. NothingPinned'
  <2> SUFFICES ASSUME NEW s \in Callers, call'[s].pc = "move", NEW q \in Projects \ raced'
               PROVE  pins'[q] = NoPin
    BY DEF NothingPinned, NoPin
  <2>1. call[s].pc = "move"
    BY <1>5, <1>6
  <2>2. q # p /\ q \notin raced
    BY <2>1, <1>2
  <2> QED BY <2>1, <2>2, <1>1, <1>7 DEF NothingPinned
<1>13. ASSUME ~foreign' PROVE (AtWork /\ BeingMade /\ Versions /\ Unnamed /\ PinsHold)'
  <2>1. AtWork /\ BeingMade /\ Versions /\ Unnamed /\ PinsHold
    BY <1>2, <1>13 DEF CardInv
  <2>2. AtWork'
    <3> SUFFICES ASSUME NEW s \in Callers, call'[s].at = dir', dir' # NoDir
                 PROVE  Sees(call[s])'
      BY DEF AtWork
    <3>1. s # r
      BY <1>5, <1>6
    <3> QED BY <3>1, <2>1, <1>6, <1>8 DEF AtWork, Sees
  <2>3. BeingMade'
    BY <2>1, <1>5, <1>6, <1>8 DEF BeingMade, Making
  <2>4. Versions'
    BY <2>1, <1>8 DEF Versions
  <2>5. Unnamed'
    <3> SUFFICES ASSUME ~cut', dir' # NoDir
                 PROVE  /\ Card' = NoCard => \E s \in Callers : call'[s].does = "create"
                        /\ \A m \in dirs'[dir'].folders \ DOMAIN Card' : \E s \in Callers :
                              /\ call'[s].pc = "write" /\ call'[s].at = dir'
                              /\ m = Len(Card') + 1 /\ call'[s].assets = m
      BY DEF Unnamed
    <3>1. ~cut /\ dir # NoDir
      BY <1>2, <1>8
    <3>2. ASSUME Card' = NoCard PROVE \E s \in Callers : call'[s].does = "create"
      <4>1. PICK s \in Callers : call[s].does = "create"
        BY <3>1, <3>2, <2>1, <1>8 DEF Unnamed
      <4> QED BY <4>1, <1>2, <1>6
    <3>3. ASSUME NEW m \in dirs'[dir'].folders \ DOMAIN Card'
          PROVE  \E s \in Callers : /\ call'[s].pc = "write" /\ call'[s].at = dir'
                                    /\ m = Len(Card') + 1 /\ call'[s].assets = m
      <4>1. PICK s \in Callers : /\ call[s].pc = "write" /\ call[s].at = dir
                                 /\ m = Len(Card) + 1 /\ call[s].assets = m
        BY <3>1, <3>3, <2>1, <1>8 DEF Unnamed
      <4> QED BY <4>1, <1>2, <1>6, <1>8
    <3> QED BY <3>2, <3>3
  <2>6. PinsHold'
    <3> DEFINE Held(q, pn) == pn # NoPin =>
              /\ Card # NoCard /\ pn.version \in DOMAIN Card
              /\ Card[pn.version].text = pn.text
              /\ Card[pn.version].assets \in dirs[dir].folders
    <3>1. \A q \in Projects \ raced : Held(q, pins[q])
      BY <2>1 DEF PinsHold
    <3>2. ASSUME NEW q \in Projects \ raced' PROVE Held(q, pins'[q])
      <4>1. CASE q # p
        BY <4>1, <3>1, <3>2, <1>2, <1>7
      <4>2. CASE q = p
        <5>1. dir = call[r].at /\ dir # NoDir
          BY <4>2, <3>2, <1>1, <1>2 DEF CardTypes, NoDir
        <5>2. n \in DOMAIN Card /\ Card[n] = call[r].card[n]
          BY <5>1, <2>1, <1>2 DEF AtWork, Sees
        <5>3. Card[n].assets \in dirs[dir].folders
          BY <5>1, <5>2, <2>1 DEF Versions
        <5>4. Card # NoCard
          BY <5>2 DEF NoCard
        <5> QED BY <4>2, <5>2, <5>3, <5>4, <1>4, <1>7
      <4> QED BY <4>1, <4>2
    <3> QED BY <3>2, <1>8 DEF PinsHold, NoPin
  <2> QED BY <2>2, <2>3, <2>4, <2>5, <2>6
<1> QED BY <1>10, <1>11, <1>12, <1>13 DEF CardInv

LEMMA UnpinKeeps ==
    ASSUME CardInv, NEW p \in Projects, Unpin(p)
    PROVE  CardInv'
<1>1. CardTypes /\ LocksHeld /\ NothingPinned
  BY DEF CardInv
<1>2. /\ pins' = [pins EXCEPT ![p] = NoPin] /\ raced' = raced \ {p} /\ dir' = dir /\ dirs' = dirs
      /\ UNCHANGED <<cardLock, call, cardCalls, faults, foreign, cut>>
  BY DEF Unpin, SameDirs
<1>3. NoPin \in Pins
  BY DEF NoPin, Pins
<1>4. /\ pins' \in [Projects -> Pins] /\ pins'[p] = NoPin
      /\ \A q \in Projects \ {p} : pins'[q] = pins[q]
  BY <1>1, <1>2, <1>3 DEF CardTypes
<1>5. Card' = Card
  BY <1>2 DEF Card
<1>6. CardTypes'
  BY <1>1, <1>2, <1>4 DEF CardTypes
<1>7. LocksHeld'
  BY <1>1, <1>2 DEF LocksHeld, Carries
<1>8. \A q \in Projects \ raced' : pins'[q] = NoPin \/ (q \notin raced /\ pins'[q] = pins[q])
  BY <1>2, <1>4
<1>9. NothingPinned'
  BY <1>1, <1>2, <1>8 DEF NothingPinned, NoPin
<1>10. ASSUME ~foreign' PROVE (AtWork /\ BeingMade /\ Versions /\ Unnamed /\ PinsHold)'
  <2>1. AtWork /\ BeingMade /\ Versions /\ Unnamed /\ PinsHold
    BY <1>2, <1>10 DEF CardInv
  <2>2. AtWork' /\ BeingMade' /\ Versions' /\ Unnamed'
    BY <2>1, <1>2, <1>5 DEF AtWork, Sees, BeingMade, Making, Versions, Unnamed
  <2>3. PinsHold'
    BY <2>1, <1>2, <1>5, <1>8 DEF PinsHold, NoPin
  <2> QED BY <2>2, <2>3
<1> QED BY <1>6, <1>7, <1>9, <1>10 DEF CardInv

\* The death of the panel ends every request and frees every lock.
LEMMA PanelDiesKeeps ==
    ASSUME CardInv, PanelDies
    PROVE  CardInv'
<1>1. CardTypes
  BY DEF CardInv
<1>2. /\ call' = [r \in Callers |-> NoCall] /\ cardLock' = [g \in DOMAIN cardLock |-> Nobody]
      /\ cut' = (cut \/ \E r \in Callers : Halfway(r))
      /\ UNCHANGED <<dir, dirs, pins, raced, cardCalls, foreign>>
  BY DEF PanelDies, SameDirs, pinned
<1>3. NoCall \in Calls /\ Carries(NoCall) /\ NoCall.pc = "idle" /\ NoCall.does = "nothing"
      /\ NoCall.at = NoDir
  BY DEF NoCall, NoDir, NoCard, Calls, Handling, Carries
<1> HIDE DEF NoCall
<1>4. Card' = Card
  BY <1>2 DEF Card
<1>5. CardTypes'
  <2>1. cardLock' \in [1..Len(cardLock) -> Callers \cup {Nobody}]
    BY <1>1, <1>2 DEF CardTypes
  <2>2. cardLock' \in Seq(Callers \cup {Nobody}) /\ Len(cardLock') = Len(cardLock)
    BY <2>1, <1>1 DEF CardTypes
  <2>3. faults' \in Nat /\ cut' \in BOOLEAN /\ call' \in [Callers -> Calls]
    BY <1>1, <1>2, <1>3 DEF PanelDies, Fault, CardTypes
  <2> QED BY <2>2, <2>3, <1>1, <1>2 DEF CardTypes
<1>6. LocksHeld'
  BY <1>2, <1>3 DEF LocksHeld, Carries, Handling
<1>7. NothingPinned'
  BY <1>2, <1>3 DEF NothingPinned
<1>8. ASSUME ~foreign' PROVE (AtWork /\ BeingMade /\ Versions /\ Unnamed /\ PinsHold)'
  <2>1. AtWork /\ BeingMade /\ Versions /\ Unnamed /\ PinsHold
    BY <1>2, <1>8 DEF CardInv
  <2>2. AtWork' /\ BeingMade'
    BY <1>2, <1>3 DEF AtWork, BeingMade
  <2>3. Versions' /\ PinsHold'
    BY <2>1, <1>2, <1>4 DEF Versions, PinsHold, NoPin
  <2>4. Unnamed'
    <3>1. SUFFICES ASSUME ~cut', dir # NoDir
                   PROVE  Card # NoCard /\ dirs[dir].folders \subseteq DOMAIN Card
      BY <1>2, <1>4 DEF Unnamed
    <3>2. ~cut /\ \A r \in Callers : ~Halfway(r)
      BY <3>1, <1>1, <1>2 DEF CardTypes
    <3>3. \A r \in Callers : call[r].does # "create"
      BY <3>2 DEF Halfway
    <3>4. Card # NoCard
      BY <2>1, <3>1, <3>2, <3>3 DEF Unnamed
    <3>5. ASSUME NEW n \in dirs[dir].folders \ DOMAIN Card PROVE FALSE
      <4>1. PICK s \in Callers : /\ call[s].pc = "write" /\ call[s].at = dir
                                 /\ n = Len(Card) + 1 /\ call[s].assets = n
        BY <2>1, <3>1, <3>2, <3>5 DEF Unnamed
      <4>2. call[s].does = "update"
        BY <4>1, <3>3 DEF CardInv, LocksHeld, Carries
      <4>3. call[s].card = Card
        BY <4>1, <4>2, <2>1, <3>1 DEF AtWork, Sees
      <4> QED BY <4>1, <4>3, <3>2 DEF Halfway
    <3> QED BY <3>4, <3>5
  <2> QED BY <2>2, <2>3, <2>4
<1> QED BY <1>5, <1>6, <1>7, <1>8 DEF CardInv

\* Every step keeps the invariant.
LEMMA CardNextInv ==
    ASSUME CardInv, [CardNext]_cardVars
    PROVE  CardInv'
<1>1. ASSUME NEW r \in Callers, CardStep(r) PROVE CardInv'
  BY <1>1, CreateKeeps, CallKeeps, OpenKeeps, FlockKeeps, ReadCardKeeps, CopyKeeps, WriteKeeps,
     ScanPinsKeeps, MoveKeeps, SetReferencesKeeps, FailKeeps, LookUpKeeps DEF CardStep
<1>2. CASE UNCHANGED cardVars
  BY <1>2 DEF cardVars, CardInv, CardTypes, LocksHeld, Carries, NothingPinned, AtWork, Sees,
              BeingMade, Making, Versions, Unnamed, PinsHold, Card
<1> QED BY <1>1, <1>2, UnpinKeeps, PanelDiesKeeps DEF CardNext

\* The invariant says what the property does.
LEMMA CardInvHolds == CardInv => CardsHold
<1> SUFFICES ASSUME CardInv, ~foreign PROVE PinsHold /\ TagUsable
  BY DEF CardsHold
<1>1. PinsHold /\ Unnamed /\ LocksHeld
  BY DEF CardInv
<1>2. TagUsable
  <2> SUFFICES ASSUME \A r \in Callers : call[r].pc = "idle", ~cut, dir # NoDir
               PROVE  Card # NoCard /\ dirs[dir].folders \subseteq DOMAIN Card
    BY DEF TagUsable
  <2>1. \A r \in Callers : call[r].does # "create"
    BY <1>1 DEF LocksHeld, Carries
  <2> QED BY <2>1, <1>1 DEF Unnamed
<1> QED BY <1>1, <1>2

\* What the requests of the panel, their locks and the pins of the projects are, in
\* every state (library.py, web.py).
THEOREM CardStaysTyped == CardSpec => []CardTypes
<1>1. CardInit => CardInv
  BY CardInitInv
<1>2. CardInv /\ [CardNext]_cardVars => CardInv'
  BY CardNextInv
<1>3. CardInv => CardTypes
  BY DEF CardInv
<1> QED BY <1>1, <1>2, <1>3, PTL DEF CardSpec

\* What a project pinned is there with its files, as it was pinned, and no tag is taken
\* without a card that can be used, for any number of requests, projects and faults:
\* create_card, update_card and delete_card under the lock of the card's directory,
\* set_references without it.
THEOREM CardsAreKept == CardSpec => []CardsHold
<1>1. CardInit => CardInv
  BY CardInitInv
<1>2. CardInv /\ [CardNext]_cardVars => CardInv'
  BY CardNextInv
<1>3. CardInv => CardsHold
  BY CardInvHolds
<1> QED BY <1>1, <1>2, <1>3, PTL DEF CardSpec
================================================================================
