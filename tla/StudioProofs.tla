----------------------------- MODULE StudioProofs -----------------------------
(***************************************************************************)
(* The studio's safety.                                                    *)
(*                                                                         *)
(* StudioWorker, for any number of tasks, deaths and exceptions: the       *)
(* inductive invariant says what the row of the worker's task shows at     *)
(* each place (Followed), what is left to a recovery (Owed), that nobody   *)
(* else is busy (Settled, Alone), who cannot be in ComfyUI (Unsent), and   *)
(* what the worker knows of the engine it holds (Held).                    *)
(*                                                                         *)
(* StudioTabs, for any number of tabs, scenes, words and lost requests:    *)
(* TabsInv says that whatever a tab or a request in flight holds of a      *)
(* scene is no newer than the project's and, with the same edit number,    *)
(* the same (Known, Seen), that ids are never given twice, that a save on  *)
(* its way carries the dirty fields (Unsaved), and which cards a page      *)
(* shows (PageOf).                                                         *)
(***************************************************************************)
EXTENDS StudioWorker, StudioTabs, FiniteSetTheorems, TLAPS

RowType ==
    /\ status \in [Task -> Statuses] /\ pressed \in SUBSET Task
    /\ attempts \in [Task -> 0..1] /\ ref \in [Task -> Refs]
    /\ restarted \in SUBSET Task
WorkerType ==
    /\ pc \in Places /\ cur \in Task \cup {NoTask} /\ from \in {"loop", "cut", "rows"}
    /\ todo \in SUBSET Task /\ got \in Refs /\ errors \in 0..(MaxStatusErrors - 1)
ComfyType ==
    /\ engine \in {"off", "starting", "up"}
    /\ prompt \in [Task -> Listed \cup {"none", "sent"}] /\ files \in SUBSET Task
    /\ faults \in 0..MaxFaults /\ doubled \in SUBSET Task
Flags ==
    /\ asked \in BOOLEAN /\ acquired \in BOOLEAN /\ own \in BOOLEAN
    /\ blind \in BOOLEAN /\ slipped \in BOOLEAN

Idling == {"dead", "recover", "cut", "rows", "loop"}
AtRest == Ends \cup {"new", "queued", "submit_unknown"}
Following == {"follow", "poll", "find", "lost", "download", "verify", "stop", "stopwait"}
Uncertain == {"submit_unknown", "cancelled"}

\* The row of the worker's task, by the worker's place.
Shown ==
    /\ pc \in {"spec", "gate"} => status[cur] = "waiting_gpu"
    /\ pc = "probe" => status[cur] = "waiting_ready"
    /\ pc \in {"submit", "answer"} => status[cur] = "submitting"
    /\ pc = "ask" => status[cur] \in Uncertain
    /\ pc = "adopt" => status[cur] \in Uncertain \cup {"submitting"} /\ got # "none"
    /\ pc \in {"regate", "follow", "poll", "find", "lost"} => status[cur] \in Accepted
    /\ pc = "download" => status[cur] = "downloading"
    /\ pc = "verify" => status[cur] = "verifying"
    /\ pc \in {"stop", "stopwait"} => status[cur] = "cancelling"

Followed ==
    /\ pc \in Idling => cur = NoTask
    /\ pc \notin Idling => cur \in Task /\ Shown

\* The phases of a recovery and what each has left.
Owed ==
    /\ pc \in {"dead", "recover", "loop", "spec", "gate", "probe", "submit", "answer", "ask"}
       => from = "loop"
    /\ pc \in {"cut", "rows"} => from = pc
    /\ from = "loop" => todo = {}
    /\ cur \notin todo
    /\ from = "cut" => \A t \in todo : status[t] \in Uncertain
    /\ from = "rows" => \A t \in todo : status[t] \in Accepted

\* A task that is on the engine says where.
Referred == \A t \in Task : status[t] \in Accepted => ref[t] # "none"

Settled ==
    pc \in {"dead", "recover"} \/ (blind /\ from = "loop") \/ \A t \in Task \ (todo \cup {cur}) :
        status[t] \in AtRest \/ (from = "cut" /\ status[t] \in Accepted)

Busy(t) == status[t] \in OnEngine \/ t = cur \/ t \in todo

Alone == blind \/ \A t, u \in Task : Busy(t) /\ Busy(u) => t = u

\* Nobody is taken for unsent whose request is on its way, or taken, or answered.
Unsent(t) ==
    \/ status[t] \in {"new", "queued"} \cup Waiting
    \/ t = cur /\ pc \in {"submit", "lost"}

Sent ==
    /\ OneCopy
    /\ \A t \in Task :
          /\ Unsent(t) => prompt[t] \notin {"sent", "live"} /\ t \notin files
          /\ prompt[t] = "sent" => t \notin files
          /\ prompt[t] = "sent" => status[t] \notin Accepted /\ ~(t = cur /\ pc = "adopt")
    /\ pc = "find" => prompt[cur] \notin {"sent", "live"}

Held == own /\ ~InGate => acquired \/ ~asked \/ slipped

IInv == TypeOK /\ Followed /\ Owed /\ Referred /\ Settled /\ Alone /\ Sent /\ Held

\* Nothing was enqueued.
LEMMA InitInv == Init => IInv
<1> SUFFICES ASSUME Init PROVE IInv
  OBVIOUS
<1> USE StudioAssumption DEF Init, Task, NoTask
<1>1. RowType /\ WorkerType /\ ComfyType
  BY DEF RowType, WorkerType, ComfyType, Statuses, Places, Refs, Listed
<1>2. Flags
  BY Zenon DEF Flags
<1>3. TypeOK
  BY <1>1, <1>2 DEF RowType, WorkerType, ComfyType, Flags, TypeOK
<1>4. Followed /\ Owed /\ Referred /\ Settled /\ Alone
  BY DEF Followed, Owed, Referred, Settled, Alone, Busy, Idling, AtRest, OnEngine,
     Accepted
<1>5. Sent /\ Held
  BY DEF Sent, OneCopy, Unsent, Waiting, Held, InGate, At
<1> QED
  BY <1>3, <1>4, <1>5 DEF IInv

\* The worker leaves a task, goes on with it, or polls once more.
LEMMA WorkerMoves ==
    ASSUME WorkerType
    PROVE  /\ Leave => WorkerType'
           /\ \A place \in Places : Goto(place) \/ Polled(place) => WorkerType'
           /\ \A found \in Refs : Heard(found) => WorkerType'
           /\ Missed => WorkerType'
<1> USE StudioAssumption DEF WorkerType, Places, Refs
<1>1. ASSUME Leave PROVE WorkerType'
  <2>1. cur' \in Task \cup {NoTask} /\ todo' \in SUBSET Task /\ got' \in Refs
        /\ from' \in {"loop", "cut", "rows"} /\ pc' = from
    BY <1>1 DEF Leave
  <2>2. errors' \in 0..(MaxStatusErrors - 1)
    BY <1>1 DEF Leave
  <2> QED
    BY <2>1, <2>2
<1>2. ASSUME NEW place \in Places, Goto(place) \/ Polled(place) PROVE WorkerType'
  BY <1>2 DEF Goto, Polled
<1>3. ASSUME NEW found \in Refs, Heard(found) PROVE WorkerType'
  BY <1>3 DEF Heard
<1>4. ASSUME Missed PROVE WorkerType'
  BY <1>4 DEF Missed
<1> QED
  BY <1>1, <1>2, <1>3, <1>4

\* Going on with a task, or leaving it, keeps what a recovery owes.
LEMMA OwedOn ==
    ASSUME TypeOK, Followed, Owed, pc \notin Idling,
           \A t \in todo : status'[t] = status[t],
           \/ Leave
           \/ /\ UNCHANGED <<cur, from, todo>>
              /\ \/ pc' \in Following
                 \/ pc' = "probe" /\ from = "loop"
    PROVE  Owed'
<1> USE DEF TypeOK, Followed, Owed, Idling, Following
<1>1. NoTask \notin todo
  BY DEF Task, NoTask
<1>2. CASE Leave
  BY <1>1, <1>2 DEF Leave
<1>3. CASE ~Leave
  BY <1>3
<1> QED
  BY <1>2, <1>3

\* Every write keeps the types of the rows.
LEMMA StepRows ==
    ASSUME IInv, [Next]_vars
    PROVE  RowType'
<1> USE StudioAssumption
<1> SUFFICES ASSUME RowType, WorkerType PROVE RowType'
  BY DEF IInv, TypeOK, RowType, WorkerType, ComfyType, Flags
<1> USE DEF RowType, WorkerType, Statuses, Refs, Ends, Waiting, Accepted, OnEngine,
   rows, worker, idle, comfy, bounds, At, Goto, Afresh, Leave, Status, End, Unknown,
   Fail, Cancelled, Task, NoTask
<1>1. ASSUME Recover PROVE RowType'
  BY <1>1 DEF Recover
<1>2. ASSUME Claim PROVE RowType'
  BY <1>2 DEF Claim, Queued
<1>3. ASSUME Build PROVE RowType'
  BY <1>3 DEF Build
<1>4. ASSUME GateReady PROVE RowType'
  BY <1>4 DEF GateReady
<1>5. ASSUME GateCancelled PROVE RowType'
  BY <1>5 DEF GateCancelled
<1>6. ASSUME GateFails PROVE RowType'
  BY <1>6 DEF GateFails, EngineGone
<1>7. ASSUME Probe PROVE RowType'
  BY <1>7 DEF Probe, ProbeReady
<1>8. ASSUME Submit PROVE RowType'
  BY <1>8 DEF Submit
<1>9. ASSUME Answer PROVE RowType'
  BY <1>9 DEF Answer, Heard
<1>10. ASSUME Adopt PROVE RowType'
  BY <1>10 DEF Adopt
<1>11. ASSUME Follow PROVE RowType'
  BY <1>11 DEF Follow
<1>12. ASSUME Poll PROVE RowType'
  BY <1>12 DEF Poll, Says, Polled, Missed
<1>13. ASSUME FollowFind PROVE RowType'
  BY <1>13 DEF FollowFind, Find
<1>14. ASSUME Lost PROVE RowType'
  <2>1. CASE Unknown \/ Cancelled \/ Fail
    BY <2>1
  <2>2. CASE /\ status' = [status EXCEPT ![cur] = "queued"]
             /\ attempts' = [attempts EXCEPT ![cur] = 1]
             /\ ref' = [ref EXCEPT ![cur] = "none"] /\ restarted' = restarted \ {cur}
             /\ UNCHANGED pressed
    <3>1. attempts' \in [Task -> 0..1]
      <4>1. attempts' = [attempts EXCEPT ![cur] = 1] /\ attempts \in [Task -> 0..1]
        BY <2>2
      <4>2. 1 \in 0..1
        OBVIOUS
      <4> QED
        BY ONLY <4>1, <4>2
    <3>3. pressed' \in SUBSET Task
      BY <2>2
    <3>2. status' \in [Task -> Statuses] /\ ref' \in [Task -> Refs] /\ restarted' \in SUBSET Task
      BY <2>2
    <3> QED
      BY <3>1, <3>2, <3>3
  <2> QED
    BY <1>14, <2>1, <2>2 DEF Lost
<1>15. ASSUME Download PROVE RowType'
  BY <1>15 DEF Download
<1>16. ASSUME Verify PROVE RowType'
  BY <1>16 DEF Verify
<1>17. ASSUME StopWait PROVE RowType'
  BY <1>17 DEF StopWait
<1>18. ASSUME GateStarts PROVE RowType'
  BY <1>18 DEF GateStarts, NewEngine
<1>19. ASSUME OtherStarts PROVE RowType'
  BY <1>19 DEF OtherStarts, NewEngine
<1>20. ASSUME Raise PROVE RowType'
  BY <1>20 DEF Raise
<1>21. ASSUME NEW t \in Task, Enqueue(t) PROVE RowType'
  BY <1>21 DEF Enqueue
<1>22. ASSUME NEW t \in Task, Press(t) PROVE RowType'
  BY <1>22 DEF Press
<1>23. ASSUME CutFind \/ RecoverRows \/ Resume \/ Recovered \/ Ask \/ StopAsk
               \/ Start \/ RecoverFails \/ Die \/ IdleAsks \/ IdleReleases
               \/ EngineBoots \/ EngineEnds
       PROVE  RowType'
  <2>1. UNCHANGED rows
    BY <1>23 DEF CutFind, RecoverRows, Resume, Recovered, Ask, StopAsk, Start,
       RecoverFails, Die, IdleAsks, IdleReleases, EngineBoots, EngineEnds, Find, Find,
       Heard, Queued, Queued, EngineGone, EngineGone
  <2> QED
    BY <2>1
<1>24. ASSUME NEW t \in Task,
         EngineTakes(t) \/ EngineFinishes(t) \/ Meddle(t)
       PROVE  RowType'
  <2>1. UNCHANGED rows
    BY <1>24 DEF EngineTakes, EngineFinishes, Meddle
  <2> QED
    BY <2>1
<1>25. ASSUME UNCHANGED vars PROVE RowType'
  BY <1>25 DEF vars
<1> QED
  BY <1>1, <1>2, <1>3, <1>4, <1>5, <1>6, <1>7, <1>8, <1>9, <1>10, <1>11, <1>12, <1>13,
     <1>14, <1>15, <1>16, <1>17, <1>18, <1>19, <1>20, <1>21, <1>22, <1>23, <1>24,
     <1>25 DEF Next, Step, World

\* Every step keeps the types of the worker's own variables.
LEMMA StepWorker ==
    ASSUME IInv, [Next]_vars
    PROVE  WorkerType'
<1> USE StudioAssumption
<1> SUFFICES ASSUME WorkerType PROVE WorkerType'
  BY DEF IInv, TypeOK, RowType, WorkerType, ComfyType, Flags
<1> USE DEF worker, WorkerType
<1>1. ASSUME Recover PROVE WorkerType'
  BY <1>1 DEF Recover, At, WorkerType, Places, Task
<1>2. ASSUME CutFind PROVE WorkerType'
  BY <1>2 DEF CutFind, Find, At, WorkerType, Places, Refs
<1>3. ASSUME RecoverRows PROVE WorkerType'
  BY <1>3 DEF RecoverRows, At, WorkerType, Places
<1>4. ASSUME Resume PROVE WorkerType'
  BY <1>4 DEF Resume, At, WorkerType, Places
<1>5. ASSUME Recovered PROVE WorkerType'
  BY <1>5 DEF Recovered, Afresh, WorkerType, Places, Refs, NoTask
<1>6. ASSUME Claim PROVE WorkerType'
  BY <1>6 DEF Claim, Queued, WorkerType, Places
<1>7. ASSUME Build PROVE WorkerType'
  BY <1>7, WorkerMoves DEF Build, Fail, Places, Refs
<1>8. ASSUME GateReady PROVE WorkerType'
  BY <1>8 DEF GateReady, Goto, WorkerType, Places
<1>9. ASSUME GateCancelled PROVE WorkerType'
  BY <1>9, WorkerMoves DEF GateCancelled, Cancelled, Places, Refs
<1>10. ASSUME GateFails PROVE WorkerType'
  BY <1>10, WorkerMoves DEF GateFails, Fail, Unknown, Places, Refs
<1>11. ASSUME Probe PROVE WorkerType'
  BY <1>11, WorkerMoves DEF Probe, Cancelled, Fail, Places, Refs
<1>12. ASSUME Submit PROVE WorkerType'
  BY <1>12, WorkerMoves DEF Submit, Fail, Places, Refs
<1>13. ASSUME Answer PROVE WorkerType'
  BY <1>13, WorkerMoves DEF Answer, Fail, Places, Refs
<1>14. ASSUME Ask PROVE WorkerType'
  BY <1>14, WorkerMoves DEF Ask, Find, Places, Refs
<1>15. ASSUME Adopt PROVE WorkerType'
  BY <1>15 DEF Adopt, WorkerType, Places, Refs
<1>16. ASSUME Follow PROVE WorkerType'
  BY <1>16 DEF Follow, Goto, WorkerType, Places
<1>17. ASSUME Poll PROVE WorkerType'
  BY <1>17, WorkerMoves DEF Poll, Unknown, Fail, Places, Refs
<1>18. ASSUME FollowFind PROVE WorkerType'
  BY <1>18, WorkerMoves DEF FollowFind, Unknown, Find, Places, Refs
<1>19. ASSUME Lost PROVE WorkerType'
  BY <1>19, WorkerMoves DEF Lost, Unknown, Cancelled, Fail, Places, Refs
<1>20. ASSUME Download PROVE WorkerType'
  BY <1>20, WorkerMoves DEF Download, Fail, Places, Refs
<1>21. ASSUME Verify PROVE WorkerType'
  BY <1>21, WorkerMoves DEF Verify, Cancelled, Fail, Places, Refs
<1>22. ASSUME StopAsk PROVE WorkerType'
  BY <1>22 DEF StopAsk, Goto, WorkerType, Places
<1>23. ASSUME StopWait PROVE WorkerType'
  BY <1>23, WorkerMoves DEF StopWait, Cancelled
<1>24. ASSUME Start PROVE WorkerType'
  BY <1>24 DEF Start, Goto, WorkerType, Places
<1>25. ASSUME RecoverFails PROVE WorkerType'
  BY <1>25 DEF RecoverFails, Afresh, WorkerType, Places, Refs, NoTask
<1>26. ASSUME Raise PROVE WorkerType'
  BY <1>26, WorkerMoves DEF Raise, Unknown, Fail, Places, Refs
<1>27. ASSUME Die PROVE WorkerType'
  BY <1>27 DEF Die, Afresh, WorkerType, Places, Refs, NoTask
<1>28. ASSUME GateStarts \/ IdleAsks \/ IdleReleases \/ EngineBoots \/ EngineEnds
               \/ OtherStarts
       PROVE  WorkerType'
  <2>1. UNCHANGED worker
    BY <1>28 DEF GateStarts, IdleAsks, IdleReleases, EngineBoots, EngineEnds,
       OtherStarts, NewEngine, Queued, Queued, EngineGone, EngineGone, NewEngine
  <2> QED
    BY <2>1
<1>29. ASSUME NEW t \in Task,
         EngineTakes(t) \/ EngineFinishes(t) \/ Meddle(t) \/ Enqueue(t)
               \/ Press(t)
       PROVE  WorkerType'
  <2>1. UNCHANGED worker
    BY <1>29 DEF EngineTakes, EngineFinishes, Meddle, Enqueue, Press
  <2> QED
    BY <2>1
<1>30. ASSUME UNCHANGED vars PROVE WorkerType'
  BY <1>30 DEF vars
<1> QED
  BY <1>1, <1>2, <1>3, <1>4, <1>5, <1>6, <1>7, <1>8, <1>9, <1>10, <1>11, <1>12, <1>13,
     <1>14, <1>15, <1>16, <1>17, <1>18, <1>19, <1>20, <1>21, <1>22, <1>23, <1>24,
     <1>25, <1>26, <1>27, <1>28, <1>29, <1>30 DEF Next, Step, World

\* ComfyUI's variables and the bounds keep their types.
LEMMA StepComfy ==
    ASSUME IInv, [Next]_vars
    PROVE  ComfyType'
<1> USE StudioAssumption
<1> SUFFICES ASSUME ComfyType, Followed PROVE ComfyType'
  BY DEF IInv, TypeOK, RowType, WorkerType, ComfyType, Flags
<1> USE DEF ComfyType, Followed, Idling, Listed, rows, worker, idle, comfy, bounds,
   At, Goto, Afresh, Leave, Status, End, Unknown, Fail, Cancelled, Task, NoTask
<1>1. ASSUME IdleReleases PROVE ComfyType'
  BY <1>1 DEF IdleReleases, Queued, EngineGone
<1>2. ASSUME GateStarts PROVE ComfyType'
  BY <1>2 DEF GateStarts, NewEngine
<1>3. ASSUME GateFails PROVE ComfyType'
  BY <1>3 DEF GateFails, EngineGone
<1>4. ASSUME Submit PROVE ComfyType'
  BY <1>4 DEF Submit
<1>5. ASSUME Answer PROVE ComfyType'
  BY <1>5 DEF Answer, Heard
<1>6. ASSUME StopAsk PROVE ComfyType'
  BY <1>6 DEF StopAsk
<1>7. ASSUME RecoverFails PROVE ComfyType'
  BY <1>7 DEF RecoverFails
<1>8. ASSUME Raise PROVE ComfyType'
  BY <1>8 DEF Raise
<1>9. ASSUME Die PROVE ComfyType'
  BY <1>9 DEF Die
<1>10. ASSUME EngineBoots PROVE ComfyType'
  BY <1>10 DEF EngineBoots
<1>11. ASSUME EngineEnds PROVE ComfyType'
  BY <1>11 DEF EngineEnds, EngineGone
<1>12. ASSUME OtherStarts PROVE ComfyType'
  BY <1>12 DEF OtherStarts, NewEngine
<1>13. ASSUME NEW t \in Task, EngineTakes(t) PROVE ComfyType'
  BY <1>13 DEF EngineTakes
<1>14. ASSUME NEW t \in Task, EngineFinishes(t) PROVE ComfyType'
  BY <1>14 DEF EngineFinishes
<1>15. ASSUME NEW t \in Task, Meddle(t) PROVE ComfyType'
  BY <1>15 DEF Meddle
<1>16. ASSUME Recover \/ CutFind \/ RecoverRows \/ Resume \/ Recovered \/ Claim
               \/ Build \/ GateReady \/ GateCancelled \/ Probe \/ Ask \/ Adopt
               \/ Follow \/ Poll \/ FollowFind \/ Lost \/ Download \/ Verify
               \/ StopWait \/ Start \/ IdleAsks
       PROVE  ComfyType'
  <2>1. UNCHANGED <<engine, prompt, files, faults, doubled>>
    BY <1>16 DEF Recover, CutFind, RecoverRows, Resume, Recovered, Claim, Build,
       GateReady, GateCancelled, Probe, Ask, Adopt, Follow, Poll, FollowFind, Lost,
       Download, Verify, StopWait, Start, IdleAsks, Find, Queued, ProbeReady, Find,
       Heard, Says, Polled, Missed, Find, Queued
  <2> QED
    BY <2>1
<1>17. ASSUME NEW t \in Task,
         Enqueue(t) \/ Press(t)
       PROVE  ComfyType'
  <2>1. UNCHANGED <<engine, prompt, files, faults, doubled>>
    BY <1>17 DEF Enqueue, Press
  <2> QED
    BY <2>1
<1>18. ASSUME UNCHANGED vars PROVE ComfyType'
  BY <1>18 DEF vars
<1> QED
  BY <1>1, <1>2, <1>3, <1>4, <1>5, <1>6, <1>7, <1>8, <1>9, <1>10, <1>11, <1>12, <1>13,
     <1>14, <1>15, <1>16, <1>17, <1>18 DEF Next, Step, World

\* The flags stay flags.
LEMMA StepFlags ==
    ASSUME IInv, [Next]_vars
    PROVE  Flags'
<1> USE StudioAssumption
<1> SUFFICES ASSUME Flags PROVE Flags'
  BY DEF IInv, TypeOK, RowType, WorkerType, ComfyType, Flags
<1> USE DEF Flags, rows, worker, idle, comfy, bounds
<1>1. ASSUME Recovered PROVE Flags'
  BY <1>1, Zenon DEF Recovered, InGate
<1>2. ASSUME RecoverFails PROVE Flags'
  BY <1>2, Zenon DEF RecoverFails, InGate
<1>3. ASSUME IdleAsks PROVE Flags'
  BY <1>3, Zenon DEF IdleAsks, Queued, InGate
<1>4. ASSUME IdleReleases PROVE Flags'
  BY <1>4, Zenon DEF IdleReleases, Queued, EngineGone, InGate
<1>5. ASSUME GateStarts PROVE Flags'
  BY <1>5, Zenon DEF GateStarts, NewEngine, InGate
<1>6. ASSUME GateReady PROVE Flags'
  BY <1>6, Zenon DEF GateReady, InGate
<1>7. ASSUME GateCancelled PROVE Flags'
  BY <1>7, Zenon DEF GateCancelled, InGate
<1>8. ASSUME GateFails PROVE Flags'
  BY <1>8, Zenon DEF GateFails, EngineGone, InGate
<1>9. ASSUME Raise PROVE Flags'
  BY <1>9, Zenon DEF Raise, InGate
<1>10. ASSUME Die PROVE Flags'
  BY <1>10, Zenon DEF Die, InGate
<1>11. ASSUME EngineEnds PROVE Flags'
  BY <1>11, Zenon DEF EngineEnds, EngineGone, InGate
<1>12. ASSUME Recover \/ CutFind \/ RecoverRows \/ Resume \/ Claim \/ Build \/ Probe
               \/ Submit \/ Answer \/ Ask \/ Adopt \/ Follow \/ Poll \/ FollowFind
               \/ Lost \/ Download \/ Verify \/ StopAsk \/ StopWait \/ Start
               \/ EngineBoots \/ OtherStarts
       PROVE  Flags'
  <2>1. UNCHANGED <<asked, acquired, own, blind, slipped>>
    BY <1>12 DEF Recover, CutFind, RecoverRows, Resume, Claim, Build, Probe, Submit,
       Answer, Ask, Adopt, Follow, Poll, FollowFind, Lost, Download, Verify, StopAsk,
       StopWait, Start, EngineBoots, OtherStarts, Find, Queued, ProbeReady, Heard,
       Find, Heard, Says, Polled, Missed, Find, NewEngine
  <2> QED
    BY <2>1
<1>13. ASSUME NEW t \in Task,
         EngineTakes(t) \/ EngineFinishes(t) \/ Meddle(t) \/ Enqueue(t)
               \/ Press(t)
       PROVE  Flags'
  <2>1. UNCHANGED <<asked, acquired, own, blind, slipped>>
    BY <1>13 DEF EngineTakes, EngineFinishes, Meddle, Enqueue, Press
  <2> QED
    BY <2>1
<1>14. ASSUME UNCHANGED vars PROVE Flags'
  BY <1>14 DEF vars
<1> QED
  BY <1>1, <1>2, <1>3, <1>4, <1>5, <1>6, <1>7, <1>8, <1>9, <1>10, <1>11, <1>12, <1>13,
     <1>14 DEF Next, Step, World

\* Nobody but the worker moves the row it follows, a press apart.
LEMMA StepFollowed ==
    ASSUME IInv, [Next]_vars
    PROVE  Followed'
<1> USE StudioAssumption
<1> SUFFICES ASSUME TypeOK, Followed, Owed PROVE Followed'
  BY DEF IInv
<1> USE DEF TypeOK, Followed, Shown, Owed, Idling, Uncertain, InGate, Ends, Waiting,
   Accepted, OnEngine, rows, worker, idle, comfy, bounds, At, Goto, Afresh, Leave,
   Status, End, Unknown, Fail, Cancelled, Task, NoTask
<1>1. ASSUME Recover PROVE Followed'
  BY <1>1 DEF Recover
<1>2. ASSUME CutFind PROVE Followed'
  BY <1>2 DEF CutFind, Find
<1>3. ASSUME RecoverRows PROVE Followed'
  BY <1>3 DEF RecoverRows
<1>4. ASSUME Resume PROVE Followed'
  BY <1>4 DEF Resume
<1>5. ASSUME Recovered PROVE Followed'
  BY <1>5 DEF Recovered
<1>6. ASSUME Claim PROVE Followed'
  BY <1>6 DEF Claim, Queued
<1>7. ASSUME Build PROVE Followed'
  BY <1>7 DEF Build
<1>8. ASSUME GateReady PROVE Followed'
  BY <1>8 DEF GateReady
<1>9. ASSUME GateCancelled PROVE Followed'
  BY <1>9 DEF GateCancelled
<1>10. ASSUME GateFails PROVE Followed'
  BY <1>10 DEF GateFails, EngineGone
<1>11. ASSUME Probe PROVE Followed'
  BY <1>11 DEF Probe, ProbeReady
<1>12. ASSUME Submit PROVE Followed'
  BY <1>12 DEF Submit
<1>13. ASSUME Answer PROVE Followed'
  BY <1>13 DEF Answer, Heard
<1>14. ASSUME Ask PROVE Followed'
  BY <1>14 DEF Ask, Find, Heard
<1>15. ASSUME Adopt PROVE Followed'
  BY <1>15 DEF Adopt
<1>16. ASSUME Follow PROVE Followed'
  BY <1>16 DEF Follow
<1>17. ASSUME Poll PROVE Followed'
  BY <1>17 DEF Poll, Says, Polled, Missed
<1>18. ASSUME FollowFind PROVE Followed'
  BY <1>18 DEF FollowFind, Find
<1>19. ASSUME Lost PROVE Followed'
  BY <1>19 DEF Lost
<1>20. ASSUME Download PROVE Followed'
  BY <1>20 DEF Download
<1>21. ASSUME Verify PROVE Followed'
  BY <1>21 DEF Verify
<1>22. ASSUME StopAsk PROVE Followed'
  BY <1>22 DEF StopAsk
<1>23. ASSUME StopWait PROVE Followed'
  BY <1>23 DEF StopWait
<1>24. ASSUME Start PROVE Followed'
  BY <1>24 DEF Start
<1>25. ASSUME RecoverFails PROVE Followed'
  BY <1>25 DEF RecoverFails
<1>26. ASSUME Raise PROVE Followed'
  BY <1>26 DEF Raise
<1>27. ASSUME Die PROVE Followed'
  BY <1>27 DEF Die
<1>28. ASSUME NEW t \in Task, Enqueue(t) PROVE Followed'
  BY <1>28 DEF Enqueue
<1>29. ASSUME NEW t \in Task, Press(t) PROVE Followed'
  BY <1>29 DEF Press
<1>30. ASSUME GateStarts \/ IdleAsks \/ IdleReleases \/ EngineBoots \/ EngineEnds
               \/ OtherStarts
       PROVE  Followed'
  <2>1. UNCHANGED <<status, worker>>
    BY <1>30 DEF GateStarts, IdleAsks, IdleReleases, EngineBoots, EngineEnds,
       OtherStarts, NewEngine, Queued, Queued, EngineGone, EngineGone, NewEngine
  <2> QED
    BY <2>1
<1>31. ASSUME NEW t \in Task,
         EngineTakes(t) \/ EngineFinishes(t) \/ Meddle(t)
       PROVE  Followed'
  <2>1. UNCHANGED <<status, worker>>
    BY <1>31 DEF EngineTakes, EngineFinishes, Meddle
  <2> QED
    BY <2>1
<1>32. ASSUME UNCHANGED vars PROVE Followed'
  BY <1>32 DEF vars
<1> QED
  BY <1>1, <1>2, <1>3, <1>4, <1>5, <1>6, <1>7, <1>8, <1>9, <1>10, <1>11, <1>12, <1>13,
     <1>14, <1>15, <1>16, <1>17, <1>18, <1>19, <1>20, <1>21, <1>22, <1>23, <1>24,
     <1>25, <1>26, <1>27, <1>28, <1>29, <1>30, <1>31, <1>32 DEF Next, Step, World

\* A recovery is left only when all it owed is done.
LEMMA StepOwed ==
    ASSUME IInv, [Next]_vars
    PROVE  Owed'
<1> USE StudioAssumption
<1> SUFFICES ASSUME TypeOK, Followed, Owed PROVE Owed'
  BY DEF IInv
<1> USE DEF TypeOK, Followed, Shown, Owed, Idling, Following, Uncertain, InGate, Ends, Waiting,
   Accepted, OnEngine, rows, worker, idle, comfy, bounds, At, Goto, Afresh, Leave,
   Status, End, Unknown, Fail, Cancelled, Task, NoTask
<1>1. ASSUME Recover PROVE Owed'
  BY <1>1 DEF Recover
<1>2. ASSUME CutFind PROVE Owed'
  BY <1>2 DEF CutFind, Find
<1>3. ASSUME RecoverRows PROVE Owed'
  BY <1>3 DEF RecoverRows
<1>4. ASSUME Resume PROVE Owed'
  BY <1>4 DEF Resume
<1>5. ASSUME Recovered PROVE Owed'
  BY <1>5 DEF Recovered
<1>6. ASSUME Claim PROVE Owed'
  BY <1>6 DEF Claim, Queued
<1>7. ASSUME Build PROVE Owed'
  BY <1>7 DEF Build
<1>8. ASSUME GateReady PROVE Owed'
  <2>1. pc \notin Idling /\ \A t \in todo : status'[t] = status[t]
    BY <1>8 DEF GateReady
  <2>2. \/ Leave
        \/ /\ UNCHANGED <<cur, from, todo>>
           /\ \/ pc' \in Following
              \/ pc' = "probe" /\ from = "loop"
    BY <1>8 DEF GateReady
  <2> QED
    BY <2>1, <2>2, OwedOn
<1>9. ASSUME GateCancelled PROVE Owed'
  <2>1. pc \notin Idling /\ \A t \in todo : status'[t] = status[t]
    BY <1>9 DEF GateCancelled
  <2>2. \/ Leave
        \/ /\ UNCHANGED <<cur, from, todo>>
           /\ \/ pc' \in Following
              \/ pc' = "probe" /\ from = "loop"
    BY <1>9 DEF GateCancelled
  <2> QED
    BY <2>1, <2>2, OwedOn
<1>10. ASSUME GateFails PROVE Owed'
  <2>1. pc \notin Idling /\ \A t \in todo : status'[t] = status[t]
    BY <1>10 DEF GateFails, EngineGone
  <2>2. \/ Leave
        \/ /\ UNCHANGED <<cur, from, todo>>
           /\ \/ pc' \in Following
              \/ pc' = "probe" /\ from = "loop"
    BY <1>10 DEF GateFails, EngineGone
  <2> QED
    BY <2>1, <2>2, OwedOn
<1>11. ASSUME Probe PROVE Owed'
  BY <1>11 DEF Probe, ProbeReady
<1>12. ASSUME Submit PROVE Owed'
  BY <1>12 DEF Submit
<1>13. ASSUME Answer PROVE Owed'
  BY <1>13 DEF Answer, Heard
<1>14. ASSUME Ask PROVE Owed'
  BY <1>14 DEF Ask, Find, Heard
<1>15. ASSUME Adopt PROVE Owed'
  BY <1>15 DEF Adopt
<1>16. ASSUME Follow PROVE Owed'
  <2>1. pc \notin Idling /\ \A t \in todo : status'[t] = status[t]
    BY <1>16 DEF Follow
  <2>2. \/ Leave
        \/ /\ UNCHANGED <<cur, from, todo>>
           /\ \/ pc' \in Following
              \/ pc' = "probe" /\ from = "loop"
    BY <1>16 DEF Follow
  <2> QED
    BY <2>1, <2>2, OwedOn
<1>17. ASSUME Poll PROVE Owed'
  <2>1. pc \notin Idling /\ \A t \in todo : status'[t] = status[t]
    BY <1>17 DEF Poll, Says, Polled, Missed
  <2>2. \/ Leave
        \/ /\ UNCHANGED <<cur, from, todo>>
           /\ \/ pc' \in Following
              \/ pc' = "probe" /\ from = "loop"
    BY <1>17 DEF Poll, Says, Polled, Missed
  <2> QED
    BY <2>1, <2>2, OwedOn
<1>18. ASSUME FollowFind PROVE Owed'
  <2>1. pc \notin Idling /\ \A t \in todo : status'[t] = status[t]
    BY <1>18 DEF FollowFind, Find
  <2>2. \/ Leave
        \/ /\ UNCHANGED <<cur, from, todo>>
           /\ \/ pc' \in Following
              \/ pc' = "probe" /\ from = "loop"
    BY <1>18 DEF FollowFind, Find
  <2> QED
    BY <2>1, <2>2, OwedOn
<1>19. ASSUME Lost PROVE Owed'
  <2>1. pc \notin Idling /\ \A t \in todo : status'[t] = status[t]
    BY <1>19 DEF Lost
  <2>2. \/ Leave
        \/ /\ UNCHANGED <<cur, from, todo>>
           /\ \/ pc' \in Following
              \/ pc' = "probe" /\ from = "loop"
    BY <1>19 DEF Lost
  <2> QED
    BY <2>1, <2>2, OwedOn
<1>20. ASSUME Download PROVE Owed'
  <2>1. pc \notin Idling /\ \A t \in todo : status'[t] = status[t]
    BY <1>20 DEF Download
  <2>2. \/ Leave
        \/ /\ UNCHANGED <<cur, from, todo>>
           /\ \/ pc' \in Following
              \/ pc' = "probe" /\ from = "loop"
    BY <1>20 DEF Download
  <2> QED
    BY <2>1, <2>2, OwedOn
<1>21. ASSUME Verify PROVE Owed'
  <2>1. pc \notin Idling /\ \A t \in todo : status'[t] = status[t]
    BY <1>21 DEF Verify
  <2>2. \/ Leave
        \/ /\ UNCHANGED <<cur, from, todo>>
           /\ \/ pc' \in Following
              \/ pc' = "probe" /\ from = "loop"
    BY <1>21 DEF Verify
  <2> QED
    BY <2>1, <2>2, OwedOn
<1>22. ASSUME StopAsk PROVE Owed'
  BY <1>22 DEF StopAsk
<1>23. ASSUME StopWait PROVE Owed'
  BY <1>23 DEF StopWait
<1>24. ASSUME Start PROVE Owed'
  BY <1>24 DEF Start
<1>25. ASSUME RecoverFails PROVE Owed'
  BY <1>25 DEF RecoverFails
<1>26. ASSUME Raise PROVE Owed'
  <2>1. pc \notin Idling /\ \A t \in todo : status'[t] = status[t]
    BY <1>26 DEF Raise
  <2>2. \/ Leave
        \/ /\ UNCHANGED <<cur, from, todo>>
           /\ \/ pc' \in Following
              \/ pc' = "probe" /\ from = "loop"
    BY <1>26 DEF Raise
  <2> QED
    BY <2>1, <2>2, OwedOn
<1>27. ASSUME Die PROVE Owed'
  BY <1>27 DEF Die
<1>28. ASSUME NEW t \in Task, Enqueue(t) PROVE Owed'
  BY <1>28 DEF Enqueue
<1>29. ASSUME NEW t \in Task, Press(t) PROVE Owed'
  BY <1>29 DEF Press
<1>30. ASSUME GateStarts \/ IdleAsks \/ IdleReleases \/ EngineBoots \/ EngineEnds
               \/ OtherStarts
       PROVE  Owed'
  <2>1. UNCHANGED <<status, worker>>
    BY <1>30 DEF GateStarts, IdleAsks, IdleReleases, EngineBoots, EngineEnds,
       OtherStarts, NewEngine, Queued, Queued, EngineGone, EngineGone, NewEngine
  <2> QED
    BY <2>1
<1>31. ASSUME NEW t \in Task,
         EngineTakes(t) \/ EngineFinishes(t) \/ Meddle(t)
       PROVE  Owed'
  <2>1. UNCHANGED <<status, worker>>
    BY <1>31 DEF EngineTakes, EngineFinishes, Meddle
  <2> QED
    BY <2>1
<1>32. ASSUME UNCHANGED vars PROVE Owed'
  BY <1>32 DEF vars
<1> QED
  BY <1>1, <1>2, <1>3, <1>4, <1>5, <1>6, <1>7, <1>8, <1>9, <1>10, <1>11, <1>12, <1>13,
     <1>14, <1>15, <1>16, <1>17, <1>18, <1>19, <1>20, <1>21, <1>22, <1>23, <1>24,
     <1>25, <1>26, <1>27, <1>28, <1>29, <1>30, <1>31, <1>32 DEF Next, Step, World

\* The ref and `running` are written together.
LEMMA StepReferred ==
    ASSUME IInv, [Next]_vars
    PROVE  Referred'
<1> USE StudioAssumption
<1> SUFFICES ASSUME TypeOK, Followed, Referred PROVE Referred'
  BY DEF IInv
<1> USE DEF TypeOK, Followed, Shown, Referred, Idling, Uncertain, InGate, Ends,
   Waiting, Accepted, OnEngine, rows, worker, idle, comfy, bounds, At, Goto, Afresh,
   Leave, Status, End, Unknown, Fail, Cancelled, Task, NoTask
<1>1. ASSUME Recover PROVE Referred'
  BY <1>1 DEF Recover
<1>2. ASSUME CutFind PROVE Referred'
  BY <1>2 DEF CutFind, Find
<1>3. ASSUME RecoverRows PROVE Referred'
  BY <1>3 DEF RecoverRows
<1>4. ASSUME Resume PROVE Referred'
  BY <1>4 DEF Resume
<1>5. ASSUME Recovered PROVE Referred'
  BY <1>5 DEF Recovered
<1>6. ASSUME Claim PROVE Referred'
  BY <1>6 DEF Claim, Queued
<1>7. ASSUME Build PROVE Referred'
  BY <1>7 DEF Build
<1>8. ASSUME GateReady PROVE Referred'
  BY <1>8 DEF GateReady
<1>9. ASSUME GateCancelled PROVE Referred'
  BY <1>9 DEF GateCancelled
<1>10. ASSUME GateFails PROVE Referred'
  BY <1>10 DEF GateFails, EngineGone
<1>11. ASSUME Probe PROVE Referred'
  BY <1>11 DEF Probe, ProbeReady
<1>12. ASSUME Submit PROVE Referred'
  BY <1>12 DEF Submit
<1>13. ASSUME Answer PROVE Referred'
  BY <1>13 DEF Answer, Heard
<1>14. ASSUME Ask PROVE Referred'
  BY <1>14 DEF Ask, Find, Heard
<1>15. ASSUME Adopt PROVE Referred'
  BY <1>15 DEF Adopt
<1>16. ASSUME Follow PROVE Referred'
  BY <1>16 DEF Follow
<1>17. ASSUME Poll PROVE Referred'
  BY <1>17 DEF Poll, Says, Polled, Missed
<1>18. ASSUME FollowFind PROVE Referred'
  BY <1>18 DEF FollowFind, Find
<1>19. ASSUME Lost PROVE Referred'
  BY <1>19 DEF Lost
<1>20. ASSUME Download PROVE Referred'
  BY <1>20 DEF Download
<1>21. ASSUME Verify PROVE Referred'
  BY <1>21 DEF Verify
<1>22. ASSUME StopAsk PROVE Referred'
  BY <1>22 DEF StopAsk
<1>23. ASSUME StopWait PROVE Referred'
  BY <1>23 DEF StopWait
<1>24. ASSUME Start PROVE Referred'
  BY <1>24 DEF Start
<1>25. ASSUME RecoverFails PROVE Referred'
  BY <1>25 DEF RecoverFails
<1>26. ASSUME Raise PROVE Referred'
  BY <1>26 DEF Raise
<1>27. ASSUME Die PROVE Referred'
  BY <1>27 DEF Die
<1>28. ASSUME NEW t \in Task, Enqueue(t) PROVE Referred'
  BY <1>28 DEF Enqueue
<1>29. ASSUME NEW t \in Task, Press(t) PROVE Referred'
  BY <1>29 DEF Press
<1>30. ASSUME GateStarts \/ IdleAsks \/ IdleReleases \/ EngineBoots \/ EngineEnds
               \/ OtherStarts
       PROVE  Referred'
  <2>1. UNCHANGED <<status, ref>>
    BY <1>30 DEF GateStarts, IdleAsks, IdleReleases, EngineBoots, EngineEnds,
       OtherStarts, NewEngine, Queued, Queued, EngineGone, EngineGone, NewEngine
  <2> QED
    BY <2>1
<1>31. ASSUME NEW t \in Task,
         EngineTakes(t) \/ EngineFinishes(t) \/ Meddle(t)
       PROVE  Referred'
  <2>1. UNCHANGED <<status, ref>>
    BY <1>31 DEF EngineTakes, EngineFinishes, Meddle
  <2> QED
    BY <2>1
<1>32. ASSUME UNCHANGED vars PROVE Referred'
  BY <1>32 DEF vars
<1> QED
  BY <1>1, <1>2, <1>3, <1>4, <1>5, <1>6, <1>7, <1>8, <1>9, <1>10, <1>11, <1>12, <1>13,
     <1>14, <1>15, <1>16, <1>17, <1>18, <1>19, <1>20, <1>21, <1>22, <1>23, <1>24,
     <1>25, <1>26, <1>27, <1>28, <1>29, <1>30, <1>31, <1>32 DEF Next, Step, World

\* What the worker leaves is at rest.
LEMMA StepSettled ==
    ASSUME IInv, [Next]_vars
    PROVE  Settled'
<1> USE StudioAssumption
<1> SUFFICES ASSUME TypeOK, Followed, Owed, Referred, Settled PROVE Settled'
  BY DEF IInv
<1> USE DEF TypeOK, Followed, Shown, Owed, Referred, Settled, Idling, AtRest,
   Uncertain, InGate, Ends, Waiting, Accepted, OnEngine, rows, worker, idle, comfy,
   bounds, At, Goto, Afresh, Leave, Status, End, Unknown, Fail, Cancelled, Task,
   NoTask
<1>1. ASSUME Recover PROVE Settled'
  <2>1. \A t \in Task \ todo' : status'[t] \in AtRest \cup Accepted
    <3> SUFFICES ASSUME NEW t \in Task, t \notin todo' PROVE status'[t] \in AtRest \cup Accepted
      OBVIOUS
    <3>1. status[t] # "submitting" /\ status[t] \in Statuses
      BY <1>1 DEF Recover
    <3>2. status'[t] = IF status[t] \in Waiting /\ t \in pressed THEN "cancelled"
                       ELSE IF status[t] \in Waiting THEN "queued" ELSE status[t]
      BY <1>1, <3>1 DEF Recover
    <3> QED
      BY <3>1, <3>2 DEF Statuses
  <2>2. from' = "cut" /\ UNCHANGED <<cur, blind>>
    BY <1>1 DEF Recover
  <2> QED
    BY <2>1, <2>2
<1>2. ASSUME CutFind PROVE Settled'
  BY <1>2 DEF CutFind, Find
<1>3. ASSUME RecoverRows PROVE Settled'
  BY <1>3 DEF RecoverRows
<1>4. ASSUME Resume PROVE Settled'
  BY <1>4 DEF Resume
<1>5. ASSUME Recovered PROVE Settled'
  BY <1>5 DEF Recovered
<1>6. ASSUME Claim PROVE Settled'
  BY <1>6 DEF Claim, Queued
<1>7. ASSUME Build PROVE Settled'
  BY <1>7 DEF Build
<1>8. ASSUME GateReady PROVE Settled'
  BY <1>8 DEF GateReady
<1>9. ASSUME GateCancelled PROVE Settled'
  BY <1>9 DEF GateCancelled
<1>10. ASSUME GateFails PROVE Settled'
  BY <1>10 DEF GateFails, EngineGone
<1>11. ASSUME Probe PROVE Settled'
  BY <1>11 DEF Probe, ProbeReady
<1>12. ASSUME Submit PROVE Settled'
  BY <1>12 DEF Submit
<1>13. ASSUME Answer PROVE Settled'
  BY <1>13 DEF Answer, Heard
<1>14. ASSUME Ask PROVE Settled'
  BY <1>14 DEF Ask, Find, Heard
<1>15. ASSUME Adopt PROVE Settled'
  BY <1>15 DEF Adopt
<1>16. ASSUME Follow PROVE Settled'
  BY <1>16 DEF Follow
<1>17. ASSUME Poll PROVE Settled'
  BY <1>17 DEF Poll, Says, Polled, Missed
<1>18. ASSUME FollowFind PROVE Settled'
  BY <1>18 DEF FollowFind, Find
<1>19. ASSUME Lost PROVE Settled'
  BY <1>19 DEF Lost
<1>20. ASSUME Download PROVE Settled'
  BY <1>20 DEF Download
<1>21. ASSUME Verify PROVE Settled'
  BY <1>21 DEF Verify
<1>22. ASSUME StopAsk PROVE Settled'
  BY <1>22 DEF StopAsk
<1>23. ASSUME StopWait PROVE Settled'
  BY <1>23 DEF StopWait
<1>24. ASSUME Start PROVE Settled'
  BY <1>24 DEF Start
<1>25. ASSUME RecoverFails PROVE Settled'
  BY <1>25 DEF RecoverFails
<1>26. ASSUME Raise PROVE Settled'
  BY <1>26 DEF Raise
<1>27. ASSUME Die PROVE Settled'
  BY <1>27 DEF Die
<1>28. ASSUME NEW t \in Task, Enqueue(t) PROVE Settled'
  BY <1>28 DEF Enqueue
<1>29. ASSUME NEW t \in Task, Press(t) PROVE Settled'
  BY <1>29 DEF Press
<1>30. ASSUME GateStarts \/ IdleAsks \/ IdleReleases \/ EngineBoots \/ EngineEnds
               \/ OtherStarts
       PROVE  Settled'
  <2>1. UNCHANGED <<status, worker, blind>>
    BY <1>30 DEF GateStarts, IdleAsks, IdleReleases, EngineBoots, EngineEnds,
       OtherStarts, NewEngine, Queued, Queued, EngineGone, EngineGone, NewEngine
  <2> QED
    BY <2>1
<1>31. ASSUME NEW t \in Task,
         EngineTakes(t) \/ EngineFinishes(t) \/ Meddle(t)
       PROVE  Settled'
  <2>1. UNCHANGED <<status, worker, blind>>
    BY <1>31 DEF EngineTakes, EngineFinishes, Meddle
  <2> QED
    BY <2>1
<1>32. ASSUME UNCHANGED vars PROVE Settled'
  BY <1>32 DEF vars
<1> QED
  BY <1>1, <1>2, <1>3, <1>4, <1>5, <1>6, <1>7, <1>8, <1>9, <1>10, <1>11, <1>12, <1>13,
     <1>14, <1>15, <1>16, <1>17, <1>18, <1>19, <1>20, <1>21, <1>22, <1>23, <1>24,
     <1>25, <1>26, <1>27, <1>28, <1>29, <1>30, <1>31, <1>32 DEF Next, Step, World

\* A task is claimed when nobody is busy, and a recovery inherits one.
LEMMA StepAlone ==
    ASSUME IInv, [Next]_vars
    PROVE  Alone'
<1> USE StudioAssumption
<1> SUFFICES ASSUME TypeOK, Followed, Owed, Settled, Alone PROVE Alone'
  BY DEF IInv
<1> USE DEF TypeOK, Followed, Shown, Owed, Settled, Alone, Busy, Idling, AtRest,
   Uncertain, InGate, Ends, Waiting, Accepted, OnEngine, rows, worker, idle, comfy,
   bounds, At, Goto, Afresh, Leave, Status, End, Unknown, Fail, Cancelled, Task,
   NoTask
<1>1. ASSUME Recover PROVE Alone'
  BY <1>1 DEF Recover
<1>2. ASSUME CutFind PROVE Alone'
  BY <1>2 DEF CutFind, Find
<1>3. ASSUME RecoverRows PROVE Alone'
  BY <1>3 DEF RecoverRows
<1>4. ASSUME Resume PROVE Alone'
  BY <1>4 DEF Resume
<1>5. ASSUME Recovered PROVE Alone'
  BY <1>5 DEF Recovered
<1>6. ASSUME Claim PROVE Alone'
  <2>1. pc = "loop" /\ todo = {} /\ todo' = {} /\ UNCHANGED blind
    BY <1>6 DEF Claim
  <2>2. CASE blind
    BY <2>1, <2>2
  <2>3. CASE ~blind
    <3>1. \A t \in Task : status[t] \in AtRest
      BY <2>1, <2>3
    <3>2. \A t \in Task : t # cur' => status'[t] \in AtRest
      BY <1>6, <3>1 DEF Claim, Queued
    <3> QED
      BY <2>1, <3>2
  <2> QED
    BY <2>2, <2>3
<1>7. ASSUME Build PROVE Alone'
  BY <1>7 DEF Build
<1>8. ASSUME GateReady PROVE Alone'
  BY <1>8 DEF GateReady
<1>9. ASSUME GateCancelled PROVE Alone'
  BY <1>9 DEF GateCancelled
<1>10. ASSUME GateFails PROVE Alone'
  BY <1>10 DEF GateFails, EngineGone
<1>11. ASSUME Probe PROVE Alone'
  BY <1>11 DEF Probe, ProbeReady
<1>12. ASSUME Submit PROVE Alone'
  BY <1>12 DEF Submit
<1>13. ASSUME Answer PROVE Alone'
  BY <1>13 DEF Answer, Heard
<1>14. ASSUME Ask PROVE Alone'
  BY <1>14 DEF Ask, Find, Heard
<1>15. ASSUME Adopt PROVE Alone'
  BY <1>15 DEF Adopt
<1>16. ASSUME Follow PROVE Alone'
  BY <1>16 DEF Follow
<1>17. ASSUME Poll PROVE Alone'
  BY <1>17 DEF Poll, Says, Polled, Missed
<1>18. ASSUME FollowFind PROVE Alone'
  BY <1>18 DEF FollowFind, Find
<1>19. ASSUME Lost PROVE Alone'
  BY <1>19 DEF Lost
<1>20. ASSUME Download PROVE Alone'
  <2>1. cur \in Task /\ UNCHANGED <<todo, blind>> /\ cur' \in {cur, NoTask}
    BY <1>20 DEF Download
  <2>2. \A t \in Task : status'[t] \in OnEngine => status[t] \in OnEngine \/ t = cur
    BY <1>20 DEF Download
  <2> QED
    BY <2>1, <2>2
<1>21. ASSUME Verify PROVE Alone'
  BY <1>21 DEF Verify
<1>22. ASSUME StopAsk PROVE Alone'
  BY <1>22 DEF StopAsk
<1>23. ASSUME StopWait PROVE Alone'
  BY <1>23 DEF StopWait
<1>24. ASSUME Start PROVE Alone'
  BY <1>24 DEF Start
<1>25. ASSUME RecoverFails PROVE Alone'
  BY <1>25 DEF RecoverFails
<1>26. ASSUME Raise PROVE Alone'
  BY <1>26 DEF Raise
<1>27. ASSUME Die PROVE Alone'
  BY <1>27 DEF Die
<1>28. ASSUME NEW t \in Task, Enqueue(t) PROVE Alone'
  BY <1>28 DEF Enqueue
<1>29. ASSUME NEW t \in Task, Press(t) PROVE Alone'
  BY <1>29 DEF Press
<1>30. ASSUME GateStarts \/ IdleAsks \/ IdleReleases \/ EngineBoots \/ EngineEnds
               \/ OtherStarts
       PROVE  Alone'
  <2>1. UNCHANGED <<status, worker, blind>>
    BY <1>30 DEF GateStarts, IdleAsks, IdleReleases, EngineBoots, EngineEnds,
       OtherStarts, NewEngine, Queued, Queued, EngineGone, EngineGone, NewEngine
  <2> QED
    BY <2>1
<1>31. ASSUME NEW t \in Task,
         EngineTakes(t) \/ EngineFinishes(t) \/ Meddle(t)
       PROVE  Alone'
  <2>1. UNCHANGED <<status, worker, blind>>
    BY <1>31 DEF EngineTakes, EngineFinishes, Meddle
  <2> QED
    BY <2>1
<1>32. ASSUME UNCHANGED vars PROVE Alone'
  BY <1>32 DEF vars
<1> QED
  BY <1>1, <1>2, <1>3, <1>4, <1>5, <1>6, <1>7, <1>8, <1>9, <1>10, <1>11, <1>12, <1>13,
     <1>14, <1>15, <1>16, <1>17, <1>18, <1>19, <1>20, <1>21, <1>22, <1>23, <1>24,
     <1>25, <1>26, <1>27, <1>28, <1>29, <1>30, <1>31, <1>32 DEF Next, Step, World

\* A task is queued again only when ComfyUI has no trace of it.
LEMMA StepSent ==
    ASSUME IInv, [Next]_vars
    PROVE  Sent'
<1> USE StudioAssumption
<1> SUFFICES ASSUME TypeOK, Followed, Owed, Sent PROVE Sent'
  BY DEF IInv
<1> USE DEF TypeOK, Followed, Shown, Owed, Sent, OneCopy, Unsent, Listed, Idling,
   Uncertain, InGate, Ends, Waiting, Accepted, OnEngine, rows, worker, idle, comfy,
   bounds, At, Goto, Afresh, Leave, Status, End, Unknown, Fail, Cancelled, Task,
   NoTask
<1>1. ASSUME Recover PROVE Sent'
  BY <1>1 DEF Recover
<1>2. ASSUME CutFind PROVE Sent'
  BY <1>2 DEF CutFind, Find
<1>3. ASSUME RecoverRows PROVE Sent'
  BY <1>3 DEF RecoverRows
<1>4. ASSUME Resume PROVE Sent'
  BY <1>4 DEF Resume
<1>5. ASSUME Recovered PROVE Sent'
  BY <1>5 DEF Recovered
<1>6. ASSUME Claim PROVE Sent'
  BY <1>6 DEF Claim, Queued
<1>7. ASSUME Build PROVE Sent'
  BY <1>7 DEF Build
<1>8. ASSUME GateReady PROVE Sent'
  BY <1>8 DEF GateReady
<1>9. ASSUME GateCancelled PROVE Sent'
  BY <1>9 DEF GateCancelled
<1>10. ASSUME GateFails PROVE Sent'
  BY <1>10 DEF GateFails, EngineGone
<1>11. ASSUME Probe PROVE Sent'
  BY <1>11 DEF Probe, ProbeReady
<1>12. ASSUME Submit PROVE Sent'
  BY <1>12 DEF Submit
<1>13. ASSUME Answer PROVE Sent'
  BY <1>13 DEF Answer, Heard
<1>14. ASSUME Ask PROVE Sent'
  BY <1>14 DEF Ask, Find, Heard
<1>15. ASSUME Adopt PROVE Sent'
  BY <1>15 DEF Adopt
<1>16. ASSUME Follow PROVE Sent'
  BY <1>16 DEF Follow
<1>17. ASSUME Poll PROVE Sent'
  BY <1>17 DEF Poll, Says, Polled, Missed
<1>18. ASSUME FollowFind PROVE Sent'
  BY <1>18 DEF FollowFind, Find
<1>19. ASSUME Lost PROVE Sent'
  BY <1>19 DEF Lost
<1>20. ASSUME Download PROVE Sent'
  BY <1>20 DEF Download
<1>21. ASSUME Verify PROVE Sent'
  BY <1>21 DEF Verify
<1>22. ASSUME StopAsk PROVE Sent'
  BY <1>22 DEF StopAsk
<1>23. ASSUME StopWait PROVE Sent'
  BY <1>23 DEF StopWait
<1>24. ASSUME Start PROVE Sent'
  BY <1>24 DEF Start
<1>25. ASSUME RecoverFails PROVE Sent'
  BY <1>25 DEF RecoverFails
<1>26. ASSUME Raise PROVE Sent'
  BY <1>26 DEF Raise
<1>27. ASSUME Die PROVE Sent'
  BY <1>27 DEF Die
<1>28. ASSUME GateStarts PROVE Sent'
  BY <1>28 DEF GateStarts, NewEngine
<1>29. ASSUME IdleAsks PROVE Sent'
  BY <1>29 DEF IdleAsks, Queued
<1>30. ASSUME IdleReleases PROVE Sent'
  BY <1>30 DEF IdleReleases, Queued, EngineGone
<1>31. ASSUME EngineBoots PROVE Sent'
  BY <1>31 DEF EngineBoots
<1>32. ASSUME EngineEnds PROVE Sent'
  BY <1>32 DEF EngineEnds, EngineGone
<1>33. ASSUME OtherStarts PROVE Sent'
  BY <1>33 DEF OtherStarts, NewEngine
<1>34. ASSUME NEW t \in Task, EngineTakes(t) PROVE Sent'
  BY <1>34 DEF EngineTakes
<1>35. ASSUME NEW t \in Task, EngineFinishes(t) PROVE Sent'
  BY <1>35 DEF EngineFinishes
<1>36. ASSUME NEW t \in Task, Meddle(t) PROVE Sent'
  BY <1>36 DEF Meddle
<1>37. ASSUME NEW t \in Task, Enqueue(t) PROVE Sent'
  BY <1>37 DEF Enqueue
<1>38. ASSUME NEW t \in Task, Press(t) PROVE Sent'
  BY <1>38 DEF Press
<1>39. ASSUME UNCHANGED vars PROVE Sent'
  BY <1>39 DEF vars
<1> QED
  BY <1>1, <1>2, <1>3, <1>4, <1>5, <1>6, <1>7, <1>8, <1>9, <1>10, <1>11, <1>12, <1>13,
     <1>14, <1>15, <1>16, <1>17, <1>18, <1>19, <1>20, <1>21, <1>22, <1>23, <1>24,
     <1>25, <1>26, <1>27, <1>28, <1>29, <1>30, <1>31, <1>32, <1>33, <1>34, <1>35,
     <1>36, <1>37, <1>38, <1>39 DEF Next, Step, World

\* The gate is left with the card, without an engine, or slipped.
LEMMA StepHeld ==
    ASSUME IInv, [Next]_vars
    PROVE  Held'
<1> USE StudioAssumption
<1> SUFFICES ASSUME TypeOK, Followed, Held PROVE Held'
  BY DEF IInv
<1> USE DEF TypeOK, Followed, Idling, Held, InGate, rows, worker, idle, comfy, bounds,
   At, Goto, Afresh, Leave, Status, End, Unknown, Fail, Cancelled, Task, NoTask
<1>1. ASSUME Recover PROVE Held'
  BY <1>1 DEF Recover
<1>2. ASSUME CutFind PROVE Held'
  BY <1>2 DEF CutFind, Find
<1>3. ASSUME RecoverRows PROVE Held'
  BY <1>3 DEF RecoverRows
<1>4. ASSUME Resume PROVE Held'
  BY <1>4 DEF Resume
<1>5. ASSUME Recovered PROVE Held'
  BY <1>5 DEF Recovered
<1>6. ASSUME Claim PROVE Held'
  BY <1>6 DEF Claim, Queued
<1>7. ASSUME Build PROVE Held'
  BY <1>7 DEF Build
<1>8. ASSUME GateReady PROVE Held'
  BY <1>8 DEF GateReady
<1>9. ASSUME GateCancelled PROVE Held'
  BY <1>9 DEF GateCancelled
<1>10. ASSUME GateFails PROVE Held'
  BY <1>10 DEF GateFails, EngineGone
<1>11. ASSUME Probe PROVE Held'
  BY <1>11 DEF Probe, ProbeReady
<1>12. ASSUME Submit PROVE Held'
  BY <1>12 DEF Submit
<1>13. ASSUME Answer PROVE Held'
  BY <1>13 DEF Answer, Heard
<1>14. ASSUME Ask PROVE Held'
  BY <1>14 DEF Ask, Find, Heard
<1>15. ASSUME Adopt PROVE Held'
  BY <1>15 DEF Adopt
<1>16. ASSUME Follow PROVE Held'
  BY <1>16 DEF Follow
<1>17. ASSUME Poll PROVE Held'
  BY <1>17 DEF Poll, Says, Polled, Missed
<1>18. ASSUME FollowFind PROVE Held'
  BY <1>18 DEF FollowFind, Find
<1>19. ASSUME Lost PROVE Held'
  BY <1>19 DEF Lost
<1>20. ASSUME Download PROVE Held'
  BY <1>20 DEF Download
<1>21. ASSUME Verify PROVE Held'
  BY <1>21 DEF Verify
<1>22. ASSUME StopAsk PROVE Held'
  BY <1>22 DEF StopAsk
<1>23. ASSUME StopWait PROVE Held'
  BY <1>23 DEF StopWait
<1>24. ASSUME Start PROVE Held'
  BY <1>24 DEF Start
<1>25. ASSUME RecoverFails PROVE Held'
  BY <1>25 DEF RecoverFails
<1>26. ASSUME Raise PROVE Held'
  BY <1>26 DEF Raise
<1>27. ASSUME Die PROVE Held'
  BY <1>27 DEF Die
<1>28. ASSUME GateStarts PROVE Held'
  BY <1>28 DEF GateStarts, NewEngine
<1>29. ASSUME IdleAsks PROVE Held'
  BY <1>29 DEF IdleAsks, Queued
<1>30. ASSUME IdleReleases PROVE Held'
  BY <1>30 DEF IdleReleases, Queued, EngineGone
<1>31. ASSUME EngineBoots PROVE Held'
  BY <1>31 DEF EngineBoots
<1>32. ASSUME EngineEnds PROVE Held'
  BY <1>32 DEF EngineEnds, EngineGone
<1>33. ASSUME OtherStarts PROVE Held'
  BY <1>33 DEF OtherStarts, NewEngine
<1>34. ASSUME NEW t \in Task, EngineTakes(t) PROVE Held'
  BY <1>34 DEF EngineTakes
<1>35. ASSUME NEW t \in Task, EngineFinishes(t) PROVE Held'
  BY <1>35 DEF EngineFinishes
<1>36. ASSUME NEW t \in Task, Meddle(t) PROVE Held'
  BY <1>36 DEF Meddle
<1>37. ASSUME NEW t \in Task, Enqueue(t) PROVE Held'
  BY <1>37 DEF Enqueue
<1>38. ASSUME NEW t \in Task, Press(t) PROVE Held'
  BY <1>38 DEF Press
<1>39. ASSUME UNCHANGED vars PROVE Held'
  BY <1>39 DEF vars
<1> QED
  BY <1>1, <1>2, <1>3, <1>4, <1>5, <1>6, <1>7, <1>8, <1>9, <1>10, <1>11, <1>12, <1>13,
     <1>14, <1>15, <1>16, <1>17, <1>18, <1>19, <1>20, <1>21, <1>22, <1>23, <1>24,
     <1>25, <1>26, <1>27, <1>28, <1>29, <1>30, <1>31, <1>32, <1>33, <1>34, <1>35,
     <1>36, <1>37, <1>38, <1>39 DEF Next, Step, World


\* The invariant is inductive.
LEMMA Invariance == Spec => []IInv
<1>1. Init => IInv
  BY InitInv
<1>2. IInv /\ [Next]_vars => IInv'
  <2> SUFFICES ASSUME IInv, [Next]_vars PROVE IInv'
    OBVIOUS
  <2>1. TypeOK'
    BY StepRows, StepWorker, StepComfy, StepFlags
       DEF TypeOK, RowType, WorkerType, ComfyType, Flags
  <2> QED
    BY <2>1, StepFollowed, StepOwed, StepReferred, StepSettled, StepAlone, StepSent,
       StepHeld DEF IInv
<1> QED
  BY <1>1, <1>2, PTL DEF Spec

\* Every variable keeps its type.
THEOREM TypeCorrect == Spec => []TypeOK
<1>1. IInv => TypeOK
  BY DEF IInv
<1> QED
  BY <1>1, Invariance, PTL

\* No task is sent while an earlier copy of it is in ComfyUI or on its way there.
THEOREM NeverResent == Spec => []OneCopy
<1>1. IInv => OneCopy
  BY DEF IInv, Sent
<1> QED
  BY <1>1, Invariance, PTL

\* A worker at rest has settled every task it or a dead one before it had taken.
THEOREM NobodyIsAbandoned == Spec => []NoneAbandoned
<1>1. IInv => NoneAbandoned
  BY DEF IInv, Owed, Settled, Followed, Idling, AtRest, NoneAbandoned, At, Task, NoTask
<1> QED
  BY <1>1, Invariance, PTL

\* Two rows are on the engine only after a recovery failed at its first transaction.
THEOREM CardIsOne == Spec => []OneOnEngine
<1>1. IInv => OneOnEngine
  BY DEF IInv, Alone, Busy, OneOnEngine
<1> QED
  BY <1>1, Invariance, PTL

\* An idle worker holds no engine it could not give back, but for the one it slipped
\* away from.
THEOREM EngineIsReleasable == Spec => []HeldIsReleasable
<1>1. IInv => HeldIsReleasable
  BY DEF IInv, Held, HeldIsReleasable, InGate, At
<1> QED
  BY <1>1, Invariance, PTL

\* The result of a cancelled task is not attached.
THEOREM CancelHolds == Spec => NeverAttached
<1> DEFINE RowKept == \A t \in Task : t \in pressed /\ status'[t] = "succeeded"
                                   => status[t] = "succeeded"
<1>1. IInv /\ [Next]_vars => RowKept
  <2> SUFFICES ASSUME IInv, [Next]_vars PROVE RowKept
    OBVIOUS
  <2> USE StudioAssumption DEF IInv, TypeOK, rows, worker, idle, comfy, bounds, At, Goto,
         Afresh, Leave, Status, End, Unknown, Fail, Cancelled, Task, NoTask
  <2>1. ASSUME Recover PROVE RowKept
    BY <2>1 DEF Recover
  <2>2. ASSUME Claim PROVE RowKept
    BY <2>2 DEF Claim, Queued
  <2>3. ASSUME Build PROVE RowKept
    BY <2>3 DEF Build
  <2>4. ASSUME GateReady PROVE RowKept
    BY <2>4 DEF GateReady
  <2>5. ASSUME GateCancelled PROVE RowKept
    BY <2>5 DEF GateCancelled
  <2>6. ASSUME GateFails PROVE RowKept
    BY <2>6 DEF GateFails, EngineGone
  <2>7. ASSUME Probe PROVE RowKept
    BY <2>7 DEF Probe, ProbeReady
  <2>8. ASSUME Submit PROVE RowKept
    BY <2>8 DEF Submit
  <2>9. ASSUME Answer PROVE RowKept
    BY <2>9 DEF Answer, Heard
  <2>10. ASSUME Ask PROVE RowKept
    BY <2>10 DEF Ask, Find, Heard
  <2>11. ASSUME Adopt PROVE RowKept
    BY <2>11 DEF Adopt
  <2>12. ASSUME Follow PROVE RowKept
    BY <2>12 DEF Follow
  <2>13. ASSUME Poll PROVE RowKept
    BY <2>13 DEF Poll, Says, Polled, Missed
  <2>14. ASSUME FollowFind PROVE RowKept
    BY <2>14 DEF FollowFind, Find
  <2>15. ASSUME Lost PROVE RowKept
    BY <2>15 DEF Lost
  <2>16. ASSUME Download PROVE RowKept
    BY <2>16 DEF Download
  <2>17. ASSUME Verify PROVE RowKept
    BY <2>17 DEF Verify
  <2>18. ASSUME StopWait PROVE RowKept
    BY <2>18 DEF StopWait
  <2>19. ASSUME Raise PROVE RowKept
    BY <2>19 DEF Raise
  <2>20. ASSUME NEW t \in Task, Enqueue(t) PROVE RowKept
    BY <2>20 DEF Enqueue
  <2>21. ASSUME NEW t \in Task, Press(t) PROVE RowKept
    BY <2>21 DEF Press
  <2>22. ASSUME CutFind \/ RecoverRows \/ Resume \/ Recovered \/ StopAsk \/ Start
                 \/ RecoverFails \/ Die \/ GateStarts \/ IdleAsks \/ IdleReleases
                 \/ EngineBoots \/ EngineEnds \/ OtherStarts
         PROVE  RowKept
    <3>1. UNCHANGED status
      BY <2>22 DEF CutFind, RecoverRows, Resume, Recovered, StopAsk, Start,
         RecoverFails, Die, GateStarts, IdleAsks, IdleReleases, EngineBoots,
         EngineEnds, OtherStarts, Find, NewEngine, Queued, Queued, EngineGone,
         EngineGone, NewEngine
    <3> QED
      BY <3>1
  <2>23. ASSUME NEW t \in Task,
           EngineTakes(t) \/ EngineFinishes(t) \/ Meddle(t)
         PROVE  RowKept
    <3>1. UNCHANGED status
      BY <2>23 DEF EngineTakes, EngineFinishes, Meddle
    <3> QED
      BY <3>1
  <2>24. ASSUME UNCHANGED vars PROVE RowKept
    BY <2>24 DEF vars
  <2> QED
    BY <2>1, <2>2, <2>3, <2>4, <2>5, <2>6, <2>7, <2>8, <2>9, <2>10, <2>11, <2>12,
       <2>13, <2>14, <2>15, <2>16, <2>17, <2>18, <2>19, <2>20, <2>21, <2>22, <2>23,
       <2>24 DEF Next, Step, World
<1>2. NeverAttached <=> [][RowKept]_vars
  BY DEF NeverAttached
<1> HIDE DEF RowKept
<1> QED
  BY <1>1, <1>2, Invariance, PTL DEF Spec

\* A finished row is not written again, the one cancelled in submit_unknown apart.
THEOREM EndIsAnEnd == Spec => EndsStay
<1> DEFINE Stays == \A t \in Task : status[t] \in Ends =>
                       \/ status'[t] = status[t]
                       \/ /\ status[t] = "cancelled" /\ status'[t] = "running"
                          /\ At("adopt") /\ cur = t
<1>1. IInv /\ [Next]_vars => Stays
  <2> SUFFICES ASSUME IInv, [Next]_vars PROVE Stays
    OBVIOUS
  <2> USE StudioAssumption DEF IInv, TypeOK, Followed, Shown, Idling, Uncertain, InGate,
         Ends, Waiting, Accepted, OnEngine, rows, worker, idle, comfy, bounds, At, Goto,
         Afresh, Leave, Status, End, Unknown, Fail, Cancelled, Task, NoTask
  <2>1. ASSUME Recover PROVE Stays
    BY <2>1 DEF Recover
  <2>2. ASSUME Claim PROVE Stays
    BY <2>2 DEF Claim, Queued
  <2>3. ASSUME Build PROVE Stays
    BY <2>3 DEF Build
  <2>4. ASSUME GateReady PROVE Stays
    BY <2>4 DEF GateReady
  <2>5. ASSUME GateCancelled PROVE Stays
    BY <2>5 DEF GateCancelled
  <2>6. ASSUME GateFails PROVE Stays
    BY <2>6 DEF GateFails, EngineGone
  <2>7. ASSUME Probe PROVE Stays
    BY <2>7 DEF Probe, ProbeReady
  <2>8. ASSUME Submit PROVE Stays
    BY <2>8 DEF Submit
  <2>9. ASSUME Answer PROVE Stays
    BY <2>9 DEF Answer, Heard
  <2>10. ASSUME Ask PROVE Stays
    BY <2>10 DEF Ask, Find, Heard
  <2>11. ASSUME Adopt PROVE Stays
    BY <2>11 DEF Adopt
  <2>12. ASSUME Follow PROVE Stays
    BY <2>12 DEF Follow
  <2>13. ASSUME Poll PROVE Stays
    BY <2>13 DEF Poll, Says, Polled, Missed
  <2>14. ASSUME FollowFind PROVE Stays
    BY <2>14 DEF FollowFind, Find
  <2>15. ASSUME Lost PROVE Stays
    BY <2>15 DEF Lost
  <2>16. ASSUME Download PROVE Stays
    BY <2>16 DEF Download
  <2>17. ASSUME Verify PROVE Stays
    BY <2>17 DEF Verify
  <2>18. ASSUME StopWait PROVE Stays
    BY <2>18 DEF StopWait
  <2>19. ASSUME Raise PROVE Stays
    BY <2>19 DEF Raise
  <2>20. ASSUME NEW t \in Task, Enqueue(t) PROVE Stays
    BY <2>20 DEF Enqueue
  <2>21. ASSUME NEW t \in Task, Press(t) PROVE Stays
    BY <2>21 DEF Press
  <2>22. ASSUME CutFind \/ RecoverRows \/ Resume \/ Recovered \/ StopAsk \/ Start
                 \/ RecoverFails \/ Die \/ GateStarts \/ IdleAsks \/ IdleReleases
                 \/ EngineBoots \/ EngineEnds \/ OtherStarts
         PROVE  Stays
    <3>1. UNCHANGED status
      BY <2>22 DEF CutFind, RecoverRows, Resume, Recovered, StopAsk, Start,
         RecoverFails, Die, GateStarts, IdleAsks, IdleReleases, EngineBoots,
         EngineEnds, OtherStarts, Find, NewEngine, Queued, Queued, EngineGone,
         EngineGone, NewEngine
    <3> QED
      BY <3>1
  <2>23. ASSUME NEW t \in Task,
           EngineTakes(t) \/ EngineFinishes(t) \/ Meddle(t)
         PROVE  Stays
    <3>1. UNCHANGED status
      BY <2>23 DEF EngineTakes, EngineFinishes, Meddle
    <3> QED
      BY <3>1
  <2>24. ASSUME UNCHANGED vars PROVE Stays
    BY <2>24 DEF vars
  <2> QED
    BY <2>1, <2>2, <2>3, <2>4, <2>5, <2>6, <2>7, <2>8, <2>9, <2>10, <2>11, <2>12,
       <2>13, <2>14, <2>15, <2>16, <2>17, <2>18, <2>19, <2>20, <2>21, <2>22, <2>23,
       <2>24 DEF Next, Step, World
<1>2. EndsStay <=> [][Stays]_vars
  BY DEF EndsStay
<1> HIDE DEF Stays
<1> QED
  BY <1>1, <1>2, Invariance, PTL DEF Spec

-----------------------------------------------------------------------------
\* StudioTabs.

\* A scene as somebody holds it, beside the project p's: it is not newer, and with
\* the same edit number it is the same.
Behind(x, s, p) ==
    s \in Live(p) => /\ x.edit <= p.scenes[s].edit
                     /\ x.edit = p.scenes[s].edit => Content(x) = Content(p.scenes[s])

Seen(s, p) == {x \in Scenes : Behind(x, s, p)}

\* A view of the project p, when u ids have been given.
Known(v, p, u) ==
    /\ Sound(v)
    /\ Live(v) \subseteq 1..u
    /\ v.revision <= p.revision
    /\ v.revision = p.revision => v.order = p.order
    /\ \A s \in Live(v) : Behind(v.scenes[s], s, p)

Answers == {"none", "ok", "conflict", "error"}
Drafts == [Fields -> Texts]
Bodies == UNION {[F -> Texts] : F \in SUBSET Fields}

PatchesOf(S) == [on : {TRUE}, answer : Answers, scene : S, over : S, body : Bodies]

\* A save on its way has every dirty field that has not been typed into since.
Unsaved(c) ==
    c.patch.on => \A f \in c.dirty \ c.retyped :
                     f \in DOMAIN c.patch.body /\ c.patch.body[f] = c.draft[f]

Patches(S) == {NoPatch} \cup PatchesOf(S)

CardRecords(S) ==
    [draft : Drafts, dirty : SUBSET Fields, base : S, server : S, patch : Patches(S),
     retyped : SUBSET Fields, queued : BOOLEAN, conflict : BOOLEAN]

CardsOf(S) == {c \in CardRecords(S) : Unsaved(c)}

\* An operation in flight, and a request its tab has given up on.
OpOf(o, p, u) ==
    /\ o \in [kind : {"add", "remove", "restore", "apply"}, of : Nat, draft : Drafts,
              view : {o.view}, answer : Answers]
    /\ Known(o.view, p, u)
    /\ o.kind = "remove" => o.of \in Live(o.view)

StrayOf(r, p, u) ==
    \/ /\ "patch" \in DOMAIN r
       /\ r \in [tab : Tabs, scene : 1..u, patch : {r.patch}]
       /\ r.patch \in PatchesOf(Seen(r.scene, p))
    \/ /\ "patch" \notin DOMAIN r
       /\ r \in [tab : Tabs, put : {r.put}]
       /\ OpOf(r.put, p, u)

DataInv ==
    /\ Sound(project) /\ used \in Nat /\ Live(project) \subseteq 1..used
    /\ SourcesIn(project)

ViewsInv ==
    /\ DOMAIN snap = Tabs /\ DOMAIN loaded = Tabs
    /\ \A t \in Tabs : Known(snap[t], project, used) /\ Known(loaded[t], project, used)

CardsInv ==
    /\ DOMAIN card = Tabs
    /\ \A t \in Tabs : \A s \in DOMAIN card[t] :
          s \in 1..used /\ card[t][s] \in CardsOf(Seen(s, project))

OpsInv ==
    /\ DOMAIN op = Tabs
    /\ \A t \in Tabs : op[t] = NoOp \/ OpOf(op[t], project, used)

StrayInv == \A r \in stray : StrayOf(r, project, used)

\* The cards on a page are those of its snapshot and of the removed scenes with a draft.
PageOf(t) ==
    IF page[t] = "shown"
    THEN /\ DOMAIN card[t] = Live(snap[t]) \cup orphan[t]
         /\ orphan[t] \cap Live(snap[t]) = {}
    ELSE /\ DOMAIN card[t] = {} /\ orphan[t] = {} /\ load[t] = "no" /\ op[t] = NoOp

PagesInv ==
    /\ page \in [Tabs -> {"shown", "error"}]
    /\ load \in [Tabs -> {"no", "asked", "read"}]
    /\ orphan \in [Tabs -> SUBSET Nat]
    /\ DOMAIN ownDeleted = Tabs
    /\ \A t \in Tabs : PageOf(t)

TabsInv == DataInv /\ ViewsInv /\ CardsInv /\ OpsInv /\ StrayInv /\ PagesInv

-----------------------------------------------------------------------------
\* What the operations do to one scene.

LEMMA StoredScene ==
  ASSUME NEW draft, NEW source, draft.text \in Texts, draft.wish \in Texts,
         source.kind \in {"none", "asset", "prev"}, source.from \in Nat,
         source.auto \in BOOLEAN, NEW old \in Scenes
  PROVE  LET new == Stored(Filled(draft, source), old)
         IN /\ new \in Scenes
            /\ Content(new) = Filled(draft, source)
            /\ new.edit >= old.edit
            /\ new.edit = old.edit => Content(new) = Content(old)
            /\ new.kind = source.kind /\ new.from = source.from /\ new.auto = source.auto
<1> DEFINE content == Filled(draft, source)
           new     == Stored(content, old)
<1>1. old.edit \in Nat
  BY DEF Scenes
<1>2. new.edit = old.edit + (IF content = Content(old) THEN 0 ELSE 1)
  <2> HIDE DEF content
  <2> QED
    BY DEF Stored
<1>7. new.edit >= old.edit /\ (new.edit = old.edit => content = Content(old))
  <2> HIDE DEF content, new
  <2> QED
    BY <1>1, <1>2
<1>3. Content(new) = content
  BY DEF Content, Stored, Filled
<1>4. new \in Scenes
  BY <1>1, <1>2 DEF Stored, Filled, Scenes
<1>5. new.kind = source.kind /\ new.from = source.from /\ new.auto = source.auto
  BY DEF Stored, Filled
<1>6. QED
  BY <1>3, <1>4, <1>5, <1>7

LEMMA BornScene ==
  ASSUME NEW draft, NEW source, draft.text \in Texts, draft.wish \in Texts,
         source.kind \in {"none", "asset", "prev"}, source.from \in Nat,
         source.auto \in BOOLEAN
  PROVE  LET new == Born(Filled(draft, source))
         IN /\ new \in Scenes
            /\ new.kind = source.kind /\ new.from = source.from /\ new.auto = source.auto
BY DEF Born, Filled, Scenes

\* A step of the project, as one who holds an older copy sees it.
Advance(p, q, u, v) ==
  /\ Sound(q) /\ v \in Nat /\ u <= v /\ Live(q) \subseteq 1..v
  /\ p.revision <= q.revision
  /\ p.revision = q.revision => p.order = q.order
  /\ \A s \in Live(q) : IF s \in Live(p)
                        THEN /\ p.scenes[s].edit <= q.scenes[s].edit
                             /\ p.scenes[s].edit = q.scenes[s].edit
                                => Content(p.scenes[s]) = Content(q.scenes[s])
                        ELSE u < s

\* What an operation keeps of the sources.
ChoicesKept(p, q) ==
  \A s \in Live(p) \cap Live(q) :
     LET old == p.scenes[s]  new == q.scenes[s]
     IN /\ old.auto => new.auto
        /\ (~old.auto /\ old.from \in Live(q)) => new.from = old.from /\ ~new.auto

LEMMA AdvanceBehind ==
  ASSUME NEW p, NEW q, NEW u \in Nat, NEW v, Sound(p), Advance(p, q, u, v), NEW s \in 1..u
  PROVE  Seen(s, p) \subseteq Seen(s, q)
<1> SUFFICES ASSUME NEW x \in Seen(s, p), s \in Live(q)
             PROVE  /\ x.edit <= q.scenes[s].edit
                    /\ x.edit = q.scenes[s].edit => Content(x) = Content(q.scenes[s])
  BY DEF Seen, Behind
<1>1. s \in Live(p)
  BY DEF Advance
<1>2. x.edit \in Nat /\ p.scenes[s].edit \in Nat /\ q.scenes[s].edit \in Nat
  BY <1>1 DEF Seen, Scenes, Sound, Advance
<1>3. /\ x.edit <= p.scenes[s].edit
      /\ x.edit = p.scenes[s].edit => Content(x) = Content(p.scenes[s])
  BY <1>1 DEF Seen, Behind
<1>4. /\ p.scenes[s].edit <= q.scenes[s].edit
      /\ p.scenes[s].edit = q.scenes[s].edit => Content(p.scenes[s]) = Content(q.scenes[s])
  BY <1>1 DEF Advance
<1>5. QED
  BY <1>2, <1>3, <1>4

LEMMA AdvanceKnown ==
  ASSUME NEW p, NEW q, NEW u \in Nat, NEW v, Sound(p), Advance(p, q, u, v), NEW w, Known(w, p, u)
  PROVE  Known(w, q, v)
<1>1. Live(w) \subseteq 1..v
  BY DEF Known, Advance
<1>2. w.revision \in Nat /\ p.revision \in Nat /\ q.revision \in Nat
  BY DEF Known, Advance, Sound
<1>3. w.revision <= q.revision /\ (w.revision = q.revision => w.order = q.order)
  BY <1>2 DEF Known, Advance
<1>4. ASSUME NEW s \in Live(w) PROVE Behind(w.scenes[s], s, q)
  <2>1. w.scenes[s] \in Seen(s, p) /\ s \in 1..u
    BY DEF Known, Sound, Seen
  <2>2. QED
    BY <2>1, AdvanceBehind DEF Seen
<1>5. QED
  BY <1>1, <1>3, <1>4 DEF Known

LEMMA ItselfKnown ==
  ASSUME NEW p, NEW u, Sound(p), Live(p) \subseteq 1..u
  PROVE  Known(p, p, u) /\ \A s \in Live(p) : p.scenes[s] \in Seen(s, p)
<1>1. p.revision \in Nat /\ \A s \in Live(p) : p.scenes[s] \in Scenes /\ p.scenes[s].edit \in Nat
  BY DEF Sound, Scenes
<1>2. QED
  BY <1>1 DEF Known, Behind, Seen

LEMMA PositionOf ==
  ASSUME NEW order \in Seq(Nat), NEW i \in DOMAIN order,
         \A j, k \in DOMAIN order : order[j] = order[k] => j = k
  PROVE  Position(order, order[i]) = i
BY DEF Position

LEMMA BeforeType ==
  ASSUME NEW order \in Seq(Nat), NEW i \in DOMAIN order,
         \A j, k \in DOMAIN order : order[j] = order[k] => j = k
  PROVE  /\ Before(order, order[i]) = IF i = 1 THEN NoScene ELSE order[i - 1]
         /\ Before(order, order[i]) \in Nat
<1>1. Position(order, order[i]) = i
  BY PositionOf
<1>2. i \in Nat \ {0} /\ (i # 1 => i - 1 \in DOMAIN order)
  OBVIOUS
<1>3. QED
  BY <1>1, <1>2 DEF Before, NoScene

-----------------------------------------------------------------------------
Copied == [id : Nat, edit : Nat, text : Texts, wish : Texts,
           kind : {"none", "asset", "prev"}, from : Nat]

\* A request on the set, by the view v it was made from: each scene of the view
\* is copied once or deleted.
Deletes(req, v) ==
  \A d \in req.deleted :
     d.id \in Live(v) /\ d.edit = v.scenes[d.id].edit /\ d.id \notin Ids(req)

CopyIn(req, v, i) ==
  LET in == req.scenes[i]  old == v.scenes[in.id]
  IN /\ in.id \in Live(v) /\ in.edit = old.edit /\ in.kind = old.kind
     /\ old.auto => in.from = NoScene
     /\ ~old.auto => in.from = old.from \/ old.from \notin Ids(req) \cup {NoScene}

RequestOf(req, v) ==
  /\ req.revision = v.revision
  /\ req.scenes \in Seq(Copied)
  /\ \A i, j \in DOMAIN req.scenes : req.scenes[i].id = req.scenes[j].id => i = j
  /\ Deletes(req, v)
  /\ \A i \in Kept(req) : CopyIn(req, v, i)

LEMMA CopyOfType ==
  ASSUME NEW v, Sound(v), NEW s \in Live(v)
  PROVE  /\ CopyOf(v, s) \in Copied
         /\ CopyOf(v, s).id = s /\ s \in Nat \ {NoScene}
         /\ CopyOf(v, s).edit = v.scenes[s].edit
         /\ CopyOf(v, s).kind = v.scenes[s].kind
         /\ CopyOf(v, s).from = IF v.scenes[s].auto THEN NoScene ELSE v.scenes[s].from
<1>1. v.scenes[s] \in Scenes /\ s \in Nat \ {NoScene}
  BY DEF Sound
<1>2. QED
  BY <1>1 DEF CopyOf, Copied, Scenes, NoScene

LEMMA OrderOf ==
  ASSUME NEW v, Sound(v)
  PROVE  /\ v.order \in Seq(Nat) /\ Len(v.order) \in Nat /\ DOMAIN v.order = 1..Len(v.order)
         /\ \A i \in DOMAIN v.order : v.order[i] \in Live(v) /\ v.order[i] \in Nat \ {NoScene}
         /\ \A i, j \in DOMAIN v.order : v.order[i] = v.order[j] => i = j
         /\ \A s \in Live(v) : \E i \in DOMAIN v.order : v.order[i] = s
<1>1. v.order \in Seq(Nat \ {NoScene})
  BY DEF Sound
<1>2. v.order \in Seq(Nat) /\ Len(v.order) \in Nat /\ DOMAIN v.order = 1..Len(v.order)
      /\ \A i \in DOMAIN v.order : v.order[i] \in Nat \ {NoScene}
  BY <1>1
<1>3. QED
  BY <1>2 DEF Sound

LEMMA NewSceneType ==
  ASSUME NEW v, NEW draft \in Drafts
  PROVE  /\ NewScene(v, draft) \in Copied /\ NewScene(v, draft).id = NoScene
         /\ [NewScene(v, draft) EXCEPT !.kind = "none"] \in Copied
         /\ [NewScene(v, draft) EXCEPT !.kind = "none"].id = NoScene
<1>1. draft.text \in Texts /\ draft.wish \in Texts
  BY DEF Drafts, Fields
<1>2. QED
  BY <1>1 DEF NewScene, Copied, NoScene

LEMMA AppendedOf ==
  ASSUME NEW v, Sound(v), NEW draft \in Drafts
  PROVE  RequestOf(Appended(v, draft), v)
<1> DEFINE req == Appended(v, draft)
           n   == Len(v.order)
<1>1. /\ req.revision = v.revision /\ req.deleted = {}
      /\ req.scenes = Append(Copies(v, v.order), NewScene(v, draft))
  BY DEF Appended
<1>2. Copies(v, v.order) \in Seq(Copied) /\ Len(Copies(v, v.order)) = n
      /\ \A i \in 1..n : Copies(v, v.order)[i] = CopyOf(v, v.order[i])
  BY OrderOf, CopyOfType DEF Copies
<1>3. /\ req.scenes \in Seq(Copied) /\ DOMAIN req.scenes = 1..(n + 1)
      /\ \A i \in 1..n : req.scenes[i] = CopyOf(v, v.order[i])
      /\ req.scenes[n + 1] = NewScene(v, draft)
  <2> DEFINE copies == Copies(v, v.order)
             new    == NewScene(v, draft)
  <2>1. copies \in Seq(Copied) /\ new \in Copied /\ Len(copies) = n /\ n \in Nat
    BY <1>2, NewSceneType, OrderOf
  <2>2. req.scenes = Append(copies, new)
    BY <1>1
  <2>3. \A i \in 1..n : copies[i] = CopyOf(v, v.order[i])
    BY <1>2
  <2> HIDE DEF copies, new, req, n
  <2>4. Append(copies, new) \in Seq(Copied) /\ DOMAIN Append(copies, new) = 1..(n + 1)
    BY <2>1
  <2>5. (\A i \in 1..n : Append(copies, new)[i] = copies[i]) /\ Append(copies, new)[n + 1] = new
    BY <2>1
  <2>6. QED
    BY <2>2, <2>3, <2>4, <2>5 DEF new
<1>10. n \in Nat /\ \A i \in 1..n : v.order[i] \in Live(v) /\ v.order[i] \in Nat \ {NoScene}
  BY OrderOf
<1>11. \A i, j \in 1..n : v.order[i] = v.order[j] => i = j
  BY OrderOf
<1> HIDE DEF req, n
<1>4. /\ \A i \in 1..n : req.scenes[i].id = v.order[i]
      /\ req.scenes[n + 1].id = NoScene
  <2>1. \A x \in Live(v) : CopyOf(v, x).id = x
    BY CopyOfType
  <2>2. NewScene(v, draft).id = NoScene
    BY NewSceneType
  <2>3. QED
    BY <1>3, <1>10, <2>1, <2>2
<1>5. \A i, j \in DOMAIN req.scenes : req.scenes[i].id = req.scenes[j].id => i = j
  <2> SUFFICES ASSUME NEW i \in 1..(n + 1), NEW j \in 1..(n + 1), req.scenes[i].id = req.scenes[j].id
               PROVE  i = j
    BY <1>3
  <2>1. CASE i \in 1..n /\ j \in 1..n
    BY <2>1, <1>4, <1>11
  <2>2. CASE i = n + 1 \/ j = n + 1
    BY <2>2, <1>4, <1>10 DEF NoScene
  <2>3. QED
    BY <2>1, <2>2, <1>10
<1>6. ASSUME NEW i \in Kept(req)
      PROVE  i \in 1..n /\ req.scenes[i] = CopyOf(v, v.order[i]) /\ v.order[i] \in Live(v)
  BY <1>3, <1>4, <1>10 DEF Kept
<1>7. ASSUME NEW i \in Kept(req)
      PROVE  CopyIn(req, v, i)
  BY <1>6, CopyOfType DEF CopyIn
<1>8. Deletes(req, v)
  BY <1>1 DEF Deletes
<1>9. QED
  BY <1>1, <1>3, <1>5, <1>7, <1>8 DEF RequestOf, req

LEMMA AppliedOf ==
  ASSUME NEW v, Sound(v), NEW draft \in Drafts
  PROVE  RequestOf(Applied(v, draft), v)
<1> DEFINE req == Applied(v, draft)
           new == [NewScene(v, draft) EXCEPT !.kind = "none"]
<1>1. req.revision = v.revision /\ req.deleted = Gone(v, Live(v)) /\ req.scenes = <<new>>
  BY DEF Applied
<1>2. new \in Copied /\ new.id = NoScene
  BY NewSceneType
<1> HIDE DEF req, new
<1>3. req.scenes \in Seq(Copied) /\ DOMAIN req.scenes = {1} /\ req.scenes[1] = new
  BY <1>1, <1>2
<1>4. Ids(req) = {NoScene} /\ Kept(req) = {}
  BY <1>2, <1>3 DEF Ids, Kept
<1>5. NoScene \notin Live(v)
  BY OrderOf
<1>6. Deletes(req, v)
  BY <1>1, <1>4, <1>5 DEF Gone, Deletes
<1>7. QED
  BY <1>1, <1>3, <1>4, <1>6 DEF RequestOf, req

LEMMA WithoutOf ==
  ASSUME NEW v, Sound(v), NEW s \in Live(v)
  PROVE  /\ RequestOf(Without(v, s), v)
         /\ Ids(Without(v, s)) = Live(v) \ {s}
<1> DEFINE req == Without(v, s)
           n   == Len(v.order)
           at  == Position(v.order, s)
           others == [i \in 1..(n - 1) |-> v.order[IF i < at THEN i ELSE i + 1]]
           relinked(x) == LET copy == CopyOf(v, x)
                          IN IF copy.kind = "prev" /\ copy.from = s
                             THEN [copy EXCEPT !.from = Before(v.order, s)]
                             ELSE copy
<1>1. at \in 1..n /\ v.order[at] = s /\ n \in Nat
  <2>1. PICK i \in DOMAIN v.order : v.order[i] = s
    BY OrderOf
  <2>2. at = i
    BY <2>1, PositionOf, OrderOf
  <2>3. QED
    BY <2>1, <2>2, OrderOf
<1>2. /\ req.revision = v.revision /\ req.deleted = Gone(v, {s})
      /\ req.scenes = [i \in 1..(n - 1) |-> relinked(others[i])]
  BY DEF Without
<1>3. \A i \in 1..(n - 1) :
         /\ others[i] \in Live(v) /\ others[i] # s /\ others[i] \in Nat \ {NoScene}
         /\ others[i] = v.order[IF i < at THEN i ELSE i + 1]
  <2> TAKE i \in 1..(n - 1)
  <2> DEFINE k == IF i < at THEN i ELSE i + 1
  <2>1. k \in 1..n /\ k # at
    BY <1>1
  <2>2. others[i] = v.order[k]
    OBVIOUS
  <2>3. /\ DOMAIN v.order = 1..n
        /\ \A a \in DOMAIN v.order : v.order[a] \in Live(v) /\ v.order[a] \in Nat \ {NoScene}
        /\ \A a, b \in DOMAIN v.order : v.order[a] = v.order[b] => a = b
    BY OrderOf
  <2>4. v.order[k] \in Live(v) /\ v.order[k] \in Nat \ {NoScene} /\ v.order[k] # s
    <3> HIDE DEF k, n, at
    <3>1. QED
      BY <2>1, <2>3, <1>1
  <2>5. others[i] = v.order[IF i < at THEN i ELSE i + 1]
    OBVIOUS
  <2> HIDE DEF others, k
  <2>6. QED
    BY <2>2, <2>4, <2>5
<1>4. \A i, j \in 1..(n - 1) : others[i] = others[j] => i = j
  <2> TAKE i, j \in 1..(n - 1)
  <2> DEFINE k == IF i < at THEN i ELSE i + 1
             l == IF j < at THEN j ELSE j + 1
  <2>1. k \in 1..n /\ l \in 1..n /\ (k = l => i = j)
    BY <1>1
  <2>2. others[i] = v.order[k] /\ others[j] = v.order[l]
    OBVIOUS
  <2>3. \A a, b \in 1..n : v.order[a] = v.order[b] => a = b
    <3>1. DOMAIN v.order = 1..n /\ \A a, b \in DOMAIN v.order : v.order[a] = v.order[b] => a = b
      BY OrderOf
    <3>2. QED
      BY <3>1
  <2> HIDE DEF k, l, others, n
  <2>4. QED
    BY <2>1, <2>2, <2>3
<1>5. Before(v.order, s) \in Nat
  BY <1>1, OrderOf, BeforeType
<1>6. ASSUME NEW x \in Live(v)
      PROVE  /\ relinked(x) \in Copied /\ relinked(x).id = x
             /\ relinked(x).edit = v.scenes[x].edit /\ relinked(x).kind = v.scenes[x].kind
             /\ v.scenes[x].auto => relinked(x).from = NoScene
             /\ ~v.scenes[x].auto => relinked(x).from = v.scenes[x].from \/ v.scenes[x].from = s
  <2> DEFINE copy == CopyOf(v, x)
  <2>1. /\ copy \in Copied /\ copy.id = x /\ copy.edit = v.scenes[x].edit
        /\ copy.kind = v.scenes[x].kind
        /\ copy.from = IF v.scenes[x].auto THEN NoScene ELSE v.scenes[x].from
        /\ s \in Nat \ {NoScene}
    BY CopyOfType
  <2> HIDE DEF copy
  <2>2. CASE copy.kind = "prev" /\ copy.from = s
    <3>1. relinked(x) = [copy EXCEPT !.from = Before(v.order, s)]
      BY <2>2 DEF copy
    <3>2. relinked(x) \in Copied /\ relinked(x).id = copy.id /\ relinked(x).edit = copy.edit
          /\ relinked(x).kind = copy.kind
      BY <3>1, <2>1, <1>5 DEF Copied
    <3>3. QED
      BY <3>2, <2>1, <2>2
  <2>3. CASE ~(copy.kind = "prev" /\ copy.from = s)
    <3>1. relinked(x) = copy
      BY <2>3 DEF copy
    <3>2. QED
      BY <3>1, <2>1
  <2>4. QED
    BY <2>2, <2>3
<1> HIDE DEF req, others, relinked, n
<1>7. n - 1 \in Nat
  BY <1>1
<1>8. req.scenes \in Seq(Copied) /\ DOMAIN req.scenes = 1..(n - 1)
      /\ \A i \in 1..(n - 1) : req.scenes[i] = relinked(others[i])
  BY <1>2, <1>3, <1>6, <1>7
<1>9. \A i \in 1..(n - 1) : req.scenes[i].id = others[i]
  BY <1>3, <1>6, <1>8
<1>10. s \notin Ids(req) /\ s # NoScene
  BY <1>3, <1>8, <1>9, CopyOfType DEF Ids
<1>11. Deletes(req, v)
  BY <1>2, <1>10 DEF Gone, Deletes
<1>12. ASSUME NEW i \in Kept(req)
       PROVE  CopyIn(req, v, i)
  <2>1. i \in 1..(n - 1)
    BY <1>8 DEF Kept
  <2>2. req.scenes[i] = relinked(others[i]) /\ others[i] \in Live(v) /\ req.scenes[i].id = others[i]
    BY <2>1, <1>3, <1>8, <1>9
  <2>3. QED
    BY <2>2, <1>6, <1>10 DEF CopyIn
<1>13. \A i, j \in DOMAIN req.scenes : req.scenes[i].id = req.scenes[j].id => i = j
  BY <1>4, <1>8, <1>9
<1>14. ASSUME NEW x \in Live(v) \ {s} PROVE x \in Ids(req)
  <2>1. PICK k \in 1..n : v.order[k] = x
    BY OrderOf DEF n
  <2> DEFINE i == IF k < at THEN k ELSE k - 1
  <2>2. i \in 1..(n - 1) /\ (IF i < at THEN i ELSE i + 1) = k
    BY <2>1, <1>1
  <2>3. others[i] = x
    BY <2>1, <2>2, <1>3
  <2>4. QED
    BY <2>2, <2>3, <1>8, <1>9 DEF Ids
<1>15. Ids(req) = Live(v) \ {s}
  BY <1>3, <1>8, <1>9, <1>14 DEF Ids
<1>16. QED
  BY <1>2, <1>8, <1>11, <1>12, <1>13, <1>15 DEF RequestOf, req

\* A page that is up to date is not refused.
LEMMA WithoutTaken ==
  ASSUME NEW p, Sound(p), NEW s \in Live(p)
  PROVE  ~PutConflict(p, Without(p, s))
<1> DEFINE req == Without(p, s)
<1>1. RequestOf(req, p) /\ Ids(req) = Live(p) \ {s}
  BY WithoutOf
<1>2. req.deleted = {[id |-> x, edit |-> p.scenes[x].edit] : x \in {s}}
  BY DEF Without, Gone
<1>3. NoScene \notin Live(p)
  BY OrderOf
<1> HIDE DEF req
<1>4. {d.id : d \in req.deleted} = {s}
  <2> DEFINE gone == [id |-> s, edit |-> p.scenes[s].edit]
  <2>1. gone.id = s /\ req.deleted = {gone}
    BY <1>2
  <2> HIDE DEF gone
  <2>2. QED
    BY <2>1
<1>5. Live(p) = (Ids(req) \ {NoScene}) \cup {d.id : d \in req.deleted}
  BY <1>1, <1>3, <1>4
<1>6. \A d \in req.deleted : d.edit = p.scenes[d.id].edit
  BY <1>2
<1>7. \A i \in Kept(req) : req.scenes[i].edit = p.scenes[req.scenes[i].id].edit
  BY <1>1 DEF RequestOf, CopyIn
<1>8. p.revision = req.revision
  BY <1>1 DEF RequestOf
<1>9. QED
  BY <1>5, <1>6, <1>7, <1>8 DEF PutConflict, req

-----------------------------------------------------------------------------
\* A view that the server does not refuse is the project.
LEMMA TakenIsKnown ==
  ASSUME NEW p, NEW u \in Nat, NEW v, NEW req, Sound(p), Known(v, p, u), RequestOf(req, v),
         ~PutConflict(p, req)
  PROVE  /\ v.order = p.order /\ Live(v) = Live(p)
         /\ \A s \in Live(p) : Content(v.scenes[s]) = Content(p.scenes[s])
<1>1. p.revision = v.revision
  BY DEF PutConflict, RequestOf
<1>2. v.order = p.order
  BY <1>1 DEF Known
<1>3. Live(v) = Live(p)
  BY <1>2 DEF Known, Sound
<1>4. ASSUME NEW s \in Live(p) PROVE v.scenes[s].edit = p.scenes[s].edit
  <2>1. s \in (Ids(req) \ {NoScene}) \cup {d.id : d \in req.deleted}
    BY DEF PutConflict
  <2>2. CASE s \in Ids(req) /\ s # NoScene
    <3>1. PICK i \in DOMAIN req.scenes : req.scenes[i].id = s
      BY <2>2 DEF Ids
    <3>2. i \in Kept(req)
      BY <3>1, <2>2 DEF Kept
    <3>3. req.scenes[i].edit = v.scenes[s].edit
      BY <3>1, <3>2 DEF RequestOf, CopyIn
    <3>4. req.scenes[i].edit = p.scenes[s].edit
      BY <3>1, <3>2 DEF PutConflict
    <3>5. QED
      BY <3>3, <3>4
  <2>3. CASE s \in {d.id : d \in req.deleted}
    <3>1. PICK d \in req.deleted : d.id = s
      BY <2>3
    <3>2. QED
      BY <3>1 DEF PutConflict, RequestOf, Deletes
  <2>4. QED
    BY <2>1, <2>2, <2>3
<1>5. ASSUME NEW s \in Live(p) PROVE Content(v.scenes[s]) = Content(p.scenes[s])
  BY <1>3, <1>4, <1>5 DEF Known, Behind
<1>6. QED
  BY <1>2, <1>3, <1>5

\* The order of the new set: at most one scene of it is new.
LEMMA NamedOrder ==
  ASSUME NEW v, NEW req, NEW u \in Nat, RequestOf(req, v), Sound(v), Live(v) \subseteq 1..u
  PROVE  LET order == Named(req, u + 1)
         IN /\ order \in Seq(Nat \ {NoScene}) /\ DOMAIN order = DOMAIN req.scenes
            /\ \A i \in DOMAIN order :
                  order[i] = IF req.scenes[i].id # NoScene THEN req.scenes[i].id ELSE u + 1
            /\ \A i \in DOMAIN order : order[i] \in Live(v) \cup {u + 1}
            /\ \A i, j \in DOMAIN order : order[i] = order[j] => i = j
<1> DEFINE order == Named(req, u + 1)
           n     == Len(req.scenes)
<1>1. n \in Nat /\ DOMAIN req.scenes = 1..n /\ \A i \in 1..n : req.scenes[i] \in Copied
  BY DEF RequestOf
<1>2. order = [i \in 1..n |->
                 IF req.scenes[i].id # NoScene THEN req.scenes[i].id
                 ELSE (u + 1) + Cardinality({j \in 1..(i - 1) : req.scenes[j].id = NoScene})]
  BY <1>1 DEF Named
<1>3. ASSUME NEW i \in 1..n, req.scenes[i].id = NoScene
      PROVE  Cardinality({j \in 1..(i - 1) : req.scenes[j].id = NoScene}) = 0
  <2>1. {j \in 1..(i - 1) : req.scenes[j].id = NoScene} = {}
    <3> SUFFICES ASSUME NEW j \in 1..(i - 1), req.scenes[j].id = NoScene PROVE FALSE
      OBVIOUS
    <3>1. j \in 1..n /\ j # i
      BY <1>1
    <3>2. QED
      BY <3>1, <1>1, <1>3 DEF RequestOf
  <2>2. QED
    BY <2>1, FS_EmptySet
<1> HIDE DEF n
<1>4. ASSUME NEW i \in 1..n
      PROVE  order[i] = IF req.scenes[i].id # NoScene THEN req.scenes[i].id ELSE u + 1
  <2>1. CASE req.scenes[i].id # NoScene
    BY <1>2, <2>1
  <2>2. CASE req.scenes[i].id = NoScene
    <3> DEFINE before == Cardinality({j \in 1..(i - 1) : req.scenes[j].id = NoScene})
    <3>1. order[i] = (u + 1) + before
      BY <1>2, <2>2
    <3>2. before = 0
      BY <1>3, <2>2
    <3> HIDE DEF before, order
    <3>3. QED
      BY <3>1, <3>2, <2>2
  <2>3. QED
    BY <2>1, <2>2
<1>5. DOMAIN order = 1..n
  BY <1>2
<1> HIDE DEF order
<1>6. ASSUME NEW i \in 1..n
      PROVE  req.scenes[i].id # NoScene => req.scenes[i].id \in Live(v)
  BY <1>1 DEF RequestOf, CopyIn, Kept
<1>7. ASSUME NEW i \in 1..n PROVE order[i] \in Live(v) \cup {u + 1} /\ order[i] \in Nat \ {NoScene}
  BY <1>4, <1>6 DEF NoScene
<1>8. order \in Seq(Nat \ {NoScene})
  <2>1. order = [i \in 1..n |-> order[i]]
    BY <1>2, <1>5 DEF order
  <2>2. QED
    BY <2>1, <1>1, <1>7
<1>9. ASSUME NEW i \in 1..n, NEW j \in 1..n, order[i] = order[j] PROVE i = j
  <2>1. u + 1 \notin Live(v)
    OBVIOUS
  <2>2. req.scenes[i].id = req.scenes[j].id
    BY <2>1, <1>4, <1>6, <1>9
  <2>3. QED
    BY <2>2, <1>1 DEF RequestOf
<1>10. QED
  BY <1>1, <1>4, <1>5, <1>7, <1>8, <1>9 DEF order

\* A scene of the new set, by its place.
LEMMA ReplacedScene ==
  ASSUME NEW p, NEW v, NEW req, NEW u \in Nat, RequestOf(req, v), Sound(v), Sound(p),
         Live(v) \subseteq 1..u, NEW i \in DOMAIN req.scenes
  PROVE  LET order  == Named(req, u + 1)
             new    == Replaced(p, req, u + 1).scenes[order[i]]
             in     == req.scenes[i]
             source == Resolved(in.kind, in.from, Before(order, order[i]))
         IN /\ new \in Scenes
            /\ new.kind = source.kind /\ new.from = source.from /\ new.auto = source.auto
            /\ order[i] \in Live(p) =>
                  LET old == p.scenes[order[i]]
                  IN /\ old.edit <= new.edit
                     /\ old.edit = new.edit => Content(old) = Content(new)
<1> DEFINE order  == Named(req, u + 1)
           new    == Replaced(p, req, u + 1).scenes[order[i]]
           in     == req.scenes[i]
           source == Resolved(in.kind, in.from, Before(order, order[i]))
           s      == order[i]
           old    == p.scenes[s]
<1>1. /\ order \in Seq(Nat) /\ DOMAIN order = DOMAIN req.scenes
      /\ \A j, k \in DOMAIN order : order[j] = order[k] => j = k
  BY NamedOrder
<1>2. Position(order, s) = i /\ Before(order, s) \in Nat
  <2> HIDE DEF order
  <2>1. QED
    BY <1>1, PositionOf, BeforeType
<1>3. in \in Copied
  BY DEF RequestOf
<1>4. new = IF s \in Live(p) THEN Stored(Filled(in, source), old) ELSE Born(Filled(in, source))
  <2>1. s \in {order[k] : k \in DOMAIN order}
    BY <1>1
  <2>2. QED
    BY <1>2, <2>1 DEF Replaced
<1>5. /\ source.kind \in {"none", "asset", "prev"} /\ source.from \in Nat /\ source.auto \in BOOLEAN
      /\ in.text \in Texts /\ in.wish \in Texts
  <2>1. in.text \in Texts /\ in.wish \in Texts /\ in.kind \in {"none", "asset", "prev"} /\ in.from \in Nat
    BY <1>3 DEF Copied
  <2> HIDE DEF in, order, s
  <2>2. source.kind = in.kind /\ source.from \in Nat /\ source.auto \in BOOLEAN
    BY <2>1, <1>2 DEF Resolved, NoScene, s
  <2>3. QED
    BY <2>1, <2>2
<1> HIDE DEF order, in, source
<1>6. CASE s \in Live(p)
  <2>1. old \in Scenes /\ old.edit \in Nat
    BY <1>6 DEF Sound, Scenes
  <2>2. new = Stored(Filled(in, source), old)
    BY <1>4, <1>6
  <2> HIDE DEF new, old, s
  <2>3. /\ new \in Scenes
        /\ new.edit >= old.edit
        /\ new.edit = old.edit => Content(new) = Content(old)
        /\ new.kind = source.kind /\ new.from = source.from /\ new.auto = source.auto
    BY <2>1, <2>2, <1>5, StoredScene
  <2>4. new.edit \in Nat
    BY <2>3 DEF Scenes
  <2>5. QED
    BY <2>1, <2>3, <2>4 DEF new, old, s, order, in, source
<1>7. CASE s \notin Live(p)
  <2>1. new = Born(Filled(in, source))
    BY <1>4, <1>7
  <2> HIDE DEF new
  <2>2. /\ new \in Scenes
        /\ new.kind = source.kind /\ new.from = source.from /\ new.auto = source.auto
    BY <2>1, <1>5, BornScene
  <2>3. QED
    BY <2>2, <1>7 DEF new, old, s, order, in, source
<1>8. QED
  BY <1>6, <1>7

LEMMA UpdatedStep ==
  ASSUME NEW p, NEW u \in Nat, Sound(p), Live(p) \subseteq 1..u, NEW s \in Live(p),
         NEW body \in Bodies
  PROVE  /\ Advance(p, Updated(p, s, body), u, u)
         /\ Live(Updated(p, s, body)) = Live(p)
         /\ ChoicesKept(p, Updated(p, s, body))
         /\ SourcesIn(p) => SourcesIn(Updated(p, s, body))
         /\ Sound(Updated(p, s, body))
<1> DEFINE q     == Updated(p, s, body)
           old   == p.scenes[s]
           draft == [f \in Fields |-> IF f \in DOMAIN body THEN body[f] ELSE old[f]]
           new   == Stored(Filled(draft, old), old)
<1>1. old \in Scenes /\ old.edit \in Nat /\ p.scenes \in [Live(p) -> Scenes]
  BY DEF Sound, Scenes
<1>2. draft.text \in Texts /\ draft.wish \in Texts
  <2>1. \A f \in DOMAIN body : body[f] \in Texts
    BY DEF Bodies
  <2>2. old.text \in Texts /\ old.wish \in Texts
    BY <1>1 DEF Scenes
  <2>3. draft.text = IF "text" \in DOMAIN body THEN body["text"] ELSE old.text
    BY DEF Fields
  <2>4. draft.wish = IF "wish" \in DOMAIN body THEN body["wish"] ELSE old.wish
    BY DEF Fields
  <2> HIDE DEF draft, old
  <2>5. QED
    BY <2>1, <2>2, <2>3, <2>4
<1>3. /\ new \in Scenes /\ new.edit >= old.edit
      /\ new.edit = old.edit => Content(new) = Content(old)
      /\ new.kind = old.kind /\ new.from = old.from /\ new.auto = old.auto
  <2>1. old.kind \in {"none", "asset", "prev"} /\ old.from \in Nat /\ old.auto \in BOOLEAN
    BY <1>1 DEF Scenes
  <2> HIDE DEF draft, old
  <2>2. QED
    BY <1>1, <1>2, <2>1, StoredScene
<1>4. new.edit \in Nat
  BY <1>3 DEF Scenes
<1>5. q = IF new = old THEN p ELSE [p EXCEPT !.seq = @ + 1, !.scenes[s] = new]
  BY DEF Updated
<1> HIDE DEF new, draft, q
<1>6. /\ q.revision = p.revision /\ q.order = p.order /\ Live(q) = Live(p)
      /\ \A x \in Live(p) : q.scenes[x] = IF x = s THEN new ELSE p.scenes[x]
      /\ q \in [seq : Nat, revision : Nat, order : Seq(Nat \ {NoScene}), scenes : [Live(p) -> Scenes]]
  <2>1. p \in [seq : Nat, revision : Nat, order : Seq(Nat \ {NoScene}), scenes : [Live(p) -> Scenes]]
    BY DEF Sound
  <2>2. CASE new = old
    BY <1>5, <2>1, <2>2
  <2>3. CASE new # old
    <3>1. q = [p EXCEPT !.seq = @ + 1, !.scenes = [p.scenes EXCEPT ![s] = new]]
      BY <1>5, <2>3
    <3> DEFINE scenes == [p.scenes EXCEPT ![s] = new]
    <3>2. scenes \in [Live(p) -> Scenes] /\ \A x \in Live(p) : scenes[x] = IF x = s THEN new ELSE p.scenes[x]
      BY <1>1, <1>3
    <3> HIDE DEF scenes
    <3>3. q = [p EXCEPT !.seq = p.seq + 1, !.scenes = scenes]
      BY <3>1 DEF scenes
    <3>4. q.scenes = scenes /\ q.revision = p.revision /\ q.order = p.order
      BY <3>3, <2>1
    <3>6. q \in [seq : Nat, revision : Nat, order : Seq(Nat \ {NoScene}), scenes : [Live(p) -> Scenes]]
      <4> DEFINE maps == [Live(p) -> Scenes]
      <4>1. scenes \in maps /\ p \in [seq : Nat, revision : Nat, order : Seq(Nat \ {NoScene}), scenes : maps]
        BY <2>1, <3>2
      <4>2. p.seq \in Nat /\ p.revision \in Nat /\ p.order \in Seq(Nat \ {NoScene})
        BY <2>1
      <4>3. q = [seq |-> p.seq + 1, revision |-> p.revision, order |-> p.order, scenes |-> scenes]
        BY <3>3, <2>1
      <4> HIDE DEF maps
      <4>4. q \in [seq : Nat, revision : Nat, order : Seq(Nat \ {NoScene}), scenes : maps]
        BY <4>1, <4>2, <4>3
      <4>5. QED
        BY <4>4 DEF maps
    <3>5. QED
      BY <3>2, <3>4, <3>6 DEF Live
  <2>4. QED
    BY <2>2, <2>3
<1>7. \A x \in Live(p) : /\ q.scenes[x].kind = p.scenes[x].kind
                         /\ q.scenes[x].from = p.scenes[x].from
                         /\ q.scenes[x].auto = p.scenes[x].auto
  BY <1>3, <1>6
<1>8. Sound(q)
  <2>1. \A x \in Live(q) : Sourced(q.scenes[x])
    BY <1>6, <1>7 DEF Sound, Sourced
  <2>2. QED
    BY <1>6, <2>1 DEF Sound
<1>9. \A x \in Live(p) : /\ p.scenes[x].edit <= q.scenes[x].edit
                         /\ p.scenes[x].edit = q.scenes[x].edit
                            => Content(p.scenes[x]) = Content(q.scenes[x])
  <2> TAKE x \in Live(p)
  <2>1. p.scenes[x] \in Scenes /\ p.scenes[x].edit \in Nat
    BY <1>1 DEF Scenes
  <2>2. CASE x = s
    BY <2>2, <1>1, <1>3, <1>4, <1>6
  <2>3. CASE x # s
    BY <2>1, <2>3, <1>6
  <2>4. QED
    BY <2>2, <2>3
<1>10. Advance(p, q, u, u)
  <2>1. p.revision \in Nat
    BY DEF Sound
  <2>2. QED
    BY <1>6, <1>8, <1>9, <2>1 DEF Advance
<1>11. ChoicesKept(p, q)
  BY <1>7 DEF ChoicesKept
<1>12. SourcesIn(p) => SourcesIn(q)
  BY <1>6, <1>7 DEF SourcesIn
<1>13. QED
  BY <1>6, <1>8, <1>10, <1>11, <1>12 DEF q

LEMMA ReplacedStep ==
  ASSUME NEW p, NEW v, NEW req, NEW u \in Nat, Sound(p), SourcesIn(p), Live(p) \subseteq 1..u,
         Known(v, p, u), RequestOf(req, v), ~PutConflict(p, req), ~PutUnknown(req, u + 1)
  PROVE  LET q == Replaced(p, req, u + 1)
         IN /\ Advance(p, q, u, u + Cardinality(Live(q) \ Live(p)))
            /\ ChoicesKept(p, q)
            /\ SourcesIn(q)
<1> DEFINE order == Named(req, u + 1)
           q     == Replaced(p, req, u + 1)
           source(i) == Resolved(req.scenes[i].kind, req.scenes[i].from, Before(order, order[i]))
<1>1. Sound(v) /\ Live(v) \subseteq 1..u /\ p.revision \in Nat
  BY DEF Known, Sound
<1>2. /\ v.order = p.order /\ Live(v) = Live(p)
      /\ \A s \in Live(p) : Content(v.scenes[s]) = Content(p.scenes[s])
  BY TakenIsKnown
<1>3. /\ order \in Seq(Nat \ {NoScene}) /\ DOMAIN order = DOMAIN req.scenes
      /\ \A i \in DOMAIN order :
            order[i] = IF req.scenes[i].id # NoScene THEN req.scenes[i].id ELSE u + 1
      /\ \A i \in DOMAIN order : order[i] \in Live(p) \cup {u + 1}
      /\ \A i, j \in DOMAIN order : order[i] = order[j] => i = j
  BY <1>1, <1>2, NamedOrder
<1>4. /\ q.seq = p.seq + 1 /\ q.revision = p.revision + 1 /\ q.order = order
      /\ Live(q) = {order[i] : i \in DOMAIN order}
      /\ q = [seq |-> q.seq, revision |-> q.revision, order |-> q.order, scenes |-> q.scenes]
      /\ q.scenes = [s \in Live(q) |-> q.scenes[s]]
  BY DEF Replaced, Live
<1>5. ASSUME NEW i \in DOMAIN order
      PROVE  LET new == q.scenes[order[i]]
             IN /\ new \in Scenes
                /\ new.kind = source(i).kind /\ new.from = source(i).from
                /\ new.auto = source(i).auto
                /\ order[i] \in Live(p) =>
                     LET old == p.scenes[order[i]]
                     IN /\ old.edit <= new.edit
                        /\ old.edit = new.edit => Content(old) = Content(new)
  BY <1>1, <1>3, ReplacedScene
<1>6. \A i \in DOMAIN order : source(i).from \in ({order[j] : j \in DOMAIN order} \ {order[i]}) \cup {NoScene}
  BY DEF PutUnknown
<1>7. \A i \in DOMAIN order :
        IF source(i).kind = "prev"
        THEN /\ source(i).auto \/ source(i).from # NoScene
             /\ source(i).auto => source(i).from = Before(order, order[i])
        ELSE ~source(i).auto /\ source(i).from = NoScene
  BY DEF Resolved
<1>20. \A i \in DOMAIN order : source(i).kind = req.scenes[i].kind
          /\ (source(i).auto <=> source(i).kind = "prev" /\ req.scenes[i].from = NoScene)
          /\ (source(i).kind = "prev" /\ req.scenes[i].from # NoScene => source(i).from = req.scenes[i].from)
  BY DEF Resolved
<1> HIDE DEF order, q, source
<1>8. \A s \in Live(q) : q.scenes[s] \in Scenes
  BY <1>4, <1>5
<1>9. Sound(q)
  <2>1. q.scenes \in [Live(q) -> Scenes]
    BY <1>4, <1>8
  <2>2. p.seq \in Nat
    BY DEF Sound
  <2>3. q \in [seq : Nat, revision : Nat, order : Seq(Nat \ {NoScene}), scenes : [Live(q) -> Scenes]]
    <3> DEFINE maps == [Live(q) -> Scenes]
    <3>1. q.scenes \in maps /\ q.seq \in Nat /\ q.revision \in Nat
          /\ q.order \in Seq(Nat \ {NoScene})
      BY <2>1, <2>2, <1>1, <1>3, <1>4
    <3> HIDE DEF maps
    <3>2. q \in [seq : Nat, revision : Nat, order : Seq(Nat \ {NoScene}), scenes : maps]
      BY <3>1, <1>4
    <3>3. QED
      BY <3>2 DEF maps
  <2>4. ASSUME NEW s \in Live(q) PROVE Sourced(q.scenes[s])
    <3>1. PICK i \in DOMAIN order : order[i] = s
      BY <1>4
    <3>2. q.scenes[s].kind = source(i).kind /\ q.scenes[s].from = source(i).from
          /\ q.scenes[s].auto = source(i).auto
      BY <3>1, <1>5
    <3>3. QED
      BY <3>2, <1>7 DEF Sourced
  <2>5. /\ Live(q) = {q.order[i] : i \in DOMAIN q.order}
        /\ \A i, j \in DOMAIN q.order : q.order[i] = q.order[j] => i = j
    BY <1>3, <1>4
  <2>6. QED
    BY <2>3, <2>4, <2>5 DEF Sound
<1>10. SourcesIn(q)
  <2> SUFFICES ASSUME NEW i \in DOMAIN order
               PROVE  LET scene == q.scenes[order[i]]
                      IN /\ scene.from \in (Live(q) \ {order[i]}) \cup {NoScene}
                         /\ scene.auto => scene.from = Before(q.order, order[i])
    BY <1>4 DEF SourcesIn
  <2>1. q.scenes[order[i]].from \in (Live(q) \ {order[i]}) \cup {NoScene}
    BY <1>4, <1>5, <1>6
  <2>2. q.scenes[order[i]].auto => q.scenes[order[i]].from = Before(q.order, order[i])
    BY <1>4, <1>5, <1>7
  <2>3. QED
    BY <2>1, <2>2
<1>11. Live(q) \ Live(p) = {} \/ Live(q) \ Live(p) = {u + 1}
  BY <1>3, <1>4
<1>12. Advance(p, q, u, u + Cardinality(Live(q) \ Live(p)))
  <2> DEFINE w == u + Cardinality(Live(q) \ Live(p))
  <2>1. w \in Nat /\ u <= w /\ Live(q) \subseteq 1..w
    <3>1. CASE Live(q) \ Live(p) = {}
      <4>1. w = u
        BY <3>1, FS_EmptySet
      <4>2. QED
        BY <4>1, <3>1
    <3>2. CASE Live(q) \ Live(p) = {u + 1}
      <4>1. Cardinality({u + 1}) = 1
        BY FS_Singleton
      <4>2. w = u + 1
        BY <4>1, <3>2
      <4>3. QED
        BY <4>2, <3>2
    <3>3. QED
      BY <1>11, <3>1, <3>2
  <2>2. \A s \in Live(q) \ Live(p) : u < s
    BY <1>11
  <2>3. ASSUME NEW s \in Live(q), s \in Live(p)
        PROVE  /\ p.scenes[s].edit <= q.scenes[s].edit
               /\ p.scenes[s].edit = q.scenes[s].edit => Content(p.scenes[s]) = Content(q.scenes[s])
    BY <1>4, <1>5, <2>3
  <2> HIDE DEF w
  <2>4. p.revision <= q.revision /\ p.revision # q.revision
    BY <1>1, <1>4
  <2>5. Advance(p, q, u, w)
    BY <2>1, <2>2, <2>3, <2>4, <1>9 DEF Advance
  <2>6. QED
    BY <2>5 DEF w
<1>13. ChoicesKept(p, q)
  <2> SUFFICES ASSUME NEW s \in Live(p) \cap Live(q)
               PROVE  LET old == p.scenes[s]  new == q.scenes[s]
                      IN /\ old.auto => new.auto
                         /\ (~old.auto /\ old.from \in Live(q)) => new.from = old.from /\ ~new.auto
    BY DEF ChoicesKept
  <2>1. PICK i \in DOMAIN order : order[i] = s
    BY <1>4
  <2>2. req.scenes[i].id = s /\ i \in Kept(req)
    <3>1. s # u + 1 /\ s # NoScene
      BY OrderOf
    <3>2. QED
      BY <2>1, <3>1, <1>3 DEF Kept
  <2> DEFINE in  == req.scenes[i]
             old == p.scenes[s]
             new == q.scenes[s]
  <2>3. /\ in.kind = v.scenes[s].kind
        /\ v.scenes[s].auto => in.from = NoScene
        /\ ~v.scenes[s].auto => in.from = v.scenes[s].from \/ v.scenes[s].from \notin Ids(req) \cup {NoScene}
    BY <2>2 DEF RequestOf, CopyIn
  <2>4. v.scenes[s].kind = old.kind /\ v.scenes[s].auto = old.auto /\ v.scenes[s].from = old.from
    BY <1>2 DEF Content
  <2>5. /\ new.kind = source(i).kind /\ new.from = source(i).from /\ new.auto = source(i).auto
    BY <1>5, <2>1
  <2>6. IF old.kind = "prev" THEN old.auto \/ old.from # NoScene
                             ELSE ~old.auto /\ old.from = NoScene
    BY DEF Sound, Sourced
  <2>7. old.from \in Live(p) \cup {NoScene}
    BY DEF SourcesIn
  <2>8. Live(q) \subseteq Ids(req) \cup {u + 1} /\ u + 1 \notin Live(p) /\ NoScene \notin Live(q)
    <3>1. \A j \in DOMAIN order : order[j] # NoScene
      BY <1>3
    <3>2. \A j \in DOMAIN order : order[j] \in Ids(req) \cup {u + 1}
      BY <1>3 DEF Ids
    <3>3. QED
      BY <3>1, <3>2, <1>4
  <2>9. source(i).kind = in.kind
          /\ (source(i).auto <=> source(i).kind = "prev" /\ in.from = NoScene)
          /\ (source(i).kind = "prev" /\ in.from # NoScene => source(i).from = in.from)
    BY <1>20
  <2> HIDE DEF in, old, new
  <2>10. old.auto => new.auto
    BY <2>3, <2>4, <2>5, <2>6, <2>9
  <2>11. ASSUME ~old.auto, old.from \in Live(q) PROVE new.from = old.from /\ ~new.auto
    <3>1. old.from # NoScene /\ old.from \in Ids(req) /\ old.kind = "prev"
      BY <2>11, <2>6, <2>7, <2>8
    <3>2. in.from = old.from /\ in.kind = "prev"
      BY <3>1, <2>3, <2>4, <2>11
    <3>3. QED
      BY <3>1, <3>2, <2>5, <2>9
  <2>12. QED
    BY <2>10, <2>11 DEF old, new
<1>14. QED
  BY <1>10, <1>12, <1>13 DEF q

-----------------------------------------------------------------------------
\* The cards: what each move keeps when every scene it is given is one of S.

LEMMA CardIs ==
  ASSUME NEW S, NEW c \in CardsOf(S)
  PROVE  /\ c.draft \in Drafts /\ c.dirty \in SUBSET Fields /\ c.base \in S /\ c.server \in S
         /\ c.patch \in Patches(S) /\ c.retyped \in SUBSET Fields
         /\ c.queued \in BOOLEAN /\ c.conflict \in BOOLEAN
         /\ c \in CardRecords(S) /\ Unsaved(c)
BY DEF CardsOf, CardRecords

LEMMA FieldOf ==
  ASSUME NEW x \in Scenes, NEW f \in Fields
  PROVE  x[f] \in Texts
<1>1. x["text"] \in Texts /\ x["wish"] \in Texts
  BY DEF Scenes
<1>2. QED
  BY <1>1 DEF Fields

LEMMA PatchIs ==
  ASSUME NEW S, NEW patch \in PatchesOf(S)
  PROVE  /\ patch.on = TRUE /\ patch.answer \in Answers /\ patch.scene \in S /\ patch.over \in S
         /\ patch.body \in Bodies
BY DEF PatchesOf

LEMMA NoPatchOn ==
  ASSUME NEW S
  PROVE  /\ NoPatch.on = FALSE /\ NoPatch \in Patches(S)
         /\ \A patch \in Patches(S) :
               /\ patch.on \in BOOLEAN
               /\ patch.on => patch \in PatchesOf(S)
<1>1. NoPatch.on = FALSE
  BY DEF NoPatch
<1>2. \A patch \in PatchesOf(S) : patch.on = TRUE
  BY PatchIs
<1>3. QED
  BY <1>1, <1>2 DEF Patches

LEMMA FreshCard ==
  ASSUME NEW S, S \subseteq Scenes, NEW scene \in S
  PROVE  Fresh(scene) \in CardsOf(S)
<1>1. Draft(scene) \in Drafts
  BY FieldOf DEF Draft, Drafts
<1>2. NoPatch \in Patches(S) /\ ~NoPatch.on
  BY NoPatchOn
<1>3. Fresh(scene) \in CardRecords(S)
  BY <1>1, <1>2 DEF Fresh, CardRecords
<1>4. Fresh(scene).patch = NoPatch
  BY DEF Fresh
<1>5. QED
  BY <1>2, <1>3, <1>4 DEF CardsOf, Unsaved

LEMMA AdoptedCard ==
  ASSUME NEW S, S \subseteq Scenes, NEW c \in CardsOf(S)
  PROVE  /\ AdoptClean(c) \in CardsOf(S)
         /\ AdoptClean(c).dirty = c.dirty /\ AdoptClean(c).server = c.server
         /\ AdoptClean(c).base = c.base
<1> DEFINE draft == [f \in Fields |-> IF f \in c.dirty THEN c.draft[f] ELSE c.server[f]]
           new   == AdoptClean(c)
<1>1. new = [c EXCEPT !.draft = draft]
  BY DEF AdoptClean
<1>2. draft \in Drafts
  <2>1. \A f \in Fields : c.draft[f] \in Texts /\ c.server[f] \in Texts
    BY CardIs, FieldOf DEF Drafts
  <2>2. QED
    BY <2>1 DEF Drafts
<1>3. \A f \in c.dirty : draft[f] = c.draft[f]
  BY CardIs
<1> HIDE DEF draft, new
<1>4. new \in CardRecords(S)
  BY <1>1, <1>2, CardIs DEF CardRecords
<1>5. /\ new.draft = draft /\ new.dirty = c.dirty /\ new.patch = c.patch
      /\ new.retyped = c.retyped /\ new.server = c.server /\ new.base = c.base
  BY <1>1, CardIs DEF CardRecords
<1>6. Unsaved(new)
  BY <1>3, <1>5, CardIs DEF Unsaved
<1>7. QED
  BY <1>4, <1>5, <1>6 DEF CardsOf, new

LEMMA QueuedCard ==
  ASSUME NEW S, NEW c \in CardsOf(S), NEW queued \in BOOLEAN
  PROVE  [c EXCEPT !.queued = queued] \in CardsOf(S) /\ [c EXCEPT !.queued = queued].dirty = c.dirty
<1> DEFINE new == [c EXCEPT !.queued = queued]
<1>1. new \in CardRecords(S)
  BY CardIs DEF CardRecords
<1>2. new.draft = c.draft /\ new.dirty = c.dirty /\ new.patch = c.patch /\ new.retyped = c.retyped
  BY CardIs DEF CardRecords
<1> HIDE DEF new
<1>3. QED
  BY <1>1, <1>2, CardIs DEF CardsOf, Unsaved, new

LEMMA SendingCard ==
  ASSUME NEW S, NEW c \in CardsOf(S), NEW over \in S
  PROVE  Sending(c, over) \in CardsOf(S) /\ Sending(c, over).dirty = c.dirty
<1>1. CASE c.patch.on
  BY <1>1, QueuedCard DEF Sending
<1>2. CASE ~c.patch.on /\ c.dirty = {}
  BY <1>2, QueuedCard DEF Sending
<1>3. CASE ~c.patch.on /\ c.dirty # {}
  <2> DEFINE body  == [f \in c.dirty |-> c.draft[f]]
             patch == [on |-> TRUE, answer |-> "none", scene |-> over, over |-> over, body |-> body]
             new   == Sending(c, over)
             none  == {}
  <2>1. new = [c EXCEPT !.queued = FALSE, !.retyped = none, !.patch = patch]
    BY <1>3 DEF Sending
  <2>9. none \in SUBSET Fields /\ c \in CardRecords(S)
    BY CardIs
  <2> HIDE DEF none
  <2>2. body \in Bodies
    <3>1. c.dirty \in SUBSET Fields /\ \A f \in c.dirty : c.draft[f] \in Texts
      BY CardIs DEF Drafts
    <3>2. QED
      BY <3>1 DEF Bodies
  <2>3. \A f \in c.dirty : f \in DOMAIN body /\ body[f] = c.draft[f]
    OBVIOUS
  <2> HIDE DEF body, new
  <2>4. patch \in Patches(S) /\ patch.body = body
    BY <2>2 DEF Patches, PatchesOf, Answers
  <2> HIDE DEF patch
  <2>5. new \in CardRecords(S)
    BY <2>1, <2>4, <2>9 DEF CardRecords
  <2>6. new.draft = c.draft /\ new.dirty = c.dirty /\ new.patch = patch
    BY <2>1, CardIs DEF CardRecords
  <2>7. Unsaved(new)
    BY <2>3, <2>4, <2>6 DEF Unsaved
  <2>8. QED
    BY <2>5, <2>6, <2>7 DEF CardsOf, new
<1>4. QED
  BY <1>1, <1>2, <1>3, CardIs, NoPatchOn

LEMMA FlushedCard ==
  ASSUME NEW S, NEW c \in CardsOf(S)
  PROVE  Flushed(c) \in CardsOf(S) /\ Flushed(c).dirty = c.dirty
<1>1. c.base \in S
  BY CardIs
<1>2. Sending(c, c.base) \in CardsOf(S) /\ Sending(c, c.base).dirty = c.dirty
  BY <1>1, SendingCard
<1>3. QED
  BY <1>2 DEF Flushed

\* The card free of its request, and with other scenes.
LEMMA FreedCard ==
  ASSUME NEW S, NEW c \in CardsOf(S)
  PROVE  LET free == [c EXCEPT !.patch = NoPatch, !.retyped = {}]
         IN /\ free \in CardsOf(S) /\ free.dirty = c.dirty /\ free.base = c.base
            /\ free.server = c.server
<1> DEFINE free == [c EXCEPT !.patch = NoPatch, !.retyped = {}]
           none == {}
<1>5. none \in SUBSET Fields /\ NoPatch \in Patches(S) /\ c \in CardRecords(S)
  BY CardIs, NoPatchOn
<1>6. free = [c EXCEPT !.patch = NoPatch, !.retyped = none]
  OBVIOUS
<1> HIDE DEF none, free
<1>1. free \in CardRecords(S)
  BY <1>5, <1>6 DEF CardRecords
<1> USE DEF free
<1>2. free.dirty = c.dirty /\ free.base = c.base /\ free.server = c.server /\ free.patch = NoPatch
  BY CardIs DEF CardRecords
<1> HIDE DEF free
<1>3. Unsaved(free)
  BY <1>2, NoPatchOn DEF Unsaved
<1>4. QED
  BY <1>1, <1>2, <1>3 DEF CardsOf, free

LEMMA MovedCard ==
  ASSUME NEW S, NEW c \in CardsOf(S), NEW new \in CardRecords(S), new.patch = c.patch,
         new.retyped = c.retyped, new.draft = c.draft, new.dirty \subseteq c.dirty
  PROVE  new \in CardsOf(S)
BY CardIs DEF CardsOf, Unsaved

LEMMA NewerOf ==
  ASSUME NEW S, NEW a \in S, NEW b \in S
  PROVE  Newer(a, b) \in S
BY DEF Newer

LEMMA BasedCard ==
  ASSUME NEW S, NEW c \in CardsOf(S), NEW base \in S
  PROVE  [c EXCEPT !.base = base] \in CardsOf(S) /\ [c EXCEPT !.base = base].dirty = c.dirty
<1> DEFINE new == [c EXCEPT !.base = base]
<1>1. new \in CardRecords(S)
  BY CardIs DEF CardRecords
<1>2. new.draft = c.draft /\ new.dirty = c.dirty /\ new.patch = c.patch /\ new.retyped = c.retyped
  BY CardIs DEF CardRecords
<1> HIDE DEF new
<1>3. QED
  BY <1>1, <1>2, MovedCard DEF new

LEMMA ServedCard ==
  ASSUME NEW S, NEW c \in CardsOf(S), NEW server \in S
  PROVE  LET new == [c EXCEPT !.server = server]
         IN new \in CardsOf(S) /\ new.dirty = c.dirty /\ new.server = server
<1> DEFINE new == [c EXCEPT !.server = server]
<1>1. new \in CardRecords(S)
  BY CardIs DEF CardRecords
<1>2. /\ new.draft = c.draft /\ new.dirty = c.dirty /\ new.patch = c.patch
      /\ new.retyped = c.retyped /\ new.server = server
  BY CardIs DEF CardRecords
<1> HIDE DEF new
<1>3. QED
  BY <1>1, <1>2, MovedCard DEF new

LEMMA SceneSeenCard ==
  ASSUME NEW S, S \subseteq Scenes, NEW c \in CardsOf(S), NEW scene \in S
  PROVE  SceneSeen(c, scene) \in CardsOf(S) /\ SceneSeen(c, scene).dirty = c.dirty
<1> DEFINE served == [c EXCEPT !.server = scene]
           next   == AdoptClean(served)
<1>1. served \in CardsOf(S) /\ served.dirty = c.dirty
  BY ServedCard
<1>2. next \in CardsOf(S) /\ next.dirty = c.dirty
  <2> HIDE DEF served
  <2> QED
    BY <1>1, AdoptedCard
<1>3. [next EXCEPT !.base = scene] \in CardsOf(S) /\ [next EXCEPT !.base = scene].dirty = c.dirty
  <2> HIDE DEF next
  <2> QED
    BY <1>2, BasedCard
<1>4. SceneSeen(c, scene) = c \/ SceneSeen(c, scene) = next
      \/ SceneSeen(c, scene) = [next EXCEPT !.base = scene]
  BY DEF SceneSeen
<1> HIDE DEF next
<1>5. QED
  BY <1>2, <1>3, <1>4

LEMMA FailedCard ==
  ASSUME NEW S, NEW c \in CardsOf(S)
  PROVE  Failed(c) \in CardsOf(S) /\ Failed(c).dirty = c.dirty
<1> DEFINE new  == Failed(c)
           none == {}
<1>1. none \in SUBSET Fields /\ NoPatch \in Patches(S) /\ c \in CardRecords(S)
  BY CardIs, NoPatchOn
<1>2. new = [c EXCEPT !.patch = NoPatch, !.retyped = none, !.queued = FALSE]
  BY DEF Failed
<1> HIDE DEF none, new
<1>3. new \in CardRecords(S)
  BY <1>1, <1>2 DEF CardRecords
<1>4. new.dirty = c.dirty /\ new.patch = NoPatch
  BY <1>1, <1>2 DEF CardRecords
<1>5. Unsaved(new)
  BY <1>4, NoPatchOn DEF Unsaved
<1>6. QED
  BY <1>3, <1>4, <1>5 DEF CardsOf, new

LEMMA ConflictedCard ==
  ASSUME NEW S, S \subseteq Scenes, NEW c \in CardsOf(S), NEW current \in S
  PROVE  Conflicted(c, current) \in CardsOf(S) /\ Conflicted(c, current).dirty = c.dirty
<1> DEFINE free == [c EXCEPT !.patch = NoPatch, !.retyped = {}]
           served == [free EXCEPT !.server = Newer(@, current)]
           next == AdoptClean(served)
           based == [next EXCEPT !.base = next.server, !.conflict = FALSE]
           boxed == [next EXCEPT !.conflict = TRUE, !.queued = FALSE]
<1>1. free \in CardsOf(S) /\ free.dirty = c.dirty /\ free.server = c.server
  BY FreedCard
<1>2. served \in CardsOf(S) /\ served.dirty = c.dirty
  <2> DEFINE server == Newer(free.server, current)
  <2>1. server \in S
    BY <1>1, CardIs, NewerOf
  <2>2. served = [free EXCEPT !.server = server]
    OBVIOUS
  <2> HIDE DEF free, server, served
  <2>3. QED
    BY <1>1, <2>1, <2>2, ServedCard
<1>3. next \in CardsOf(S) /\ next.dirty = c.dirty
  <2> HIDE DEF served
  <2> QED
    BY <1>2, AdoptedCard
<1>4. based \in CardsOf(S) /\ based.dirty = c.dirty
  <2> HIDE DEF next
  <2>4. next \in CardRecords(S) /\ next.server \in S
    BY <1>3, CardIs
  <2>1. based \in CardRecords(S)
    BY <2>4 DEF CardRecords
  <2>2. /\ based.draft = next.draft /\ based.dirty = next.dirty /\ based.patch = next.patch
        /\ based.retyped = next.retyped
    BY <1>3, CardIs DEF CardRecords
  <2> HIDE DEF based
  <2>3. QED
    BY <1>3, <2>1, <2>2, MovedCard
<1>5. boxed \in CardsOf(S) /\ boxed.dirty = c.dirty
  <2> HIDE DEF next
  <2>4. next \in CardRecords(S) /\ next.server \in S
    BY <1>3, CardIs
  <2>1. boxed \in CardRecords(S)
    BY <2>4 DEF CardRecords
  <2>2. /\ boxed.draft = next.draft /\ boxed.dirty = next.dirty /\ boxed.patch = next.patch
        /\ boxed.retyped = next.retyped
    BY <1>3, CardIs DEF CardRecords
  <2> HIDE DEF boxed
  <2>3. QED
    BY <1>3, <2>1, <2>2, MovedCard
<1>6. Flushed(free) \in CardsOf(S) /\ Flushed(free).dirty = c.dirty
      /\ Flushed(based) \in CardsOf(S) /\ Flushed(based).dirty = c.dirty
  <2> HIDE DEF free, based
  <2> QED
    BY <1>1, <1>4, FlushedCard
<1>7. \/ Conflicted(c, current) = Flushed(free)
      \/ Conflicted(c, current) = Flushed(based)
      \/ Conflicted(c, current) = boxed
  <2>1. c.base.edit \in Nat /\ current.edit \in Nat
    BY CardIs DEF Scenes
  <2>2. Conflicted(c, current) =
          CASE current.edit <= c.base.edit -> Flushed(free)
            [] current.edit > c.base.edit /\ next.dirty = {} -> Flushed(based)
            [] OTHER -> boxed
    BY DEF Conflicted
  <2> HIDE DEF free, next, based, boxed
  <2>3. QED
    BY <2>1, <2>2
<1> HIDE DEF free, next, based, boxed
<1>8. QED
  BY <1>5, <1>6, <1>7

\* A save that is answered cleans what was sent, and nothing that was typed since.
LEMMA SavedCard ==
  ASSUME NEW S, S \subseteq Scenes, NEW c \in CardsOf(S), NEW scene \in S
  PROVE  Saved(c, scene) \in CardsOf(S) /\ c.dirty \cap c.retyped \subseteq Saved(c, scene).dirty
<1> DEFINE free   == [c EXCEPT !.patch = NoPatch, !.retyped = {}]
           server == Newer(c.server, scene)
           dirty  == c.dirty \cap c.retyped
           clean  == [free EXCEPT !.dirty = dirty, !.server = server, !.conflict = FALSE]
           next   == AdoptClean(clean)
           base   == IF next.dirty # {} THEN scene ELSE server
           based  == [next EXCEPT !.base = base]
<1>1. free \in CardsOf(S) /\ free.dirty = c.dirty
  BY FreedCard
<1>2. server \in S /\ c.dirty \in SUBSET Fields
  BY CardIs, NewerOf
<1>3. clean \in CardsOf(S) /\ clean.dirty = dirty
  <2>0. dirty \in SUBSET Fields /\ dirty \subseteq free.dirty
    BY <1>1, <1>2
  <2> HIDE DEF free, server, dirty
  <2>4. free \in CardRecords(S)
    BY <1>1, CardIs
  <2>1. clean \in CardRecords(S)
    BY <1>2, <2>0, <2>4 DEF CardRecords
  <2>2. /\ clean.draft = free.draft /\ clean.dirty = dirty /\ clean.patch = free.patch
        /\ clean.retyped = free.retyped
    BY <1>1, CardIs DEF CardRecords
  <2> HIDE DEF clean
  <2>3. QED
    BY <1>1, <2>0, <2>1, <2>2, MovedCard
<1>4. next \in CardsOf(S) /\ next.dirty = dirty
  <2> HIDE DEF clean, dirty
  <2> QED
    BY <1>3, AdoptedCard
<1>5. based \in CardsOf(S) /\ based.dirty = dirty
  <2>1. base \in S
    BY <1>2
  <2> HIDE DEF next, base, dirty
  <2> QED
    BY <1>4, <2>1, BasedCard
<1>6. Flushed(free) \in CardsOf(S) /\ Flushed(free).dirty = c.dirty
      /\ Flushed(based) \in CardsOf(S) /\ Flushed(based).dirty = dirty
  <2> HIDE DEF free, based, dirty
  <2> QED
    BY <1>1, <1>5, FlushedCard
<1>7. clean = [free EXCEPT !.dirty = @ \cap c.retyped, !.server = server, !.conflict = FALSE]
  <2>1. dirty = free.dirty \cap c.retyped
    BY <1>1
  <2> HIDE DEF dirty, free, server
  <2>2. QED
    BY <2>1
<1>8. Saved(c, scene) = Flushed(free) \/ Saved(c, scene) = Flushed(based)
  <2> HIDE DEF clean
  <2> QED
    BY <1>7 DEF Saved
<1> HIDE DEF free, based
<1>9. QED
  BY <1>6, <1>8

LEMMA TypedCard ==
  ASSUME NEW S, NEW c \in CardsOf(S), NEW f \in Fields, NEW v \in Texts
  PROVE  Typed(c, f, v) \in CardsOf(S) /\ c.dirty \subseteq Typed(c, f, v).dirty
<1> DEFINE draft   == [c.draft EXCEPT ![f] = v]
           dirty   == c.dirty \cup {f}
           retyped == IF c.patch.on THEN c.retyped \cup {f} ELSE c.retyped
           new == [c EXCEPT !.draft = draft, !.dirty = dirty, !.retyped = retyped]
<1>1. /\ draft \in Drafts /\ dirty \in SUBSET Fields /\ retyped \in SUBSET Fields
      /\ \A x \in Fields \ {f} : draft[x] = c.draft[x]
  BY CardIs DEF Drafts
<1>2. /\ c.dirty \subseteq dirty /\ dirty \subseteq c.dirty \cup {f}
      /\ c.patch.on => f \in retyped /\ c.retyped \subseteq retyped
  OBVIOUS
<1>3. Typed(c, f, v) = new
  BY DEF Typed
<1>8. c \in CardRecords(S)
  BY CardIs
<1> HIDE DEF draft, dirty, retyped
<1>4. new \in CardRecords(S)
  BY <1>1, <1>8 DEF CardRecords
<1>5. new.draft = draft /\ new.dirty = dirty /\ new.retyped = retyped /\ new.patch = c.patch
  BY CardIs DEF CardRecords
<1> HIDE DEF new
<1>6. Unsaved(new)
  <2> SUFFICES ASSUME c.patch.on, NEW x \in dirty \ retyped
               PROVE  x \in DOMAIN c.patch.body /\ c.patch.body[x] = draft[x]
    BY <1>5 DEF Unsaved
  <2>1. x # f /\ x \in c.dirty \ c.retyped /\ x \in Fields
    BY <1>1, <1>2
  <2>2. QED
    BY <2>1, <1>1, CardIs DEF Unsaved
<1>7. QED
  BY <1>2, <1>3, <1>4, <1>5, <1>6 DEF CardsOf

LEMMA TakenCard ==
  ASSUME NEW S, S \subseteq Scenes, NEW c \in CardsOf(S)
  PROVE  AdoptClean([c EXCEPT !.dirty = {}, !.base = c.server, !.conflict = FALSE,
                              !.queued = FALSE]) \in CardsOf(S)
<1> DEFINE none == {}
           new  == [c EXCEPT !.dirty = none, !.base = c.server, !.conflict = FALSE, !.queued = FALSE]
<1>1. none \in SUBSET Fields /\ none \subseteq c.dirty /\ c.server \in S /\ c \in CardRecords(S)
  BY CardIs
<1> HIDE DEF none
<1>2. new \in CardRecords(S)
  BY <1>1 DEF CardRecords
<1>3. new.dirty = none /\ new.draft = c.draft /\ new.retyped = c.retyped /\ new.patch = c.patch
  BY <1>1 DEF CardRecords
<1> HIDE DEF new
<1>4. new \in CardsOf(S)
  BY <1>1, <1>2, <1>3, MovedCard
<1>5. QED
  BY <1>4, AdoptedCard DEF new, none

\* A request that is served keeps its card's fields.
LEMMA AnsweredCard ==
  ASSUME NEW S, NEW c \in CardsOf(S), c.patch.on, NEW answer \in Answers, NEW scene \in S
  PROVE  /\ Answered(c, answer, scene) \in CardsOf(S)
         /\ Answered(c, answer, scene).dirty = c.dirty
<1> DEFINE patch == [c.patch EXCEPT !.answer = answer, !.scene = scene]
           new == [c EXCEPT !.patch = patch]
<1>1. c.patch \in PatchesOf(S)
  BY CardIs, NoPatchOn
<1>8. Answered(c, answer, scene) = new
  BY DEF Answered
<1>2. patch \in PatchesOf(S) /\ patch.body = c.patch.body /\ patch.on = TRUE 
  BY <1>1 DEF PatchesOf
<1> HIDE DEF patch
<1>3. patch \in Patches(S)
  BY <1>2 DEF Patches
<1>4. new \in CardRecords(S)
  BY <1>3, CardIs DEF CardRecords
<1>5. new.draft = c.draft /\ new.dirty = c.dirty /\ new.retyped = c.retyped /\ new.patch = patch
  BY CardIs DEF CardRecords
<1> HIDE DEF new
<1>6. Unsaved(new)
  BY <1>2, <1>5, CardIs DEF Unsaved
<1>7. QED
  BY <1>2, <1>4, <1>5, <1>6, <1>8 DEF CardsOf

\* What the cards hold of a project, they hold of a later one.
LEMMA CardsGrow ==
  ASSUME NEW S, NEW L, S \subseteq L
  PROVE  CardsOf(S) \subseteq CardsOf(L) /\ PatchesOf(S) \subseteq PatchesOf(L)
<1>1. PatchesOf(S) \subseteq PatchesOf(L)
  BY DEF PatchesOf
<1>2. Patches(S) \subseteq Patches(L)
  BY <1>1 DEF Patches
<1>3. CardRecords(S) \subseteq CardRecords(L)
  BY <1>2 DEF CardRecords
<1>4. QED
  BY <1>1, <1>3 DEF CardsOf

-----------------------------------------------------------------------------
\* What is held stays good while the project advances.

LEMMA Standing ==
  ASSUME NEW p, NEW u \in Nat, Sound(p), Live(p) \subseteq 1..u
  PROVE  Advance(p, p, u, u) /\ ChoicesKept(p, p)
<1>1. p.revision \in Nat /\ \A s \in Live(p) : p.scenes[s].edit \in Nat
  BY DEF Sound, Scenes
<1>2. \A s \in Live(p) : p.scenes[s].auto \in BOOLEAN
  BY DEF Sound, Scenes
<1>3. Advance(p, p, u, u)
  BY <1>1 DEF Advance
<1>4. ChoicesKept(p, p)
  BY <1>2 DEF ChoicesKept
<1>5. QED
  BY <1>3, <1>4

LEMMA OpGrows ==
  ASSUME NEW p, NEW q, NEW u \in Nat, NEW v, Sound(p), Advance(p, q, u, v), NEW o, OpOf(o, p, u)
  PROVE  OpOf(o, q, v)
BY AdvanceKnown DEF OpOf

LEMMA StrayGrows ==
  ASSUME NEW p, NEW q, NEW u \in Nat, NEW v, Sound(p), Advance(p, q, u, v), NEW r, StrayOf(r, p, u)
  PROVE  StrayOf(r, q, v)
<1>1. v \in Nat /\ u <= v
  BY DEF Advance
<1>2. CASE "patch" \in DOMAIN r
  <2>1. r \in [tab : Tabs, scene : 1..u, patch : {r.patch}] /\ r.patch \in PatchesOf(Seen(r.scene, p))
    BY <1>2 DEF StrayOf
  <2>2. r.scene \in 1..u
    BY <2>1
  <2>3. r.patch \in PatchesOf(Seen(r.scene, q))
    BY <2>1, <2>2, AdvanceBehind, CardsGrow
  <2>4. 1..u \subseteq 1..v
    BY <1>1
  <2>5. r \in [tab : Tabs, scene : 1..v, patch : {r.patch}]
    <3> DEFINE I == 1..u  J == 1..v
    <3>1. r \in [tab : Tabs, scene : I, patch : {r.patch}] /\ I \subseteq J
      BY <2>1, <2>4
    <3> HIDE DEF I, J
    <3>2. r \in [tab : Tabs, scene : J, patch : {r.patch}]
      BY <3>1
    <3>3. QED
      BY <3>2 DEF J
  <2>6. QED
    BY <1>2, <2>3, <2>5 DEF StrayOf
<1>3. CASE "patch" \notin DOMAIN r
  BY <1>3, OpGrows DEF StrayOf
<1>4. QED
  BY <1>2, <1>3

LEMMA HeldStays ==
  ASSUME DataInv, ViewsInv, CardsInv, StrayInv, OpsInv,
         Advance(project, project', used, used'), SourcesIn(project')
  PROVE  /\ DataInv'
         /\ \A w : Known(w, project, used) => Known(w, project', used')
         /\ \A o : OpOf(o, project, used) => OpOf(o, project', used')
         /\ \A r : StrayOf(r, project, used) => StrayOf(r, project', used')
         /\ \A s \in 1..used : s \in 1..used' /\ Seen(s, project) \subseteq Seen(s, project')
                               /\ CardsOf(Seen(s, project)) \subseteq CardsOf(Seen(s, project'))
<1>1. Sound(project) /\ used \in Nat
  BY DEF DataInv
<1>2. DataInv'
  BY <1>1 DEF DataInv, Advance
<1>3. \A w : Known(w, project, used) => Known(w, project', used')
  BY <1>1, AdvanceKnown
<1>4. \A o : OpOf(o, project, used) => OpOf(o, project', used')
  BY <1>1, OpGrows
<1>5. \A r : StrayOf(r, project, used) => StrayOf(r, project', used')
  BY <1>1, StrayGrows
<1>6. ASSUME NEW s \in 1..used
      PROVE  s \in 1..used' /\ Seen(s, project) \subseteq Seen(s, project')
  <2>1. used' \in Nat /\ used <= used'
    BY DEF Advance
  <2>2. QED
    BY <1>1, <2>1, AdvanceBehind
<1>7. QED
  BY <1>2, <1>3, <1>4, <1>5, <1>6, CardsGrow

\* The requests in flight are ones made from what their tab knew.
LEMMA RequestMade ==
  ASSUME NEW o, OpOf(o, project, used)
  PROVE  Sound(o.view) /\ RequestOf(Request(o), o.view)
<1>1. Sound(o.view) /\ o.draft \in Drafts /\ (o.kind = "remove" => o.of \in Live(o.view))
  BY DEF OpOf, Known
<1>2. CASE o.kind = "remove"
  BY <1>1, <1>2, WithoutOf DEF Request
<1>3. CASE o.kind = "apply"
  BY <1>1, <1>3, AppliedOf DEF Request
<1>4. CASE o.kind # "remove" /\ o.kind # "apply"
  BY <1>1, <1>4, AppendedOf DEF Request
<1>5. QED
  BY <1>1, <1>2, <1>3, <1>4

\* A commit: what it leaves, by the operation that made it.
Commits(p) == /\ Advance(project, p, used, used + Cardinality(Live(p) \ Live(project)))
              /\ SourcesIn(p) /\ ChoicesKept(project, p)

LEMMA NothingNew ==
  ASSUME NEW p, Live(p) = Live(project), used \in Nat
  PROVE  used + Cardinality(Live(p) \ Live(project)) = used
<1>1. Cardinality(Live(p) \ Live(project)) = 0
  BY FS_EmptySet
<1>2. QED
  BY <1>1

LEMMA PatchCommits ==
  ASSUME DataInv, NEW s \in 1..used, NEW patch \in PatchesOf(Seen(s, project))
  PROVE  LET out == PatchOutcome(s, patch)
         IN /\ out.answer \in {"ok", "conflict", "error"}
            /\ Commits(out.project)
            /\ out.answer # "ok" => out.project = project
            /\ out.answer = "ok" => s \in Live(project) /\ KnewScene(patch, s)
            /\ out.answer # "error" => s \in Live(out.project)
<1> DEFINE out == PatchOutcome(s, patch)
<1>1. Sound(project) /\ used \in Nat /\ Live(project) \subseteq 1..used /\ SourcesIn(project)
  BY DEF DataInv
<1>2. patch.over \in Seen(s, project) /\ patch.body \in Bodies
  BY PatchIs
<1>3. Commits(project)
  BY <1>1, Standing, NothingNew DEF Commits
<1>4. CASE s \notin Live(project)
  BY <1>3, <1>4 DEF PatchOutcome
<1>5. CASE s \in Live(project) /\ PatchConflict(project, s, patch.over.edit)
  BY <1>3, <1>5 DEF PatchOutcome
<1>6. CASE s \in Live(project) /\ ~PatchConflict(project, s, patch.over.edit)
  <2>1. out = [answer |-> "ok", project |-> Updated(project, s, patch.body)]
    BY <1>6 DEF PatchOutcome
  <2>2. KnewScene(patch, s)
    BY <1>2, <1>6 DEF PatchConflict, KnewScene, Seen, Behind
  <2> DEFINE q == Updated(project, s, patch.body)
  <2>3. /\ Advance(project, q, used, used) /\ Live(q) = Live(project)
        /\ ChoicesKept(project, q) /\ SourcesIn(q)
    BY <1>1, <1>2, <1>6, UpdatedStep
  <2>4. out.answer = "ok" /\ out.project = q
    BY <2>1
  <2> HIDE DEF q, out
  <2>5. Commits(q)
    BY <1>1, <2>3, NothingNew DEF Commits
  <2>6. QED
    BY <1>6, <2>2, <2>3, <2>4, <2>5 DEF out
<1>7. QED
  BY <1>4, <1>5, <1>6

LEMMA PutCommits ==
  ASSUME DataInv, NEW t, NEW o, OpOf(o, project, used)
  PROVE  LET out == PutOutcome(t, o)
         IN /\ out.answer \in {"ok", "conflict", "error"}
            /\ Commits(out.project)
            /\ out.answer # "ok" => out.project = project
            /\ out.answer = "ok" => Knew(o.view)
<1> DEFINE out == PutOutcome(t, o)
           req == Request(o)
<1>1. Sound(project) /\ used \in Nat /\ Live(project) \subseteq 1..used /\ SourcesIn(project)
  BY DEF DataInv
<1>2. RequestOf(req, o.view) /\ Known(o.view, project, used)
  BY RequestMade DEF OpOf
<1>3. Commits(project)
  BY <1>1, Standing, NothingNew DEF Commits
<1> HIDE DEF req
<1>4. CASE out.answer # "ok"
  <2>1. out.answer \in {"conflict", "error"} /\ out.project = project
    BY <1>4 DEF PutOutcome
  <2>2. QED
    BY <1>3, <1>4, <2>1
<1>5. CASE out.answer = "ok"
  <2>1. ~PutConflict(project, req) /\ ~PutUnknown(req, used + 1)
        /\ out.project = Replaced(project, req, used + 1)
    BY <1>5 DEF PutOutcome, req
  <2>2. Commits(Replaced(project, req, used + 1))
    BY <1>1, <1>2, <2>1, ReplacedStep DEF Commits
  <2>3. Knew(o.view)
    BY <1>1, <1>2, <2>1, TakenIsKnown DEF Knew
  <2>4. QED
    BY <1>5, <2>1, <2>2, <2>3
<1>6. QED
  BY <1>4, <1>5

-----------------------------------------------------------------------------
\* The steps of the action properties.
EditsMove ==
  project' # project =>
     /\ \A t \in Tabs : \A s \in Live(project) : PatchDone(t, s) => KnewScene(card[t][s].patch, s)
     /\ \A t \in Tabs : OpDone(t) => Knew(op[t].view)
     /\ \A r \in stray \ stray' :
           IF "patch" \in DOMAIN r THEN KnewScene(r.patch, r.scene) ELSE Knew(r.put.view)

DraftsMove ==
  \A t \in Tabs : \A s \in DOMAIN card[t] : \A f \in card[t][s].dirty :
     \/ s \in DOMAIN card'[t] /\ f \in card'[t][s].dirty
     \/ /\ card[t][s].patch.on /\ card[t][s].patch.answer = "ok"
        /\ f \in DOMAIN card[t][s].patch.body
        /\ card[t][s].patch.body[f] = card[t][s].draft[f]
     \/ TakeServer(t, s) \/ Dismiss(t, s)
     \/ s \in ownDeleted[t]
     \/ op[t].kind = "restore" /\ op[t].of = s
     \/ page'[t] = "error"

ChoicesMove == ChoicesKept(project, project')

Moves == TabsInv' /\ EditsMove /\ DraftsMove /\ ChoicesMove

\* A tab's own step leaves the project to itself.
LEMMA TabStep ==
  ASSUME TabsInv, UNCHANGED db
  PROVE  DataInv' /\ EditsMove /\ ChoicesMove
<1>1. project' = project /\ used' = used
  BY DEF db
<1>2. DataInv' /\ EditsMove
  BY <1>1 DEF TabsInv, DataInv, EditsMove
<1>3. ChoicesMove
  BY <1>1, Standing DEF ChoicesMove, TabsInv, DataInv
<1>4. QED
  BY <1>2, <1>3

OneMoved(t, s, c) == card' = [card EXCEPT ![t][s] = c]

LEMMA CardPlaced ==
  ASSUME CardsInv, NEW t \in Tabs, NEW s \in DOMAIN card[t],
         NEW c \in CardsOf(Seen(s, project')), OneMoved(t, s, c),
         \A y \in 1..used : y \in 1..used' /\ CardsOf(Seen(y, project)) \subseteq CardsOf(Seen(y, project'))
  PROVE  /\ CardsInv'
         /\ \A x \in Tabs : DOMAIN card'[x] = DOMAIN card[x]
         /\ card'[t][s] = c
         /\ \A x \in Tabs : \A y \in DOMAIN card[x] : <<x, y>> # <<t, s>> => card'[x][y] = card[x][y]
<1>2. card' = [card EXCEPT ![t] = [card[t] EXCEPT ![s] = c]]
  BY DEF OneMoved
<1>3. DOMAIN card = Tabs
  BY DEF CardsInv
<1>4. DOMAIN card' = Tabs /\ card'[t] = [card[t] EXCEPT ![s] = c]
      /\ \A x \in Tabs \ {t} : card'[x] = card[x]
  BY <1>2, <1>3
<1>5. DOMAIN card'[t] = DOMAIN card[t] /\ card'[t][s] = c
      /\ \A y \in DOMAIN card[t] \ {s} : card'[t][y] = card[t][y]
  BY <1>4
<1>6. \A x \in Tabs : DOMAIN card'[x] = DOMAIN card[x]
  BY <1>4, <1>5
<1>7. \A x \in Tabs : \A y \in DOMAIN card[x] : <<x, y>> # <<t, s>> => card'[x][y] = card[x][y]
  <2> TAKE x \in Tabs
  <2>1. CASE x = t
    BY <2>1, <1>5
  <2>2. CASE x # t
    BY <2>2, <1>4
  <2>3. QED
    BY <2>1, <2>2
<1>8. ASSUME NEW x \in Tabs, NEW y \in DOMAIN card'[x]
      PROVE  y \in 1..used' /\ card'[x][y] \in CardsOf(Seen(y, project'))
  <2>1. y \in DOMAIN card[x] /\ y \in 1..used /\ card[x][y] \in CardsOf(Seen(y, project))
    BY <1>6 DEF CardsInv
  <2>2. CASE <<x, y>> = <<t, s>>
    BY <2>1, <2>2, <1>5
  <2>3. CASE <<x, y>> # <<t, s>>
    BY <2>1, <2>3, <1>7
  <2>4. QED
    BY <2>2, <2>3
<1>9. CardsInv'
  BY <1>4, <1>8 DEF CardsInv
<1>10. QED
  BY <1>5, <1>6, <1>7, <1>9

LEMMA OneCard ==
  ASSUME CardsInv, UNCHANGED db, NEW t \in Tabs, NEW s \in DOMAIN card[t],
         NEW c \in CardsOf(Seen(s, project)), OneMoved(t, s, c)
  PROVE  /\ CardsInv'
         /\ \A x \in Tabs : DOMAIN card'[x] = DOMAIN card[x]
         /\ card'[t][s] = c
         /\ \A x \in Tabs : \A y \in DOMAIN card[x] : <<x, y>> # <<t, s>> => card'[x][y] = card[x][y]
<1>1. project' = project /\ used' = used
  BY DEF db
<1>2. QED
  BY <1>1, CardPlaced

LEMMA SeenScenes ==
  ASSUME NEW s, NEW p
  PROVE  Seen(s, p) \subseteq Scenes
BY DEF Seen

\* A card's step that changes nothing else.
LEMMA CardMoves ==
  ASSUME TabsInv, NEW t \in Tabs, NEW s \in DOMAIN card[t], NEW c \in CardsOf(Seen(s, project)),
         OneMoved(t, s, c), UNCHANGED <<db, screen, stray, op>>,
         card[t][s].dirty \subseteq c.dirty \/ TakeServer(t, s)
  PROVE  Moves
<1>1. CardsInv /\ UNCHANGED db
  BY DEF TabsInv
<1>2. /\ CardsInv' /\ \A x \in Tabs : DOMAIN card'[x] = DOMAIN card[x]
      /\ card'[t][s] = c
      /\ \A x \in Tabs : \A y \in DOMAIN card[x] : <<x, y>> # <<t, s>> => card'[x][y] = card[x][y]
  BY <1>1, OneCard
<1>3. DataInv' /\ EditsMove /\ ChoicesMove
  BY <1>1, TabStep
<1>4. ViewsInv' /\ OpsInv' /\ StrayInv' /\ PagesInv'
  BY <1>1, <1>2 DEF TabsInv, ViewsInv, OpsInv, StrayInv, PagesInv, PageOf, db, screen, feed
<1>5. DraftsMove
  BY <1>2 DEF DraftsMove
<1>6. QED
  BY <1>2, <1>3, <1>4, <1>5 DEF Moves, TabsInv

LEMMA TypeMoves ==
  ASSUME TabsInv, NEW t \in Tabs, NEW s, NEW f \in Fields, NEW v \in Words, Type(t, s, f, v)
  PROVE  Moves
<1>1. s \in DOMAIN card[t] /\ UNCHANGED <<db, screen, stray, op>>
  BY DEF Type, OnPage
<1>2. card[t][s] \in CardsOf(Seen(s, project)) /\ v \in Texts
  BY <1>1 DEF TabsInv, CardsInv, Texts
<1>3. Typed(card[t][s], f, v) \in CardsOf(Seen(s, project))
      /\ card[t][s].dirty \subseteq Typed(card[t][s], f, v).dirty
  BY <1>2, TypedCard
<1>4. OneMoved(t, s, Typed(card[t][s], f, v))
  BY DEF Type, OneMoved
<1>5. QED
  BY <1>1, <1>3, <1>4, CardMoves

LEMMA SaveMoves ==
  ASSUME TabsInv, NEW t \in Tabs, NEW s, Save(t, s) \/ SaveMine(t, s)
  PROVE  Moves
<1>1. PICK over \in {card[t][s].base, card[t][s].server} :
        s \in DOMAIN card[t] /\ PressCard(t, s, Sending(card[t][s], over))
  BY DEF Save, SaveMine, OnPage
<1>2. card[t][s] \in CardsOf(Seen(s, project))
  BY <1>1 DEF TabsInv, CardsInv
<1>3. over \in Seen(s, project)
  BY <1>2, CardIs
<1> DEFINE new == Sending(card[t][s], over)
<1>4. new \in CardsOf(Seen(s, project)) /\ new.dirty = card[t][s].dirty
  BY <1>2, <1>3, SendingCard
<1>5. OneMoved(t, s, new) /\ UNCHANGED <<db, screen, stray, op>>
  BY <1>1 DEF PressCard, OneMoved
<1> HIDE DEF new
<1>6. QED
  BY <1>1, <1>4, <1>5, CardMoves

LEMMA TakeMoves ==
  ASSUME TabsInv, NEW t \in Tabs, NEW s, TakeServer(t, s)
  PROVE  Moves
<1> DEFINE new == AdoptClean([card[t][s] EXCEPT !.dirty = {}, !.base = card[t][s].server,
                                                !.conflict = FALSE, !.queued = FALSE])
<1>1. s \in DOMAIN card[t] /\ PressCard(t, s, new)
  BY DEF TakeServer, OnPage
<1>2. card[t][s] \in CardsOf(Seen(s, project))
  BY <1>1 DEF TabsInv, CardsInv
<1>3. new \in CardsOf(Seen(s, project))
  <2> DEFINE c == card[t][s]
             S == Seen(s, project)
  <2>1. c \in CardsOf(S) /\ S \subseteq Scenes
    BY <1>2, SeenScenes
  <2> HIDE DEF c, S
  <2>2. AdoptClean([c EXCEPT !.dirty = {}, !.base = c.server, !.conflict = FALSE, !.queued = FALSE])
          \in CardsOf(S)
    BY <2>1, TakenCard
  <2>3. QED
    BY <2>2 DEF c, S
<1>5. OneMoved(t, s, new) /\ UNCHANGED <<db, screen, stray, op>>
  BY <1>1 DEF PressCard, OneMoved
<1> HIDE DEF new
<1>6. QED
  BY <1>1, <1>3, <1>5, CardMoves

\* What a tab may do to its feed without a new snapshot.
LEMMA FeedMoves ==
  ASSUME TabsInv, NEW t \in Tabs, page[t] = "shown", UNCHANGED db, Reload(t) \/ UNCHANGED feed
  PROVE  /\ ViewsInv' /\ snap' = snap
         /\ load' \in [Tabs -> {"no", "asked", "read"}]
         /\ \A x \in Tabs : page[x] # "shown" => load'[x] = load[x]
<1>1. project' = project /\ used' = used
  BY DEF db
<1>2. load \in [Tabs -> {"no", "asked", "read"}] /\ ViewsInv
  BY DEF TabsInv, PagesInv
<1>3. CASE Reload(t)
  <2>1. snap' = snap /\ load' = [load EXCEPT ![t] = "asked"]
        /\ loaded' = [loaded EXCEPT ![t] = snap[t]]
    BY <1>3 DEF Reload
  <2>2. DOMAIN loaded' = Tabs /\ \A x \in Tabs : loaded'[x] = loaded[x] \/ loaded'[x] = snap[x]
    BY <2>1, <1>2 DEF ViewsInv
  <2>3. ViewsInv'
    BY <2>1, <2>2, <1>1, <1>2 DEF ViewsInv
  <2>4. QED
    BY <2>1, <2>3, <1>2
<1>4. CASE UNCHANGED feed
  BY <1>1, <1>2, <1>4 DEF feed, ViewsInv
<1>5. QED
  BY <1>3, <1>4

LEMMA PatchAnsweredMoves ==
  ASSUME TabsInv, NEW t \in Tabs, NEW s, PatchAnswered(t, s)
  PROVE  Moves
<1> DEFINE c   == card[t][s]
           S   == Seen(s, project)
           new == CASE c.patch.answer = "ok" -> Saved(c, c.patch.scene)
                    [] c.patch.answer = "conflict" -> Conflicted(c, c.patch.scene)
                    [] OTHER -> Failed(c)
<1>1. /\ s \in DOMAIN card[t] /\ page[t] = "shown" /\ c.patch.on /\ OneMoved(t, s, new)
      /\ UNCHANGED <<db, page, offer, orphan, ownDeleted, stray, op>>
      /\ Reload(t) \/ UNCHANGED feed
  BY DEF PatchAnswered, OnPage, OneMoved
<1>2. c \in CardsOf(S) /\ S \subseteq Scenes
  BY <1>1, SeenScenes DEF TabsInv, CardsInv
<1>3. c.patch.scene \in S /\ c.patch \in PatchesOf(S)
  BY <1>1, <1>2, CardIs, NoPatchOn, PatchIs
<1>4. /\ new \in CardsOf(S)
      /\ \A f \in c.dirty \ new.dirty : c.patch.answer = "ok" /\ f \notin c.retyped
  <2> HIDE DEF c, S
  <2>1. CASE c.patch.answer = "ok"
    <3>1. new = Saved(c, c.patch.scene)
      BY <2>1
    <3>2. QED
      BY <3>1, <2>1, <1>2, <1>3, SavedCard
  <2>2. CASE c.patch.answer = "conflict"
    <3>1. new = Conflicted(c, c.patch.scene)
      BY <2>2
    <3>2. QED
      BY <3>1, <1>2, <1>3, ConflictedCard
  <2>3. CASE c.patch.answer # "ok" /\ c.patch.answer # "conflict"
    <3>1. new = Failed(c)
      BY <2>3
    <3>2. QED
      BY <3>1, <1>2, FailedCard
  <2>4. QED
    BY <2>1, <2>2, <2>3
<1>5. \A f \in c.dirty \ c.retyped : f \in DOMAIN c.patch.body /\ c.patch.body[f] = c.draft[f]
  BY <1>1, <1>2, CardIs DEF Unsaved
<1>6. CardsInv /\ UNCHANGED db
  BY <1>1 DEF TabsInv
<1> HIDE DEF new
<1>7. /\ CardsInv' /\ \A x \in Tabs : DOMAIN card'[x] = DOMAIN card[x]
      /\ card'[t][s] = new
      /\ \A x \in Tabs : \A y \in DOMAIN card[x] : <<x, y>> # <<t, s>> => card'[x][y] = card[x][y]
  BY <1>1, <1>4, <1>6, OneCard
<1>8. DataInv' /\ EditsMove /\ ChoicesMove
  BY <1>6, TabStep
<1>9. /\ ViewsInv' /\ snap' = snap
      /\ load' \in [Tabs -> {"no", "asked", "read"}]
      /\ \A x \in Tabs : page[x] # "shown" => load'[x] = load[x]
  BY <1>1, <1>6, FeedMoves
<1>10. OpsInv' /\ StrayInv'
  BY <1>1 DEF TabsInv, OpsInv, StrayInv, db
<1>11. PagesInv'
  BY <1>1, <1>7, <1>9 DEF TabsInv, PagesInv, PageOf
<1>12. DraftsMove
  BY <1>1, <1>4, <1>5, <1>7 DEF DraftsMove
<1>13. QED
  BY <1>7, <1>8, <1>9, <1>10, <1>11, <1>12 DEF Moves, TabsInv

LEMMA PatchLostMoves ==
  ASSUME TabsInv, NEW t \in Tabs, NEW s, PatchLost(t, s)
  PROVE  Moves
<1> DEFINE c    == card[t][s]
           lone == [tab |-> t, scene |-> s, patch |-> c.patch]
<1>1. /\ s \in DOMAIN card[t] /\ c.patch.on /\ OneMoved(t, s, Failed(c))
      /\ UNCHANGED <<db, screen, op>>
      /\ stray' = stray \/ stray' = stray \cup {lone}
  BY DEF PatchLost, OnPage, OneMoved
<1>2. s \in 1..used /\ c \in CardsOf(Seen(s, project)) /\ CardsInv /\ UNCHANGED db
  BY <1>1 DEF TabsInv, CardsInv
<1>3. Failed(c) \in CardsOf(Seen(s, project)) /\ Failed(c).dirty = c.dirty
  BY <1>2, FailedCard
<1>4. c.patch \in PatchesOf(Seen(s, project))
  BY <1>1, <1>2, CardIs, NoPatchOn
<1>5. StrayOf(lone, project, used)
  <2> DEFINE patch == c.patch
             I == 1..used
  <2>1. lone = [tab |-> t, scene |-> s, patch |-> patch] /\ s \in I
    BY <1>2
  <2> HIDE DEF patch, lone, c, I
  <2>2. /\ "patch" \in DOMAIN lone /\ lone.patch = patch /\ lone.scene = s
        /\ lone \in [tab : Tabs, scene : I, patch : {lone.patch}]
    BY <2>1
  <2>3. QED
    BY <2>2, <1>4 DEF StrayOf, I, patch, c
<1> DEFINE new == Failed(c)
<1> HIDE DEF new
<1>6. /\ CardsInv' /\ \A x \in Tabs : DOMAIN card'[x] = DOMAIN card[x]
      /\ card'[t][s] = new
      /\ \A x \in Tabs : \A y \in DOMAIN card[x] : <<x, y>> # <<t, s>> => card'[x][y] = card[x][y]
  BY <1>1, <1>2, <1>3, OneCard DEF new
<1>7. DataInv' /\ EditsMove /\ ChoicesMove
  BY <1>2, TabStep
<1>8. StrayInv'
  BY <1>1, <1>2, <1>5 DEF TabsInv, StrayInv, db
<1>9. ViewsInv' /\ OpsInv' /\ PagesInv'
  BY <1>1, <1>2, <1>6 DEF TabsInv, ViewsInv, OpsInv, PagesInv, PageOf, db, screen, feed
<1>10. DraftsMove
  BY <1>3, <1>6 DEF DraftsMove, new
<1>11. QED
  BY <1>6, <1>7, <1>8, <1>9, <1>10 DEF Moves, TabsInv

\* Pressing an operation.
LEMMA PressOpMoves ==
  ASSUME TabsInv, NEW t \in Tabs, NEW kind \in {"add", "remove", "restore", "apply"},
         NEW s \in Nat, NEW draft \in Drafts, PressOp(t, kind, s, draft),
         kind = "remove" => s \in Live(snap[t]), DOMAIN ownDeleted' = Tabs
  PROVE  Moves
<1> DEFINE new == [kind |-> kind, of |-> s, draft |-> draft, view |-> snap[t], answer |-> "none"]
<1>1. /\ page[t] = "shown" /\ op' = [op EXCEPT ![t] = new]
      /\ UNCHANGED <<db, page, feed, offer, orphan, stray, card>>
  BY DEF PressOp
<1>2. OpOf(new, project, used)
  <2>1. Known(snap[t], project, used)
    BY DEF TabsInv, ViewsInv
  <2>2. new.view = snap[t] /\ new.kind = kind /\ new.of = s
    OBVIOUS
  <2>3. new \in [kind : {"add", "remove", "restore", "apply"}, of : Nat, draft : Drafts,
                 view : {new.view}, answer : Answers]
    BY DEF Answers
  <2> HIDE DEF new
  <2>4. QED
    BY <2>1, <2>2, <2>3 DEF OpOf
<1> HIDE DEF new
<1>3. DataInv' /\ EditsMove /\ ChoicesMove
  BY <1>1, TabStep
<1>4. OpsInv' /\ \A x \in Tabs : page[x] # "shown" => op'[x] = op[x]
  BY <1>1, <1>2 DEF TabsInv, OpsInv, db
<1>5. CardsInv' /\ ViewsInv' /\ StrayInv'
  BY <1>1 DEF TabsInv, CardsInv, ViewsInv, StrayInv, db, feed
<1>6. PagesInv'
  BY <1>1, <1>4 DEF TabsInv, PagesInv, PageOf, feed
<1>7. DraftsMove
  BY <1>1 DEF DraftsMove
<1>8. QED
  BY <1>3, <1>4, <1>5, <1>6, <1>7 DEF Moves, TabsInv

LEMMA OperationMoves ==
  ASSUME TabsInv, NEW t \in Tabs, NEW s \in Nat,
         AddScene(t) \/ Remove(t, s) \/ Restore(t, s) \/ Apply(t)
  PROVE  Moves
<1>1. Blank \in Drafts /\ Told \in Drafts
  BY DEF Blank, Told, Drafts, Texts
<1>2. DOMAIN ownDeleted = Tabs /\ NoScene \in Nat
  BY DEF TabsInv, PagesInv, NoScene
<1>3. CASE AddScene(t)
  BY <1>1, <1>2, <1>3, PressOpMoves DEF AddScene
<1>4. CASE Remove(t, s)
  <2>1. DOMAIN ownDeleted' = Tabs /\ s \in Live(snap[t]) /\ PressOp(t, "remove", s, Blank)
    BY <1>2, <1>4 DEF Remove
  <2>2. QED
    BY <1>1, <2>1, PressOpMoves
<1>5. CASE Restore(t, s)
  <2>1. s \in orphan[t] /\ PressOp(t, "restore", s, card[t][s].draft) /\ UNCHANGED ownDeleted
    BY <1>5 DEF Restore
  <2>2. page[t] = "shown"
    BY <2>1 DEF PressOp
  <2>3. s \in DOMAIN card[t]
    BY <2>1, <2>2 DEF TabsInv, PagesInv, PageOf
  <2>4. card[t][s].draft \in Drafts
    BY <2>3, CardIs DEF TabsInv, CardsInv
  <2>5. QED
    BY <1>2, <2>1, <2>4, PressOpMoves
<1>6. CASE Apply(t)
  BY <1>1, <1>2, <1>6, PressOpMoves DEF Apply
<1>7. QED
  BY <1>3, <1>4, <1>5, <1>6

\* A card goes with its removed scene.
LEMMA CardGone ==
  ASSUME TabsInv, NEW t \in Tabs, NEW s, page[t] = "shown", s \in orphan[t], UNCHANGED db,
         card' = [card EXCEPT ![t] = CardsWithout(t, s)]
  PROVE  /\ CardsInv'
         /\ DOMAIN card'[t] = DOMAIN card[t] \ {s}
         /\ DOMAIN card'[t] = Live(snap[t]) \cup (orphan[t] \ {s})
         /\ \A x \in Tabs : x # t => card'[x] = card[x]
         /\ \A x \in Tabs : \A y \in DOMAIN card[x] : <<x, y>> # <<t, s>> =>
               y \in DOMAIN card'[x] /\ card'[x][y] = card[x][y]
<1>1. DOMAIN card = Tabs /\ project' = project /\ used' = used
  BY DEF TabsInv, CardsInv, db
<1>2. /\ DOMAIN card' = Tabs /\ card'[t] = [x \in DOMAIN card[t] \ {s} |-> card[t][x]]
      /\ \A x \in Tabs : x # t => card'[x] = card[x]
  BY <1>1 DEF CardsWithout
<1>3. DOMAIN card'[t] = DOMAIN card[t] \ {s} /\ \A y \in DOMAIN card[t] \ {s} : card'[t][y] = card[t][y]
  BY <1>2
<1>4. DOMAIN card[t] = Live(snap[t]) \cup orphan[t] /\ orphan[t] \cap Live(snap[t]) = {}
  BY DEF TabsInv, PagesInv, PageOf
<1>5. \A x \in Tabs : \A y \in DOMAIN card[x] : <<x, y>> # <<t, s>> =>
         y \in DOMAIN card'[x] /\ card'[x][y] = card[x][y]
  <2> TAKE x \in Tabs
  <2>1. CASE x = t
    BY <2>1, <1>3
  <2>2. CASE x # t
    BY <2>2, <1>2
  <2>3. QED
    BY <2>1, <2>2
<1>6. CardsInv'
  <2> SUFFICES ASSUME NEW x \in Tabs, NEW y \in DOMAIN card'[x]
               PROVE  y \in 1..used /\ card'[x][y] \in CardsOf(Seen(y, project))
    BY <1>1, <1>2 DEF CardsInv
  <2>1. y \in DOMAIN card[x] /\ card'[x][y] = card[x][y]
    <3>1. CASE x = t
      BY <3>1, <1>3
    <3>2. CASE x # t
      BY <3>2, <1>2
    <3>3. QED
      BY <3>1, <3>2
  <2>2. QED
    BY <2>1 DEF TabsInv, CardsInv
<1>7. QED
  BY <1>2, <1>3, <1>4, <1>5, <1>6

LEMMA DismissMoves ==
  ASSUME TabsInv, NEW t \in Tabs, NEW s, Dismiss(t, s)
  PROVE  Moves
<1>1. /\ page[t] = "shown" /\ s \in orphan[t] /\ orphan' = [orphan EXCEPT ![t] = @ \ {s}]
      /\ card' = [card EXCEPT ![t] = CardsWithout(t, s)]
      /\ UNCHANGED <<db, page, feed, offer, ownDeleted, stray, op>>
  BY DEF Dismiss
<1>2. /\ CardsInv'
      /\ DOMAIN card'[t] = Live(snap[t]) \cup (orphan[t] \ {s})
      /\ \A x \in Tabs : x # t => card'[x] = card[x]
      /\ \A x \in Tabs : \A y \in DOMAIN card[x] : <<x, y>> # <<t, s>> =>
            y \in DOMAIN card'[x] /\ card'[x][y] = card[x][y]
  BY <1>1, CardGone
<1>3. DataInv' /\ EditsMove /\ ChoicesMove
  BY <1>1, TabStep
<1>4. ViewsInv' /\ OpsInv' /\ StrayInv'
  BY <1>1 DEF TabsInv, ViewsInv, OpsInv, StrayInv, db, feed
<1>5. PagesInv'
  <2>1. /\ orphan \in [Tabs -> SUBSET Nat] /\ orphan' \in [Tabs -> SUBSET Nat]
        /\ orphan'[t] = orphan[t] \ {s} /\ \A x \in Tabs : x # t => orphan'[x] = orphan[x]
    BY <1>1 DEF TabsInv, PagesInv
  <2>2. ASSUME NEW x \in Tabs PROVE PageOf(x)'
    <3>1. PageOf(x)
      BY DEF TabsInv, PagesInv
    <3>2. QED
      BY <3>1, <2>1, <1>1, <1>2 DEF PageOf, feed
  <2>3. QED
    BY <2>1, <2>2, <1>1 DEF TabsInv, PagesInv, feed
<1>6. DraftsMove
  BY <1>2 DEF DraftsMove
<1>7. QED
  BY <1>2, <1>3, <1>4, <1>5, <1>6 DEF Moves, TabsInv

LEMMA OpAnsweredMoves ==
  ASSUME TabsInv, NEW t \in Tabs, OpAnswered(t)
  PROVE  Moves
<1> DEFINE o    == op[t]
           back == o.kind = "restore" /\ o.answer = "ok" /\ o.of \in orphan[t]
<1>1. /\ o # NoOp /\ op' = [op EXCEPT ![t] = NoOp]
      /\ Reload(t) \/ UNCHANGED feed
      /\ orphan' = IF back THEN [orphan EXCEPT ![t] = @ \ {o.of}] ELSE orphan
      /\ card' = IF back THEN [card EXCEPT ![t] = CardsWithout(t, o.of)] ELSE card
      /\ UNCHANGED <<db, page, ownDeleted, stray>>
  BY DEF OpAnswered
<1>2. page[t] = "shown"
  BY <1>1 DEF TabsInv, PagesInv, PageOf
<1>3. DataInv' /\ EditsMove /\ ChoicesMove
  BY <1>1, TabStep
<1>4. /\ ViewsInv' /\ snap' = snap
      /\ load' \in [Tabs -> {"no", "asked", "read"}]
      /\ \A x \in Tabs : page[x] # "shown" => load'[x] = load[x]
  BY <1>1, <1>2, FeedMoves
<1>5. /\ OpsInv' /\ StrayInv' /\ \A x \in Tabs : op'[x] = op[x] \/ op'[x] = NoOp
  BY <1>1 DEF TabsInv, OpsInv, StrayInv, db
<1>6. CASE ~back
  <2>1. orphan' = orphan /\ card' = card
    BY <1>1, <1>6
  <2>2. CardsInv' /\ DraftsMove
    BY <2>1, <1>1 DEF TabsInv, CardsInv, db, DraftsMove
  <2>3. PagesInv'
    BY <2>1, <1>1, <1>4, <1>5 DEF TabsInv, PagesInv, PageOf
  <2>4. QED
    BY <2>2, <2>3, <1>3, <1>4, <1>5 DEF Moves, TabsInv
<1>7. CASE back
  <2> DEFINE s == o.of
  <2>1. s \in orphan[t] /\ orphan' = [orphan EXCEPT ![t] = @ \ {s}]
        /\ card' = [card EXCEPT ![t] = CardsWithout(t, s)] /\ o.kind = "restore"
    BY <1>1, <1>7
  <2> HIDE DEF o, back
  <2>2. /\ CardsInv'
        /\ DOMAIN card'[t] = Live(snap[t]) \cup (orphan[t] \ {s})
        /\ \A x \in Tabs : x # t => card'[x] = card[x]
        /\ \A x \in Tabs : \A y \in DOMAIN card[x] : <<x, y>> # <<t, s>> =>
              y \in DOMAIN card'[x] /\ card'[x][y] = card[x][y]
    BY <2>1, <1>1, <1>2, CardGone
  <2>3. PagesInv'
    <3>1. /\ orphan \in [Tabs -> SUBSET Nat] /\ orphan' \in [Tabs -> SUBSET Nat]
          /\ orphan'[t] = orphan[t] \ {s} /\ \A x \in Tabs : x # t => orphan'[x] = orphan[x]
      BY <2>1 DEF TabsInv, PagesInv
    <3>2. ASSUME NEW x \in Tabs PROVE PageOf(x)'
      <4>1. PageOf(x)
        BY DEF TabsInv, PagesInv
      <4>2. CASE x = t
        BY <4>1, <4>2, <3>1, <2>2, <1>1, <1>2, <1>4 DEF PageOf
      <4>3. CASE x # t
        BY <4>1, <4>3, <3>1, <2>2, <1>1, <1>4, <1>5 DEF PageOf
      <4>4. QED
        BY <4>2, <4>3
    <3>3. QED
      BY <3>1, <3>2, <1>1, <1>4 DEF TabsInv, PagesInv
  <2>4. DraftsMove
    BY <2>1, <2>2 DEF DraftsMove, o
  <2>5. QED
    BY <2>2, <2>3, <2>4, <1>3, <1>4, <1>5 DEF Moves, TabsInv
<1>8. QED
  BY <1>6, <1>7

LEMMA StrayPut ==
  ASSUME NEW t \in Tabs, NEW o, OpOf(o, project, used)
  PROVE  StrayOf([tab |-> t, put |-> o], project, used)
<1> DEFINE r == [tab |-> t, put |-> o]
<1>1. r.put = o /\ "patch" \notin DOMAIN r /\ r \in [tab : Tabs, put : {r.put}]
  OBVIOUS
<1> HIDE DEF r
<1>2. QED
  BY <1>1 DEF StrayOf, r

LEMMA StrayPatch ==
  ASSUME NEW t \in Tabs, NEW s \in 1..used, NEW patch \in PatchesOf(Seen(s, project))
  PROVE  StrayOf([tab |-> t, scene |-> s, patch |-> patch], project, used)
<1> DEFINE r == [tab |-> t, scene |-> s, patch |-> patch]
           I == 1..used
<1> HIDE DEF I
<1>1. /\ r.patch = patch /\ r.scene = s /\ "patch" \in DOMAIN r
      /\ r \in [tab : Tabs, scene : I, patch : {r.patch}]
  BY DEF I
<1> HIDE DEF r
<1>2. QED
  BY <1>1 DEF StrayOf, r, I

LEMMA OpLostMoves ==
  ASSUME TabsInv, NEW t \in Tabs, OpLost(t)
  PROVE  Moves
<1>1. /\ op[t] # NoOp /\ op' = [op EXCEPT ![t] = NoOp]
      /\ stray' = stray \/ stray' = stray \cup {[tab |-> t, put |-> op[t]]}
      /\ UNCHANGED <<db, screen, card>>
  BY DEF OpLost
<1>2. OpOf(op[t], project, used)
  BY <1>1 DEF TabsInv, OpsInv
<1>3. DataInv' /\ EditsMove /\ ChoicesMove
  BY <1>1, TabStep
<1>4. StrayInv'
  BY <1>1, <1>2, StrayPut DEF TabsInv, StrayInv, db
<1>5. OpsInv' /\ \A x \in Tabs : op'[x] = op[x] \/ op'[x] = NoOp
  BY <1>1 DEF TabsInv, OpsInv, db
<1>6. ViewsInv' /\ CardsInv' /\ PagesInv'
  BY <1>1, <1>5 DEF TabsInv, ViewsInv, CardsInv, PagesInv, PageOf, db, screen, feed
<1>7. DraftsMove
  BY <1>1 DEF DraftsMove
<1>8. QED
  BY <1>3, <1>4, <1>5, <1>6, <1>7 DEF Moves, TabsInv

LEMMA HearMoves ==
  ASSUME TabsInv, NEW t \in Tabs, Hear(t)
  PROVE  Moves
<1>1. /\ page[t] = "shown" /\ Reload(t)
      /\ UNCHANGED <<db, page, offer, orphan, ownDeleted, stray, card, op>>
  BY DEF Hear
<1>2. /\ ViewsInv' /\ snap' = snap
      /\ load' \in [Tabs -> {"no", "asked", "read"}]
      /\ \A x \in Tabs : page[x] # "shown" => load'[x] = load[x]
  BY <1>1, FeedMoves
<1>3. DataInv' /\ EditsMove /\ ChoicesMove
  BY <1>1, TabStep
<1>4. CardsInv' /\ OpsInv' /\ StrayInv' /\ DraftsMove
  BY <1>1 DEF TabsInv, CardsInv, OpsInv, StrayInv, db, DraftsMove
<1>5. PagesInv'
  BY <1>1, <1>2 DEF TabsInv, PagesInv, PageOf
<1>6. QED
  BY <1>2, <1>3, <1>4, <1>5 DEF Moves, TabsInv

LEMMA LoadServedMoves ==
  ASSUME TabsInv, NEW t \in Tabs, LoadServed(t)
  PROVE  Moves
<1>1. /\ load[t] = "asked" /\ load' = [load EXCEPT ![t] = "read"]
      /\ loaded' = [loaded EXCEPT ![t] = project]
      /\ UNCHANGED <<db, page, snap, offer, orphan, ownDeleted, stray, card, op>>
  BY DEF LoadServed
<1>2. Known(project, project, used)
  BY ItselfKnown DEF TabsInv, DataInv
<1>3. ViewsInv'
  <2>1. DOMAIN loaded' = Tabs /\ \A x \in Tabs : loaded'[x] = loaded[x] \/ loaded'[x] = project
    BY <1>1 DEF TabsInv, ViewsInv
  <2>2. QED
    BY <2>1, <1>1, <1>2 DEF TabsInv, ViewsInv, db
<1>4. DataInv' /\ EditsMove /\ ChoicesMove
  BY <1>1, TabStep
<1>5. CardsInv' /\ OpsInv' /\ StrayInv' /\ DraftsMove
  BY <1>1 DEF TabsInv, CardsInv, OpsInv, StrayInv, db, DraftsMove
<1>6. PagesInv'
  BY <1>1 DEF TabsInv, PagesInv, PageOf
<1>7. QED
  BY <1>3, <1>4, <1>5, <1>6 DEF Moves, TabsInv

LEMMA LoadAnsweredMoves ==
  ASSUME TabsInv, NEW t \in Tabs, LoadAnswered(t)
  PROVE  Moves
<1> DEFINE new   == loaded[t]
           alive == Live(new)
           gone  == {s \in Live(snap[t]) \ alive : card[t][s].dirty # {} /\ s \notin ownDeleted[t]}
           kept  == (orphan[t] \ alive) \cup gone
           cards == [s \in alive \cup kept |->
                       IF s \notin DOMAIN card[t] THEN Fresh(new.scenes[s])
                       ELSE IF s \in alive THEN SceneSeen(card[t][s], new.scenes[s])
                       ELSE card[t][s]]
<1>1. /\ load[t] = "read" /\ load' = [load EXCEPT ![t] = "no"]
      /\ snap' = [snap EXCEPT ![t] = new]
      /\ ownDeleted' = [ownDeleted EXCEPT ![t] = @ \ alive]
      /\ orphan' = [orphan EXCEPT ![t] = kept]
      /\ card' = [card EXCEPT ![t] = cards]
      /\ UNCHANGED <<db, page, loaded, offer, stray, op>>
  BY DEF LoadAnswered
<1>2. page[t] = "shown" /\ DOMAIN card[t] = Live(snap[t]) \cup orphan[t]
  BY <1>1 DEF TabsInv, PagesInv, PageOf
<1>3. Known(new, project, used)
  BY DEF TabsInv, ViewsInv
<1>4. ASSUME NEW s \in alive
      PROVE  s \in 1..used /\ new.scenes[s] \in Seen(s, project)
  BY <1>3 DEF Known, Sound, Seen
<1>5. \A s \in DOMAIN card[t] : s \in 1..used /\ card[t][s] \in CardsOf(Seen(s, project))
  BY DEF TabsInv, CardsInv
<1>6. orphan[t] \subseteq DOMAIN card[t] /\ gone \subseteq DOMAIN card[t] /\ kept \subseteq DOMAIN card[t]
      /\ kept \cap alive = {} /\ orphan[t] \in SUBSET Nat
  BY <1>2 DEF TabsInv, PagesInv
<1>7. ASSUME NEW s \in alive \cup kept
      PROVE  /\ s \in 1..used /\ cards[s] \in CardsOf(Seen(s, project))
             /\ s \in DOMAIN card[t] => cards[s].dirty = card[t][s].dirty
  <2>1. CASE s \notin DOMAIN card[t]
    <3>1. s \in alive /\ cards[s] = Fresh(new.scenes[s])
      BY <2>1, <1>6
    <3>2. QED
      BY <3>1, <2>1, <1>4, SeenScenes, FreshCard
  <2>2. CASE s \in DOMAIN card[t] /\ s \in alive
    <3>1. cards[s] = SceneSeen(card[t][s], new.scenes[s])
      BY <2>2
    <3>2. card[t][s] \in CardsOf(Seen(s, project)) /\ new.scenes[s] \in Seen(s, project)
      BY <2>2, <1>4, <1>5
    <3>3. Seen(s, project) \subseteq Scenes
      BY SeenScenes
    <3>4. QED
      BY <3>1, <3>2, <3>3, <2>2, <1>4, SceneSeenCard
  <2>3. CASE s \in DOMAIN card[t] /\ s \notin alive
    BY <2>3, <1>5
  <2>4. QED
    BY <2>1, <2>2, <2>3
<1>8. DOMAIN cards = alive \cup kept
  OBVIOUS
<1>9. \A s \in DOMAIN card[t] \ (alive \cup kept) : card[t][s].dirty = {} \/ s \in ownDeleted[t]
  BY <1>2
<1>10. \A s \in kept : s \in Nat
  BY <1>5, <1>6
<1> HIDE DEF cards, kept, gone, alive, new
<1>11. /\ DOMAIN card = Tabs /\ DOMAIN card' = Tabs /\ card'[t] = cards
       /\ \A x \in Tabs : x # t => card'[x] = card[x]
  BY <1>1 DEF TabsInv, CardsInv
<1>12. project' = project /\ used' = used
  BY <1>1 DEF db
<1>13. CardsInv'
  <2> SUFFICES ASSUME NEW x \in Tabs, NEW s \in DOMAIN card'[x]
               PROVE  s \in 1..used /\ card'[x][s] \in CardsOf(Seen(s, project))
    BY <1>11, <1>12 DEF CardsInv
  <2>1. CASE x = t
    BY <2>1, <1>7, <1>8, <1>11
  <2>2. CASE x # t
    BY <2>2, <1>11 DEF TabsInv, CardsInv
  <2>3. QED
    BY <2>1, <2>2
<1>14. DataInv' /\ EditsMove /\ ChoicesMove
  BY <1>1, TabStep
<1>15. ViewsInv'
  <2>1. DOMAIN snap' = Tabs /\ \A x \in Tabs : snap'[x] = snap[x] \/ snap'[x] = new
    BY <1>1 DEF TabsInv, ViewsInv
  <2>2. QED
    BY <2>1, <1>1, <1>3, <1>12 DEF TabsInv, ViewsInv
<1>16. OpsInv' /\ StrayInv'
  BY <1>1, <1>12 DEF TabsInv, OpsInv, StrayInv
<1>17. PagesInv'
  <2>1. orphan' \in [Tabs -> SUBSET Nat] /\ orphan'[t] = kept
        /\ \A x \in Tabs : x # t => orphan'[x] = orphan[x]
    BY <1>1, <1>10 DEF TabsInv, PagesInv
  <2>2. /\ snap'[t] = new /\ \A x \in Tabs : x # t => snap'[x] = snap[x] /\ load'[x] = load[x]
    BY <1>1 DEF TabsInv, ViewsInv, PagesInv
  <2>3. ASSUME NEW x \in Tabs PROVE PageOf(x)'
    <3>1. CASE x = t
      BY <3>1, <2>1, <2>2, <1>1, <1>2, <1>6, <1>8, <1>11 DEF PageOf, alive
    <3>2. CASE x # t
      <4>1. PageOf(x)
        BY DEF TabsInv, PagesInv
      <4>2. QED
        BY <4>1, <3>2, <2>1, <2>2, <1>1, <1>11 DEF PageOf
    <3>3. QED
      BY <3>1, <3>2
  <2>4. QED
    BY <2>1, <2>3, <1>1 DEF TabsInv, PagesInv
<1>18. DraftsMove
  <2> SUFFICES ASSUME NEW x \in Tabs, NEW s \in DOMAIN card[x], NEW f \in card[x][s].dirty
               PROVE  (s \in DOMAIN card'[x] /\ f \in card'[x][s].dirty) \/ s \in ownDeleted[x]
    BY DEF DraftsMove
  <2>1. CASE x = t /\ s \in alive \cup kept
    BY <2>1, <1>7, <1>8, <1>11
  <2>2. CASE x = t /\ s \notin alive \cup kept
    BY <2>2, <1>9
  <2>3. CASE x # t
    BY <2>3, <1>11
  <2>4. QED
    BY <2>1, <2>2, <2>3
<1>19. QED
  BY <1>13, <1>14, <1>15, <1>16, <1>17, <1>18 DEF Moves, TabsInv

LEMMA LoadFailedMoves ==
  ASSUME TabsInv, NEW t \in Tabs, LoadFailed(t)
  PROVE  Moves
<1> DEFINE lone(s) == [tab |-> t, scene |-> s, patch |-> card[t][s].patch]
           out     == {s \in DOMAIN card[t] : card[t][s].patch.on /\ card[t][s].patch.answer = "none"}
<1>1. /\ page[t] = "shown" /\ page' = [page EXCEPT ![t] = "error"]
      /\ load' = [load EXCEPT ![t] = "no"] /\ card' = [card EXCEPT ![t] = << >>]
      /\ orphan' = [orphan EXCEPT ![t] = {}] /\ ownDeleted' = [ownDeleted EXCEPT ![t] = {}]
      /\ op' = [op EXCEPT ![t] = NoOp]
      /\ stray' = stray \cup {lone(s) : s \in out}
                   \cup (IF op[t] # NoOp /\ op[t].answer = "none"
                         THEN {[tab |-> t, put |-> op[t]]} ELSE {})
      /\ UNCHANGED <<db, snap, loaded>>
  BY DEF LoadFailed
<1>2. project' = project /\ used' = used
  BY <1>1 DEF db
<1>3. /\ DOMAIN card = Tabs /\ DOMAIN card' = Tabs /\ DOMAIN card'[t] = {}
      /\ \A x \in Tabs : x # t => card'[x] = card[x]
  BY <1>1 DEF TabsInv, CardsInv
<1>4. CardsInv'
  BY <1>2, <1>3 DEF TabsInv, CardsInv
<1>5. DataInv' /\ EditsMove /\ ChoicesMove
  BY <1>1, TabStep
<1>6. ViewsInv'
  BY <1>1, <1>2 DEF TabsInv, ViewsInv
<1>7. OpsInv' /\ op'[t] = NoOp /\ \A x \in Tabs : x # t => op'[x] = op[x]
  BY <1>1, <1>2 DEF TabsInv, OpsInv
<1>8. ASSUME NEW s \in out PROVE StrayOf(lone(s), project, used)
  <2>1. s \in 1..used /\ card[t][s] \in CardsOf(Seen(s, project)) /\ card[t][s].patch.on
    BY DEF TabsInv, CardsInv
  <2>2. card[t][s].patch \in PatchesOf(Seen(s, project))
    BY <2>1, CardIs, NoPatchOn
  <2>3. QED
    BY <2>1, <2>2, StrayPatch
<1>9. op[t] # NoOp => StrayOf([tab |-> t, put |-> op[t]], project, used)
  BY StrayPut DEF TabsInv, OpsInv
<1> HIDE DEF lone, out
<1>10. StrayInv'
  BY <1>1, <1>2, <1>8, <1>9 DEF TabsInv, StrayInv
<1>11. PagesInv'
  <2>1. /\ page' \in [Tabs -> {"shown", "error"}] /\ page'[t] = "error"
        /\ load' \in [Tabs -> {"no", "asked", "read"}] /\ load'[t] = "no"
        /\ orphan' \in [Tabs -> SUBSET Nat] /\ orphan'[t] = {} /\ DOMAIN ownDeleted' = Tabs
        /\ \A x \in Tabs : x # t => page'[x] = page[x] /\ load'[x] = load[x] /\ orphan'[x] = orphan[x]
    BY <1>1 DEF TabsInv, PagesInv
  <2>2. ASSUME NEW x \in Tabs PROVE PageOf(x)'
    <3>1. PageOf(x)
      BY DEF TabsInv, PagesInv
    <3>2. QED
      BY <3>1, <2>1, <1>1, <1>3, <1>7 DEF PageOf
  <2>3. QED
    BY <2>1, <2>2 DEF PagesInv
<1>12. DraftsMove
  <2>1. page'[t] = "error"
    BY <1>1 DEF TabsInv, PagesInv
  <2>2. QED
    BY <2>1, <1>3 DEF DraftsMove
<1>13. QED
  BY <1>4, <1>5, <1>6, <1>7, <1>10, <1>11, <1>12 DEF Moves, TabsInv

LEMMA ReopenMoves ==
  ASSUME TabsInv, NEW t \in Tabs, Reopen(t)
  PROVE  Moves
<1>1. /\ page[t] = "error" /\ page' = [page EXCEPT ![t] = "shown"]
      /\ snap' = [snap EXCEPT ![t] = project]
      /\ card' = [card EXCEPT ![t] = Cards(project)]
      /\ UNCHANGED <<db, load, loaded, offer, orphan, ownDeleted, stray, op>>
  BY DEF Reopen
<1>2. project' = project /\ used' = used
  BY <1>1 DEF db
<1>3. Known(project, project, used) /\ \A s \in Live(project) :
         s \in 1..used /\ project.scenes[s] \in Seen(s, project)
  BY ItselfKnown DEF TabsInv, DataInv
<1>4. DOMAIN Cards(project) = Live(project)
      /\ \A s \in Live(project) : Cards(project)[s] = Fresh(project.scenes[s])
  BY DEF Cards
<1>5. \A s \in Live(project) : Cards(project)[s] \in CardsOf(Seen(s, project))
  BY <1>3, <1>4, SeenScenes, FreshCard
<1> DEFINE cards == Cards(project)
<1> HIDE DEF cards
<1>6. /\ DOMAIN card = Tabs /\ DOMAIN card' = Tabs /\ card'[t] = cards
      /\ \A x \in Tabs : x # t => card'[x] = card[x]
  BY <1>1 DEF TabsInv, CardsInv, cards
<1>7. CardsInv'
  <2> SUFFICES ASSUME NEW x \in Tabs, NEW s \in DOMAIN card'[x]
               PROVE  s \in 1..used /\ card'[x][s] \in CardsOf(Seen(s, project))
    BY <1>2, <1>6 DEF CardsInv
  <2>1. CASE x = t
    BY <2>1, <1>3, <1>4, <1>5, <1>6 DEF cards
  <2>2. CASE x # t
    BY <2>2, <1>6 DEF TabsInv, CardsInv
  <2>3. QED
    BY <2>1, <2>2
<1>8. DataInv' /\ EditsMove /\ ChoicesMove
  BY <1>1, TabStep
<1>9. ViewsInv'
  <2>1. DOMAIN snap' = Tabs /\ \A x \in Tabs : snap'[x] = snap[x] \/ snap'[x] = project
    BY <1>1 DEF TabsInv, ViewsInv
  <2>2. QED
    BY <2>1, <1>1, <1>2, <1>3 DEF TabsInv, ViewsInv
<1>10. OpsInv' /\ StrayInv'
  BY <1>1, <1>2 DEF TabsInv, OpsInv, StrayInv
<1>11. PagesInv'
  <2>1. /\ page' \in [Tabs -> {"shown", "error"}] /\ page'[t] = "shown" /\ snap'[t] = project
        /\ \A x \in Tabs : x # t => page'[x] = page[x] /\ snap'[x] = snap[x]
    BY <1>1 DEF TabsInv, PagesInv, ViewsInv
  <2>2. ASSUME NEW x \in Tabs PROVE PageOf(x)'
    <3>1. PageOf(x)
      BY DEF TabsInv, PagesInv
    <3>2. CASE x = t
      BY <3>1, <3>2, <2>1, <1>1, <1>4, <1>6 DEF PageOf, cards
    <3>3. CASE x # t
      BY <3>1, <3>3, <2>1, <1>1, <1>6 DEF PageOf
    <3>4. QED
      BY <3>2, <3>3
  <2>3. QED
    BY <2>1, <2>2, <1>1 DEF TabsInv, PagesInv
<1>12. DraftsMove
  <2>1. DOMAIN card[t] = {}
    BY <1>1 DEF TabsInv, PagesInv, PageOf
  <2>2. QED
    BY <2>1, <1>6 DEF DraftsMove
<1>13. QED
  BY <1>7, <1>8, <1>9, <1>10, <1>11, <1>12 DEF Moves, TabsInv

-----------------------------------------------------------------------------
\* The server's steps.

LEMMA ServedHeld ==
  ASSUME TabsInv, NEW p, Commits(p), Written(p)
  PROVE  /\ project' = p /\ DataInv' /\ ChoicesMove
         /\ \A w : Known(w, project, used) => Known(w, project', used')
         /\ \A o : OpOf(o, project, used) => OpOf(o, project', used')
         /\ \A r : StrayOf(r, project, used) => StrayOf(r, project', used')
         /\ \A s \in 1..used : s \in 1..used' /\ Seen(s, project) \subseteq Seen(s, project')
                               /\ CardsOf(Seen(s, project)) \subseteq CardsOf(Seen(s, project'))
<1>1. project' = p /\ used' = used + Cardinality(Live(p) \ Live(project))
  BY DEF Written
<1>2. /\ Advance(project, project', used, used') /\ SourcesIn(project') /\ ChoicesMove
  BY <1>1 DEF Commits, ChoicesMove
<1>3. QED
  BY <1>1, <1>2, HeldStays DEF TabsInv

\* What a commit leaves to whom it does not answer.
LEMMA ServedRest ==
  ASSUME TabsInv, NEW p, Commits(p), Written(p)
  PROVE  /\ UNCHANGED screen => ViewsInv'
         /\ UNCHANGED card => CardsInv' /\ (\A t \in Tabs : DOMAIN card'[t] = DOMAIN card[t])
         /\ UNCHANGED op => OpsInv'
         /\ stray' \subseteq stray => StrayInv'
<1>0. /\ \A w : Known(w, project, used) => Known(w, project', used')
      /\ \A o : OpOf(o, project, used) => OpOf(o, project', used')
      /\ \A r : StrayOf(r, project, used) => StrayOf(r, project', used')
      /\ \A s \in 1..used : s \in 1..used'
                            /\ CardsOf(Seen(s, project)) \subseteq CardsOf(Seen(s, project'))
  BY ServedHeld
<1>1. ASSUME UNCHANGED screen PROVE ViewsInv'
  <2>1. ViewsInv /\ snap' = snap /\ loaded' = loaded
    BY <1>1 DEF TabsInv, screen, feed
  <2>2. QED
    BY <2>1, <1>0 DEF ViewsInv
<1>2. ASSUME UNCHANGED card
      PROVE  CardsInv' /\ \A t \in Tabs : DOMAIN card'[t] = DOMAIN card[t]
  <2>1. ASSUME NEW t \in Tabs, NEW s \in DOMAIN card[t]
        PROVE  s \in 1..used' /\ card[t][s] \in CardsOf(Seen(s, project'))
    <3>1. s \in 1..used /\ card[t][s] \in CardsOf(Seen(s, project))
      BY DEF TabsInv, CardsInv
    <3>2. QED
      BY <3>1, <1>0
  <2>2. DOMAIN card = Tabs /\ card' = card
    BY <1>2 DEF TabsInv, CardsInv
  <2>3. CardsInv'
    BY <2>1, <2>2 DEF CardsInv
  <2>4. QED
    BY <2>2, <2>3
<1>3. ASSUME UNCHANGED op PROVE OpsInv'
  <2>1. OpsInv /\ op' = op
    BY <1>3 DEF TabsInv
  <2>2. QED
    BY <2>1, <1>0 DEF OpsInv
<1>4. ASSUME stray' \subseteq stray PROVE StrayInv'
  <2>1. StrayInv
    BY DEF TabsInv
  <2>2. QED
    BY <2>1, <1>0, <1>4 DEF StrayInv
<1>5. QED
  BY <1>1, <1>2, <1>3, <1>4

LEMMA PatchServedMoves ==
  ASSUME TabsInv, NEW t \in Tabs, NEW s, PatchServed(t, s)
  PROVE  Moves
<1> DEFINE c     == card[t][s]
           out   == PatchOutcome(s, c.patch)
           scene == IF out.answer = "error" THEN c.patch.scene ELSE out.project.scenes[s]
           new   == Answered(c, out.answer, scene)
<1>1. /\ s \in DOMAIN card[t] /\ c.patch.on /\ c.patch.answer = "none"
      /\ Written(out.project) /\ OneMoved(t, s, new) /\ UNCHANGED <<screen, stray, op>>
  BY DEF PatchServed, OneMoved
<1>2. s \in 1..used /\ c \in CardsOf(Seen(s, project))
  BY <1>1 DEF TabsInv, CardsInv
<1>3. c.patch \in PatchesOf(Seen(s, project))
  BY <1>1, <1>2, CardIs, NoPatchOn
<1>4. /\ out.answer \in {"ok", "conflict", "error"} /\ Commits(out.project)
      /\ out.answer # "ok" => out.project = project
      /\ out.answer = "ok" => s \in Live(project) /\ KnewScene(c.patch, s)
      /\ out.answer # "error" => s \in Live(out.project)
  BY <1>2, <1>3, PatchCommits DEF TabsInv
<1> HIDE DEF out
<1>5. /\ project' = out.project /\ DataInv' /\ ChoicesMove
      /\ \A y \in 1..used : y \in 1..used' /\ Seen(y, project) \subseteq Seen(y, project')
                            /\ CardsOf(Seen(y, project)) \subseteq CardsOf(Seen(y, project'))
  BY <1>1, <1>4, ServedHeld
<1>6. c \in CardsOf(Seen(s, project')) /\ scene \in Seen(s, project')
  <2>1. CASE out.answer = "error"
    BY <2>1, <1>2, <1>3, <1>5, PatchIs
  <2>2. CASE out.answer # "error"
    <3>1. s \in Live(project') /\ scene = project'.scenes[s]
      BY <2>2, <1>4, <1>5
    <3>2. \A x \in Live(project') : project'.scenes[x] \in Seen(x, project')
      BY <1>5, ItselfKnown DEF DataInv
    <3>3. QED
      BY <3>1, <3>2, <1>2, <1>5
  <2>3. QED
    BY <2>1, <2>2
<1> HIDE DEF scene
<1>7. /\ new \in CardsOf(Seen(s, project')) /\ new.dirty = c.dirty
  <2>1. out.answer \in Answers
    BY <1>4 DEF Answers
  <2>2. new \in CardsOf(Seen(s, project')) /\ new.dirty = c.dirty
    <3> DEFINE S == Seen(s, project')
    <3>1. c \in CardsOf(S) /\ scene \in S /\ c.patch.on
      BY <1>1, <1>6
    <3> HIDE DEF c, S
    <3>2. Answered(c, out.answer, scene) \in CardsOf(S)
          /\ Answered(c, out.answer, scene).dirty = c.dirty
      BY <2>1, <3>1, AnsweredCard
    <3>3. QED
      BY <3>2 DEF c, S
  <2>3. QED
    BY <2>2
<1> HIDE DEF new
<1>8. /\ CardsInv' /\ \A x \in Tabs : DOMAIN card'[x] = DOMAIN card[x]
      /\ card'[t][s] = new
      /\ \A x \in Tabs : \A y \in DOMAIN card[x] : <<x, y>> # <<t, s>> => card'[x][y] = card[x][y]
  BY <1>1, <1>5, <1>7, CardPlaced DEF TabsInv
<1>9. ViewsInv' /\ OpsInv' /\ StrayInv'
  BY <1>1, <1>4, ServedRest DEF screen
<1>10. PagesInv'
  BY <1>1, <1>8 DEF TabsInv, PagesInv, PageOf, screen, feed
<1>11. EditsMove
  <2> SUFFICES ASSUME project' # project PROVE EditsMove
    BY DEF EditsMove
  <2>1. KnewScene(c.patch, s)
    BY <1>4, <1>5
  <2>2. ASSUME NEW x \in Tabs, NEW y \in Live(project), PatchDone(x, y)
        PROVE  KnewScene(card[x][y].patch, y)
    <3>1. <<x, y>> = <<t, s>>
      BY <2>2, <1>8 DEF PatchDone
    <3>2. QED
      BY <3>1, <2>1
  <2>3. \A x \in Tabs : ~OpDone(x)
    BY <1>1 DEF OpDone
  <2>4. stray \ stray' = {}
    BY <1>1
  <2>5. QED
    BY <2>2, <2>3, <2>4 DEF EditsMove
<1>12. DraftsMove
  BY <1>7, <1>8 DEF DraftsMove
<1>13. QED
  BY <1>5, <1>8, <1>9, <1>10, <1>11, <1>12 DEF Moves, TabsInv

LEMMA OpServedMoves ==
  ASSUME TabsInv, NEW t \in Tabs, OpServed(t)
  PROVE  Moves
<1> DEFINE o   == op[t]
           out == PutOutcome(t, o)
           new == [o EXCEPT !.answer = out.answer]
<1>1. /\ o # NoOp /\ o.answer = "none" /\ Written(out.project)
      /\ op' = [op EXCEPT ![t] = new] /\ UNCHANGED <<screen, stray, card>>
  BY DEF OpServed
<1>2. OpOf(o, project, used) /\ DOMAIN op = Tabs
  BY <1>1 DEF TabsInv, OpsInv
<1>3. /\ out.answer \in {"ok", "conflict", "error"} /\ Commits(out.project)
      /\ out.answer # "ok" => out.project = project
      /\ out.answer = "ok" => Knew(o.view)
  BY <1>2, PutCommits DEF TabsInv
<1> DEFINE answer == out.answer
<1> HIDE DEF out
<1>4. /\ project' = out.project /\ DataInv' /\ ChoicesMove
      /\ \A x : OpOf(x, project, used) => OpOf(x, project', used')
  BY <1>1, <1>3, ServedHeld
<1>5. OpOf(new, project', used')
  <2>1. answer \in Answers /\ OpOf(o, project', used')
    BY <1>2, <1>3, <1>4 DEF Answers
  <2> HIDE DEF answer, o
  <2>2. /\ [o EXCEPT !.answer = answer].view = o.view
        /\ [o EXCEPT !.answer = answer].kind = o.kind
        /\ [o EXCEPT !.answer = answer].of = o.of
        /\ [o EXCEPT !.answer = answer]
             \in [kind : {"add", "remove", "restore", "apply"}, of : Nat, draft : Drafts,
                  view : {o.view}, answer : Answers]
    BY <2>1 DEF OpOf
  <2>3. OpOf([o EXCEPT !.answer = answer], project', used')
    BY <2>1, <2>2 DEF OpOf
  <2>4. QED
    BY <2>3 DEF answer, o
<1> HIDE DEF new
<1>6. op'[t] = new /\ DOMAIN op' = Tabs /\ \A x \in Tabs : x # t => op'[x] = op[x]
  BY <1>1, <1>2
<1>7. OpsInv'
  <2>1. ASSUME NEW x \in Tabs PROVE op'[x] = NoOp \/ OpOf(op'[x], project', used')
    <3>1. CASE x = t
      BY <3>1, <1>5, <1>6
    <3>2. CASE x # t
      BY <3>2, <1>4, <1>6 DEF TabsInv, OpsInv
    <3>3. QED
      BY <3>1, <3>2
  <2>2. QED
    BY <2>1, <1>6 DEF OpsInv
<1>8. ViewsInv' /\ CardsInv' /\ StrayInv'
  BY <1>1, <1>3, ServedRest DEF screen
<1>9. PagesInv'
  <2>1. page[t] = "shown"
    BY <1>1 DEF TabsInv, PagesInv, PageOf
  <2>2. ASSUME NEW x \in Tabs PROVE PageOf(x)'
    <3>1. PageOf(x)
      BY DEF TabsInv, PagesInv
    <3>2. QED
      BY <3>1, <2>1, <1>1, <1>6 DEF PageOf, screen, feed
  <2>3. QED
    BY <2>2, <1>1 DEF TabsInv, PagesInv, screen, feed
<1>10. EditsMove
  <2> SUFFICES ASSUME project' # project PROVE EditsMove
    BY DEF EditsMove
  <2>1. Knew(o.view)
    BY <1>3, <1>4
  <2>2. ASSUME NEW x \in Tabs, OpDone(x) PROVE Knew(op[x].view)
    <3>1. x = t
      BY <2>2, <1>6 DEF OpDone
    <3>2. QED
      BY <3>1, <2>1
  <2>3. \A x \in Tabs : \A y : ~PatchDone(x, y)
    BY <1>1 DEF PatchDone
  <2>4. stray \ stray' = {}
    BY <1>1
  <2>5. QED
    BY <2>2, <2>3, <2>4 DEF EditsMove
<1>11. DraftsMove
  BY <1>1 DEF DraftsMove
<1>12. QED
  BY <1>4, <1>7, <1>8, <1>9, <1>10, <1>11 DEF Moves, TabsInv

LEMMA StrayServedMoves ==
  ASSUME TabsInv, NEW r \in stray, StrayServed(r)
  PROVE  Moves
<1> DEFINE out == IF "patch" \in DOMAIN r THEN PatchOutcome(r.scene, r.patch)
                                          ELSE PutOutcome(r.tab, r.put)
<1>1. stray' = stray \ {r} /\ Written(out.project) /\ UNCHANGED <<screen, card, op>>
  BY DEF StrayServed
<1>2. StrayOf(r, project, used) /\ DataInv
  BY DEF TabsInv, StrayInv
<1>3. /\ Commits(out.project)
      /\ out.project # project
           => IF "patch" \in DOMAIN r THEN KnewScene(r.patch, r.scene) ELSE Knew(r.put.view)
  <2>1. CASE "patch" \in DOMAIN r
    <3>1. r.scene \in 1..used /\ r.patch \in PatchesOf(Seen(r.scene, project))
      BY <2>1, <1>2 DEF StrayOf
    <3>2. out = PatchOutcome(r.scene, r.patch)
      BY <2>1
    <3>3. QED
      BY <2>1, <3>1, <3>2, <1>2, PatchCommits
  <2>2. CASE "patch" \notin DOMAIN r
    <3>1. OpOf(r.put, project, used)
      BY <2>2, <1>2 DEF StrayOf
    <3>2. out = PutOutcome(r.tab, r.put)
      BY <2>2
    <3>3. QED
      BY <2>2, <3>1, <3>2, <1>2, PutCommits
  <2>3. QED
    BY <2>1, <2>2
<1> HIDE DEF out
<1>4. project' = out.project /\ DataInv' /\ ChoicesMove
  BY <1>1, <1>3, ServedHeld
<1>5. ViewsInv' /\ CardsInv' /\ OpsInv' /\ StrayInv'
  BY <1>1, <1>3, ServedRest DEF screen
<1>6. PagesInv'
  BY <1>1 DEF TabsInv, PagesInv, PageOf, screen, feed
<1>7. EditsMove
  <2>1. stray \ stray' \subseteq {r}
    BY <1>1
  <2>2. (\A x \in Tabs : \A y : ~PatchDone(x, y)) /\ \A x \in Tabs : ~OpDone(x)
    BY <1>1 DEF PatchDone, OpDone
  <2>3. QED
    BY <2>1, <2>2, <1>3, <1>4 DEF EditsMove
<1>8. DraftsMove
  BY <1>1 DEF DraftsMove
<1>9. QED
  BY <1>4, <1>5, <1>6, <1>7, <1>8 DEF Moves, TabsInv

LEMMA OtherWindowMoves ==
  ASSUME TabsInv, OtherWindow
  PROVE  Moves
<1>1. /\ Sound(project) /\ used \in Nat /\ Live(project) \subseteq 1..used /\ SourcesIn(project)
      /\ Known(project, project, used)
  BY ItselfKnown DEF TabsInv, DataInv
<1>2. UNCHANGED <<screen, stray, card, op>>
  BY DEF OtherWindow
<1>3. PICK p : Commits(p) /\ Written(p)
  <2>1. CASE \E s \in Live(project), f \in Fields :
                Written(Updated(project, s, [x \in {f} |-> "other"]))
    <3>1. PICK s \in Live(project), f \in Fields :
            Written(Updated(project, s, [x \in {f} |-> "other"]))
      BY <2>1
    <3> DEFINE body == [x \in {f} |-> "other"]
               q    == Updated(project, s, body)
    <3>2. body \in Bodies
      <4>1. body \in [{f} -> Texts] /\ {f} \in SUBSET Fields
        BY DEF Texts
      <4>2. QED
        BY <4>1 DEF Bodies
    <3> HIDE DEF body
    <3>3. /\ Advance(project, q, used, used) /\ Live(q) = Live(project)
          /\ ChoicesKept(project, q) /\ SourcesIn(q)
      BY <1>1, <3>2, UpdatedStep
    <3>4. Written(q)
      BY <3>1 DEF body
    <3> HIDE DEF q
    <3>5. Commits(q)
      BY <1>1, <3>3, NothingNew DEF Commits
    <3>6. QED
      BY <3>4, <3>5
  <2>2. CASE \E s \in Live(project) :
                /\ ~PutUnknown(Without(project, s), used + 1)
                /\ Written(Replaced(project, Without(project, s), used + 1))
    <3>1. PICK s \in Live(project) :
            /\ ~PutUnknown(Without(project, s), used + 1)
            /\ Written(Replaced(project, Without(project, s), used + 1))
      BY <2>2
    <3> DEFINE req == Without(project, s)
    <3>2. RequestOf(req, project) /\ ~PutConflict(project, req)
      BY <1>1, WithoutOf, WithoutTaken
    <3> HIDE DEF req
    <3>3. ~PutUnknown(req, used + 1) /\ Written(Replaced(project, req, used + 1))
      BY <3>1 DEF req
    <3>4. Commits(Replaced(project, req, used + 1))
      BY <1>1, <3>2, <3>3, ReplacedStep DEF Commits
    <3>5. QED
      BY <3>3, <3>4
  <2>3. QED
    BY <2>1, <2>2 DEF OtherWindow
<1>4. DataInv' /\ ChoicesMove
  BY <1>3, ServedHeld
<1>5. ViewsInv' /\ CardsInv' /\ OpsInv' /\ StrayInv'
  BY <1>2, <1>3, ServedRest DEF screen
<1>6. PagesInv'
  BY <1>2 DEF TabsInv, PagesInv, PageOf, screen, feed
<1>7. EditsMove
  BY <1>2 DEF EditsMove, PatchDone, OpDone
<1>8. DraftsMove
  BY <1>2 DEF DraftsMove
<1>9. QED
  BY <1>4, <1>5, <1>6, <1>7, <1>8 DEF Moves, TabsInv

LEMMA SameMoves ==
  ASSUME TabsInv, UNCHANGED tabVars
  PROVE  Moves
<1>1. UNCHANGED <<db, screen, stray, card, op>>
  BY DEF tabVars
<1>2. DataInv' /\ EditsMove /\ ChoicesMove
  BY <1>1, TabStep
<1>3. ViewsInv' /\ CardsInv' /\ OpsInv' /\ StrayInv' /\ PagesInv'
  BY <1>1 DEF TabsInv, ViewsInv, CardsInv, OpsInv, StrayInv, PagesInv, PageOf, db, screen, feed
<1>4. DraftsMove
  BY <1>1 DEF DraftsMove
<1>5. QED
  BY <1>2, <1>3, <1>4 DEF Moves, TabsInv

LEMMA StepMoves ==
  ASSUME TabsInv, [TabsNext]_tabVars
  PROVE  Moves
<1>1. ASSUME NEW t \in Tabs, Owner(t) PROVE Moves
  <2>1. CASE AddScene(t) \/ Apply(t)
    BY <2>1, OperationMoves
  <2>2. CASE Reopen(t)
    BY <2>2, ReopenMoves
  <2>3. ASSUME NEW s \in 1..MaxIds, NEW f \in Fields, NEW v \in Words, Type(t, s, f, v) PROVE Moves
    BY <2>3, TypeMoves
  <2>4. ASSUME NEW s \in 1..MaxIds, Save(t, s) \/ SaveMine(t, s) PROVE Moves
    BY <2>4, SaveMoves
  <2>5. ASSUME NEW s \in 1..MaxIds, TakeServer(t, s) PROVE Moves
    BY <2>5, TakeMoves
  <2>6. ASSUME NEW s \in 1..MaxIds, Remove(t, s) \/ Restore(t, s) PROVE Moves
    BY <2>6, OperationMoves
  <2>7. ASSUME NEW s \in 1..MaxIds, Dismiss(t, s) PROVE Moves
    BY <2>7, DismissMoves
  <2>8. QED
    BY <1>1, <2>1, <2>2, <2>3, <2>4, <2>5, <2>6, <2>7 DEF Owner
<1>2. ASSUME NEW t \in Tabs, Network(t) PROVE Moves
  <2>1. CASE OpServed(t)
    BY <2>1, OpServedMoves
  <2>2. CASE OpAnswered(t)
    BY <2>2, OpAnsweredMoves
  <2>3. CASE OpLost(t)
    BY <2>3, OpLostMoves
  <2>4. CASE LoadFailed(t)
    BY <2>4, LoadFailedMoves
  <2>5. ASSUME NEW s \in 1..MaxIds, PatchServed(t, s) PROVE Moves
    BY <2>5, PatchServedMoves
  <2>6. ASSUME NEW s \in 1..MaxIds, PatchAnswered(t, s) PROVE Moves
    BY <2>6, PatchAnsweredMoves
  <2>7. ASSUME NEW s \in 1..MaxIds, PatchLost(t, s) PROVE Moves
    BY <2>7, PatchLostMoves
  <2>8. QED
    BY <1>2, <2>1, <2>2, <2>3, <2>4, <2>5, <2>6, <2>7 DEF Network
<1>3. ASSUME NEW t \in Tabs, CatchUp(t) PROVE Moves
  BY <1>3, HearMoves, LoadServedMoves, LoadAnsweredMoves DEF CatchUp
<1>4. ASSUME NEW r \in stray, StrayServed(r) PROVE Moves
  BY <1>4, StrayServedMoves
<1>5. CASE OtherWindow
  BY <1>5, OtherWindowMoves
<1>6. CASE UNCHANGED tabVars
  BY <1>6, SameMoves
<1>7. QED
  BY <1>1, <1>2, <1>3, <1>4, <1>5, <1>6 DEF TabsNext

LEMMA TabsStart ==
  TabsInit => TabsInv
<1> SUFFICES ASSUME TabsInit PROVE TabsInv
  OBVIOUS
<1>1. Sound(project) /\ SourcesIn(project) /\ Live(project) = 1..Len(project.order)
  BY TabsAssumption DEF TabsInit
<1>2. Len(project.order) \in Nat
  BY <1>1, OrderOf
<1>3. used = Len(project.order)
  <2>1. Cardinality(1..Len(project.order)) = Len(project.order)
    BY <1>2, FS_Interval
  <2>2. QED
    BY <2>1, <1>1 DEF TabsInit
<1>4. DataInv
  BY <1>1, <1>2, <1>3 DEF DataInv
<1>5. Known(project, project, used) /\ \A s \in Live(project) :
         s \in 1..used /\ project.scenes[s] \in Seen(s, project)
  BY <1>1, <1>4, ItselfKnown DEF DataInv
<1>6. ViewsInv
  BY <1>5 DEF TabsInit, ViewsInv
<1> DEFINE cards == Cards(project)
<1>7. DOMAIN cards = Live(project) /\ \A s \in Live(project) : cards[s] \in CardsOf(Seen(s, project))
  <2>1. \A s \in Live(project) : cards[s] = Fresh(project.scenes[s])
    BY DEF Cards
  <2>2. QED
    BY <2>1, <1>5, SeenScenes, FreshCard DEF Cards
<1> HIDE DEF cards
<1>8. card = [t \in Tabs |-> cards]
  BY DEF TabsInit, cards
<1>9. CardsInv
  BY <1>5, <1>7, <1>8 DEF CardsInv
<1>10. OpsInv /\ StrayInv
  BY DEF TabsInit, OpsInv, StrayInv
<1>11. PagesInv
  <2>1. \A t \in Tabs : page[t] = "shown" /\ orphan[t] = {} /\ snap[t] = project
    BY DEF TabsInit
  <2>2. \A t \in Tabs : PageOf(t)
    BY <2>1, <1>7, <1>8 DEF PageOf
  <2>3. QED
    BY <2>2 DEF TabsInit, PagesInv
<1>12. QED
  BY <1>4, <1>6, <1>9, <1>10, <1>11 DEF TabsInv

\* The invariant the properties of the tabs follow from: the data's types; what the
\* tabs and the requests in flight hold of a scene is no newer than the project's and,
\* with the same edit_version, the same; a save on its way has the dirty fields.
THEOREM TabsHold == TabsSpec => []TabsInv
<1>1. TabsInit => TabsInv
  BY TabsStart
<1>2. TabsInv /\ [TabsNext]_tabVars => TabsInv'
  BY StepMoves DEF Moves
<1>3. QED
  BY <1>1, <1>2, PTL DEF TabsSpec

\* Whatever tabs with older views do to the set, a frame source is another scene
\* that is there, and one derived from the order is the scene before (O7, O8).
THEOREM TabsSourcesFollow == TabsSpec => []SourcesFollow
<1>1. TabsInv => SourcesFollow
  BY DEF TabsInv, DataInv, SourcesFollow
<1>2. QED
  BY <1>1, TabsHold, PTL

\* Nobody's saved edit is overwritten or deleted by a tab that had not seen it,
\* for any number of tabs, scenes and lost or late requests.
THEOREM TabsLoseNoEdit == TabsSpec => NoLostEdit
<1>1. TabsInv /\ [TabsNext]_tabVars => EditsMove
  BY StepMoves DEF Moves
<1>2. QED
  BY <1>1, TabsHold, PTL DEF TabsSpec, NoLostEdit, EditsMove

\* What an owner has typed and not saved goes only in the ways DraftsKept lists.
THEOREM TabsKeepDrafts == TabsSpec => DraftsKept
<1>1. TabsInv /\ [TabsNext]_tabVars => DraftsMove
  BY StepMoves DEF Moves
<1>2. QED
  BY <1>1, TabsHold, PTL DEF TabsSpec, DraftsKept, DraftsMove

\* An operation on the set changes no source it is not about.
THEOREM TabsKeepChoices == TabsSpec => ChoicesHold
<1> DEFINE Hold == \A s \in Live(project) \cap Live(project)' :
          LET old == project.scenes[s]  new == project'.scenes[s]
          IN /\ old.auto => new.auto
             /\ (~old.auto /\ old.from \in Live(project)') => new.from = old.from /\ ~new.auto
<1>1. TabsInv /\ [TabsNext]_tabVars => Hold
  BY StepMoves DEF Moves, ChoicesMove, ChoicesKept
<1>2. QED
  BY <1>1, TabsHold, PTL DEF TabsSpec, ChoicesHold
=============================================================================
