------------------------------ MODULE GpuProofs ------------------------------
(***************************************************************************)
(* What the GPU dispatcher's runs check on two engines, two clients and    *)
(* two pids, for any number of each.                                       *)
(*                                                                         *)
(* The card: an engine that runs holds the lock's file, so a dispatcher    *)
(* that has no descriptor of its own may take the lock only when nothing   *)
(* of ours runs; one that has kept its descriptor knows by its records     *)
(* what runs, and starts nothing before it has stopped that.  A group      *)
(* that SIGKILL was sent to counts as gone, but the record that names it   *)
(* may outlive a death of the dispatcher, and a later stop sends it        *)
(* SIGTERM: it is counted here for as long as a record names it.  A group  *)
(* that an operation took for gone while it was its script is not counted. *)
(***************************************************************************)
EXTENDS GpuDispatcher, TLAPS

Stopping == {"stop", "wait", "forget"}
Starting == {"look", "take", "record"}

Named(p) == \E e \in Engine : Ours(e) /\ rec[e].pid = p
Live(p) == Leads(p) /\ ~grp[p].missed /\ (grp[p].hurt # "kill" \/ Named(p))

\* What an operation holds at each of its points.
OpInv ==
    /\ op.pc \in {"wait", "forget"} => op.cur \in op.todo
    /\ At("wait") =>
         /\ op.pid \in Pid /\ rec[op.cur].pid = op.pid /\ Recorded(op.cur)
         /\ grp[op.pid].life # "free" => grp[op.pid].eng = op.cur
    /\ At("forget") /\ Ours(op.cur) => grp[rec[op.cur].pid].hurt = "kill"
    /\ \/ op.pc \in Starting \cup {"again"}
       \/ op.pc \in Stopping /\ op.then \in {"again", "take"}
       => op.eng \in Engine /\ op.client \in Client
    /\ At("record") => /\ op.pid \in Pid
                       /\ Leads(op.pid) => grp[op.pid].eng = op.eng
                       /\ \A p \in Pid : Live(p) => p = op.pid

\* Before a start, everything that a record names is on its way out.
Cleared ==
    /\ op.pc \in Stopping /\ op.then = "take" => \A e \in Engine : Ours(e) => e \in op.todo
    /\ At("take") => \A e \in Engine : ~Ours(e)

\* A stop that is not everybody's is of what is the client's, or nobody's.
Asked ==
    op.pc \in Stopping /\ op.then \notin {"freeall", "restore"} =>
        \A e \in op.todo : Ours(e) => Mine(e, op.client)

Holds == \A p \in Pid : Leads(p) => grp[p].fd
Alone == \A p, q \in Pid : Live(p) /\ Live(q) => p = q
Known == \A p \in Pid : Live(p) => Named(p) \/ (At("record") /\ op.pid = p) \/ (grp[p].stray /\ ~dfd)

CardInv == OpInv /\ Cleared /\ Asked /\ Holds /\ Alone /\ Known

\* Qwen is unloaded in the record before it is stopped, and what has been started
\* since is not "stopped by us".
QwenInv ==
    /\ ousted => unloaded
    /\ qwen # "off" \/ At("clear") => ~ousted
    /\ At("unload") => unloaded

IInv == TypeOK /\ CardInv /\ QwenInv

-----------------------------------------------------------------------------
(* Types.                                                                  *)

\* An operation that starts, a group that starts, and what a record may become.
LEMMA Shapes ==
    /\ Rest \in Ops /\ Free \in Groups /\ NoRec \in Records
    /\ [Rest EXCEPT !.pc = "down"] \in Ops /\ [Rest EXCEPT !.pc = "unload"] \in Ops
    /\ \A e \in Engine, c \in Client : [Rest EXCEPT !.pc = "look", !.eng = e, !.client = c] \in Ops
    /\ \A e \in Engine : Spawned(e) \in Groups
<1>1. Rest \in Ops /\ Free \in Groups /\ NoRec \in Records
  BY DEF Rest, Ops, Points, Stops, Free, Groups, Records
<1>2. [Rest EXCEPT !.pc = "down"] \in Ops /\ [Rest EXCEPT !.pc = "unload"] \in Ops
  BY DEF Rest, Ops, Points, Stops
<1>3. \A e \in Engine, c \in Client : [Rest EXCEPT !.pc = "look", !.eng = e, !.client = c] \in Ops
  BY DEF Rest, Ops, Points, Stops
<1>4. \A e \in Engine : Spawned(e) \in Groups
  BY DEF Spawned, Free, Groups
<1> QED
  BY <1>1, <1>2, <1>3, <1>4

\* The operations that go through a list of engines to stop.
LEMMA StopShapes ==
    /\ \A S \in SUBSET Engine, t \in Stops, c \in Client, e \in Engine :
         [Rest EXCEPT !.pc = "stop", !.eng = e, !.client = c, !.todo = S, !.then = t] \in Ops
    /\ \A S \in SUBSET Engine, t \in Stops, c \in Client :
         [Rest EXCEPT !.pc = "stop", !.client = c, !.then = t, !.todo = S] \in Ops
    /\ \A S \in SUBSET Engine, t \in Stops :
         [Rest EXCEPT !.pc = "stop", !.then = t, !.todo = S] \in Ops
  BY DEF Rest, Ops, Points, Stops

\* The first start of the dispatcher.
LEMMA InitTypes == Init => TypeOK
<1> SUFFICES ASSUME Init PROVE TypeOK
  OBVIOUS
<1>1. rec \in [Engine -> Records] /\ grp \in [Pid -> Groups]
  <2>1. CASE rec = [e \in Engine |-> NoRec] /\ grp = [p \in Pid |-> Free]
    BY <2>1, Shapes
  <2>2. ASSUME NEW e \in Engine, NEW p \in Pid,
               rec = [[x \in Engine |-> NoRec] EXCEPT ![e].pid = p, ![e].ready = TRUE],
               grp = [[x \in Pid |-> Free] EXCEPT ![p] =
                         [Free EXCEPT !.eng = e, !.life = "serving", !.fd = TRUE]]
        PROVE  rec \in [Engine -> Records] /\ grp \in [Pid -> Groups]
    <3> DEFINE one == [NoRec EXCEPT !.pid = p, !.ready = TRUE]
    <3>1. one \in Records
      BY DEF Records, NoRec
    <3> HIDE DEF one
    <3>2. rec = [[x \in Engine |-> NoRec] EXCEPT ![e] = one]
      BY <2>2 DEF one
    <3>3. [Free EXCEPT !.eng = e, !.life = "serving", !.fd = TRUE] \in Groups
      BY DEF Free, Groups
    <3> QED
      BY <2>2, <3>1, <3>2, <3>3, Shapes
  <2> QED
    BY <2>1, <2>2 DEF Init
<1>2. Rest \in Ops
  BY Shapes
<1> QED
  BY <1>1, <1>2 DEF Init, TypeOK

\* The types the card's steps change: records, operation, groups.
LEMMA StepTypes == TypeOK /\ OpInv /\ [Next]_vars => TypeOK'
<1> SUFFICES ASSUME TypeOK, OpInv, [Next]_vars PROVE TypeOK'
  OBVIOUS
<1>1. /\ rec \in [Engine -> Records] /\ op \in Ops /\ grp \in [Pid -> Groups]
      /\ unloaded \in BOOLEAN /\ dfd \in BOOLEAN /\ ousted \in BOOLEAN
      /\ qwen \in {"off", "starting", "up"}
  BY DEF TypeOK
<1>2. /\ op.pc \in Points /\ op.then \in Stops \cap Points /\ op.todo \in SUBSET Engine
      /\ \A pc \in Points : [op EXCEPT !.pc = pc] \in Ops
  BY <1>1 DEF Ops, Points
<1>3. /\ unloaded' \in BOOLEAN /\ dfd' \in BOOLEAN /\ ousted' \in BOOLEAN
      /\ qwen' \in {"off", "starting", "up"}
  <2>1. unloaded' \in {unloaded, TRUE, FALSE} /\ (dfd' \in {dfd, TRUE, FALSE} \/ LetGoIfIdle)
    BY DEF Next, Serve, Acquire, AcquireDead, AcquireOwn, AcquireNew, Request, Release,
       ReleaseEverything, QwenUnload, QwenRestore, DispatcherStep, StopNext, StopGone, StopKill,
       StopForget, AcquireFailed, AcquireAgain, AcquireLook, AcquireTake, AcquireRecord,
       ReleaseEnds, QwenStopped, QwenStart, QwenForget, Crash, Restart, Reboot, Machine,
       ScriptExecs, EngineGrows, EngineEnds, LeaderEnds, QwenMoves,
       vars, store, world
  <2>2. /\ ousted' \in {ousted, TRUE, FALSE}
        /\ qwen' \in {qwen, "off", "starting", "up"}
    BY DEF Next, Serve, Acquire, AcquireDead, AcquireOwn, AcquireNew, Request, Release,
       ReleaseEverything, QwenUnload, QwenRestore, DispatcherStep, StopNext, StopGone, StopKill,
       StopForget, AcquireFailed, AcquireAgain, AcquireLook, AcquireTake, AcquireRecord,
       ReleaseEnds, QwenStopped, QwenStart, QwenForget, Crash, Restart, Reboot, Machine,
       ScriptExecs, EngineGrows, EngineEnds, LeaderEnds, QwenMoves,
       vars, store, world
  <2>3. dfd' \in BOOLEAN
    BY <1>1, <2>1 DEF LetGoIfIdle
  <2> QED
    BY <1>1, <2>1, <2>2, <2>3
<1>4. ASSUME NEW e \in Engine, Alive(e) \/ Orphaned(e)
      PROVE  rec[e].pid \in Pid
  BY <1>1, <1>4 DEF Alive, Leading, Orphaned, Recorded, Records, NoRec
<1>5. \A p \in Pid, sig \in {"term", "kill"} : Signalled(p, sig) \in [Pid -> Groups]
  BY <1>1 DEF Signalled, Groups
<1>5a. \A S : Missing(S) \in [Pid -> Groups]
  BY <1>1 DEF Missing, Groups
<1>6. CASE StopNext
  <2>1. rec' = rec
    BY <1>6 DEF StopNext, store
  <2>2. ASSUME NEW e \in op.todo, Alive(e) \/ Orphaned(e), grp' = Signalled(rec[e].pid, "term"),
               op' = [op EXCEPT !.pc = "wait", !.cur = e, !.pid = rec[e].pid]
        PROVE  op' \in Ops /\ grp' \in [Pid -> Groups]
    BY <1>1, <1>2, <1>4, <1>5, <2>2 DEF Ops, Points
  <2>3. ASSUME NEW e \in op.todo, op' = [op EXCEPT !.pc = "forget", !.cur = e], grp' = Missing({e})
        PROVE  op' \in Ops /\ grp' \in [Pid -> Groups]
    BY <1>1, <1>2, <1>5a, <2>3 DEF Ops, Points
  <2>4. ASSUME Goto(op.then), UNCHANGED grp
        PROVE  op' \in Ops /\ grp' \in [Pid -> Groups]
    BY <1>1, <1>2, <2>4 DEF Goto
  <2> QED
    BY <1>1, <1>3, <1>6, <2>1, <2>2, <2>3, <2>4 DEF StopNext, TypeOK
<1>7. CASE StopGone \/ StopKill \/ StopForget
  <2>1. op' \in Ops
    <3>1. CASE StopForget
      BY <1>1, <1>2, <3>1 DEF StopForget, Points, Ops
    <3>2. CASE StopGone \/ StopKill
      BY <1>2, <3>2 DEF StopGone, StopKill, Goto, Points
    <3> QED
      BY <1>7, <3>1, <3>2
  <2>2. grp' \in [Pid -> Groups]
    BY <1>1, <1>5, <1>7 DEF StopGone, StopKill, StopForget, world, OpInv
  <2>3. rec' \in [Engine -> Records]
    BY <1>1, <1>7, Shapes DEF StopGone, StopKill, StopForget, store
  <2> QED
    BY <1>3, <2>1, <2>2, <2>3 DEF TypeOK
<1>8. ASSUME NEW e \in Engine, NEW c \in Client, Acquire(e, c)
      PROVE  TypeOK'
  <2>1. op' = op \/ op' \in Ops
    <3>1. CASE AcquireDead(e, c)
      <4>1. (IF rec[e].ready THEN "again" ELSE "failed") \in Stops
        BY DEF Stops
      <4> QED
        BY <3>1, <4>1, StopShapes DEF AcquireDead
    <3>2. CASE AcquireOwn(e, c)
      <4>1. \/ op' = op
            \/ op' = [Rest EXCEPT !.pc = "stop", !.eng = e, !.client = c, !.todo = {e},
                                  !.then = "failed"]
        BY <3>2 DEF AcquireOwn
      <4>2. [Rest EXCEPT !.pc = "stop", !.eng = e, !.client = c, !.todo = {e},
                         !.then = "failed"] \in Ops
        BY DEF Rest, Ops, Points, Stops
      <4> QED
        BY <4>1, <4>2
    <3>3. CASE AcquireNew(e, c)
      BY <3>3, Shapes DEF AcquireNew, Request
    <3> QED
      BY <1>8, <3>1, <3>2, <3>3 DEF Acquire
  <2>2. rec' \in [Engine -> Records]
    <3>1. CASE AcquireOwn(e, c)
      <4>1. [rec[e] EXCEPT !.owner = c] \in Records /\ [rec[e] EXCEPT !.owner = c, !.ready = TRUE] \in Records
        BY <1>1, <3>1 DEF AcquireOwn, Alive, Leading, Recorded, Records
      <4>2. \/ rec' = [rec EXCEPT ![e] = [rec[e] EXCEPT !.owner = c]]
            \/ rec' = [rec EXCEPT ![e] = [rec[e] EXCEPT !.owner = c, !.ready = TRUE]]
        BY <1>1, <3>1 DEF AcquireOwn
      <4> QED
        BY <1>1, <4>1, <4>2
    <3>2. CASE ~AcquireOwn(e, c)
      BY <1>1, <1>8, <3>2 DEF Acquire, AcquireDead, AcquireNew, store
    <3> QED
      BY <3>1, <3>2
  <2>3. grp' \in [Pid -> Groups]
    BY <1>1, <1>5a, <1>8 DEF Acquire, AcquireDead, AcquireOwn, AcquireNew, world
  <2> QED
    BY <1>1, <1>3, <2>1, <2>2, <2>3 DEF TypeOK
<1>9. CASE AcquireFailed \/ AcquireAgain \/ AcquireLook \/ ReleaseEnds \/ QwenStopped \/ QwenStart
           \/ QwenForget
  <2>1. rec' = rec /\ grp' \in [Pid -> Groups]
    BY <1>1, <1>5a, <1>9 DEF AcquireFailed, AcquireAgain, AcquireLook, ReleaseEnds, QwenStopped, QwenStart,
                QwenForget, store, world
  <2>2. StopThen(Own, "take") \in Ops
    BY <1>1 DEF StopThen, Ops, Points, Stops, Own
  <2>3. op' \in Ops
    <3>1. "look" \in Points /\ "clear" \in Points
      BY DEF Points
    <3> QED
      BY <1>2, <1>9, <2>2, <3>1, Shapes
      DEF AcquireFailed, AcquireAgain, AcquireLook, ReleaseEnds, QwenStopped, QwenStart,
          QwenForget, Done, Goto
  <2> QED
    BY <1>1, <1>3, <2>1, <2>3 DEF TypeOK
<1>10. CASE AcquireTake
  <2>1. rec' = rec
    BY <1>10 DEF AcquireTake, store
  <2>2. CASE Done /\ UNCHANGED grp
    BY <1>1, <1>3, <2>1, <2>2, Shapes DEF Done, TypeOK
  <2>3. ASSUME NEW p \in Pid, op' = [op EXCEPT !.pc = "record", !.pid = p],
               grp' = [grp EXCEPT ![p] = Spawned(op.eng)]
        PROVE  TypeOK'
    <3>1. op.eng \in Engine
      BY <1>10 DEF AcquireTake, At, OpInv, Starting
    <3>2. op' \in Ops
      BY <1>1, <2>3 DEF Ops, Points
    <3>3. grp' \in [Pid -> Groups]
      BY <1>1, <2>3, <3>1, Shapes
    <3> QED
      BY <1>1, <1>3, <2>1, <3>2, <3>3 DEF TypeOK
  <2> QED
    BY <1>10, <2>2, <2>3 DEF AcquireTake
<1>11. CASE AcquireRecord
  <2>1. [pid |-> op.pid, owner |-> op.client, ready |-> FALSE] \in Records
    BY <1>11 DEF AcquireRecord, OpInv, At, Starting, Records
  <2> QED
    BY <1>1, <1>3, <1>11, <2>1, Shapes DEF AcquireRecord, Done, world, TypeOK
<1>12. CASE (\E c \in Client : Release(c)) \/ ReleaseEverything \/ QwenUnload \/ QwenRestore
  <2>1. UNCHANGED <<rec, grp>>
    BY <1>12 DEF Release, ReleaseEverything, QwenUnload, QwenRestore, store, world
  <2>2. op' \in Ops
    <3> DEFINE owned(c) == {e \in Engine : Recorded(e) /\ rec[e].owner = c}
    <3>1. "free" \in Stops /\ "freeall" \in Stops /\ "restore" \in Stops
      BY DEF Stops
    <3>2. {e \in Engine : Recorded(e)} \in SUBSET Engine /\ \A c : owned(c) \in SUBSET Engine
      OBVIOUS
    <3>3. ASSUME NEW c \in Client, Release(c) PROVE op' \in Ops
      <4>1. PICK S \in SUBSET Engine :
              op' = [Rest EXCEPT !.pc = "stop", !.client = c, !.then = "free", !.todo = S]
        BY <3>2, <3>3 DEF Release
      <4> QED
        BY <3>3, <4>1 DEF Rest, Ops, Points, Stops
    <3>4. CASE ReleaseEverything \/ QwenRestore
      <4>1. PICK S \in SUBSET Engine, t \in {"freeall", "restore"} :
              op' = op \/ op' = [Rest EXCEPT !.pc = "stop", !.then = t, !.todo = S]
        BY <3>2, <3>4 DEF ReleaseEverything, QwenRestore
      <4> QED
        BY <1>1, <4>1 DEF Rest, Ops, Points, Stops
    <3>5. CASE QwenUnload
      BY <3>5, Shapes DEF QwenUnload
    <3> QED
      BY <1>12, <3>3, <3>4, <3>5
  <2> QED
    BY <1>1, <1>3, <2>1, <2>2 DEF TypeOK
<1>13. CASE Crash \/ Restart \/ Reboot
  <2>1. rec' = rec /\ grp' \in [Pid -> Groups]
    <3>1. CASE Restart \/ Reboot
      BY <1>1, <3>1, Shapes DEF Restart, Reboot, store, world
    <3>2. CASE Crash
      <4>1. \A p \in Pid : [grp[p] EXCEPT !.stray = TRUE] \in Groups
        BY <1>1 DEF Groups
      <4> QED
        BY <1>1, <3>2, <4>1 DEF Crash, store
    <3> QED
      BY <1>13, <3>1, <3>2
  <2>2. op' \in Ops
    BY <1>13, Shapes DEF Crash, Restart, Reboot, Done
  <2> QED
    BY <1>1, <1>3, <2>1, <2>2 DEF TypeOK
<1>14. CASE Machine
  <2>1. UNCHANGED <<rec, op>>
    BY <1>14 DEF Machine, ScriptExecs, EngineGrows, EngineEnds, LeaderEnds, QwenMoves, store
  <2>2. ASSUME NEW p \in Pid, ScriptExecs(p) \/ EngineGrows(p) \/ EngineEnds(p)
        PROVE  grp' \in [Pid -> Groups]
    <3>1. [grp[p] EXCEPT !.life = "serving"] \in Groups /\ [grp[p] EXCEPT !.life = "booting"] \in Groups
      BY <1>1 DEF Groups
    <3> QED
      BY <1>1, <2>2, <3>1, Shapes DEF ScriptExecs, EngineGrows, EngineEnds
  <2>3. ASSUME NEW p \in Pid, LeaderEnds(p)
        PROVE  grp' \in [Pid -> Groups]
    <3>1. PICK m \in BOOLEAN, f \in BOOLEAN :
             grp' = [grp EXCEPT ![p] = [Free EXCEPT !.eng = grp[p].eng, !.life = "orphan",
                                        !.marked = m, !.fd = f]]
      BY <2>3 DEF LeaderEnds
    <3>2. [Free EXCEPT !.eng = grp[p].eng, !.life = "orphan", !.marked = m, !.fd = f] \in Groups
      BY <1>1 DEF Free, Groups
    <3> QED
      BY <1>1, <3>1, <3>2
  <2> QED
    BY <1>1, <1>3, <1>14, <2>1, <2>2, <2>3 DEF Machine, QwenMoves, TypeOK
<1> QED
  BY <1>1, <1>3, <1>6, <1>7, <1>8, <1>9, <1>10, <1>11, <1>12, <1>13, <1>14
  DEF Next, Serve, DispatcherStep, TypeOK, vars, store, world
-----------------------------------------------------------------------------
(* The card.                                                               *)

\* The step names the same groups, starts none, and takes back a SIGKILL only from a
\* group that a record names.
Fades ==
    /\ rec' = rec \/ At("idle")
    /\ \A e \in Engine : Recorded(e)' = Recorded(e) /\ rec'[e].pid = rec[e].pid
    /\ \A p \in Pid :
         /\ grp'[p].life # "free" => grp[p].life # "free" /\ grp'[p].eng = grp[p].eng
         /\ Leads(p)' => /\ Leads(p) /\ grp'[p].fd = grp[p].fd
                         /\ grp[p].missed => grp'[p].missed
                         /\ grp[p].stray => grp'[p].stray
                         /\ grp[p].hurt = "kill" => \/ grp'[p].hurt = "kill" \/ grp'[p].missed
                                                    \/ At("stop") /\ Named(p)

Spawn(p) ==
    /\ grp[p].life = "free"
    /\ grp' = [grp EXCEPT ![p] = Spawned(op.eng)]
    /\ op' = [op EXCEPT !.pc = "record", !.pid = p]

\* A record that names a group names a number.
LEMMA RecPid ==
    ASSUME TypeOK, NEW e \in Engine, Recorded(e)
    PROVE  rec[e].pid \in Pid
  BY DEF TypeOK, Recorded, Records

\* A step that only takes away brings nobody onto the card.
LEMMA FadesKeeps ==
    ASSUME TypeOK, Fades
    PROVE  /\ \A e \in Engine : Ours(e)' => Ours(e)
           /\ \A p \in Pid : Live(p)' => Live(p) /\ (Named(p) => Named(p)')
           /\ Holds => Holds'
           /\ Alone => Alone'
<1>1. ASSUME NEW e \in Engine, Ours(e)'
      PROVE  Ours(e)
  <2>1. Recorded(e) /\ rec'[e].pid = rec[e].pid
    BY <1>1 DEF Fades, Ours, Leading
  <2>2. rec[e].pid \in Pid
    BY <1>1, <2>1, RecPid
  <2> QED
    BY <1>1, <2>1, <2>2 DEF Fades, Ours, Leading, Leads
<1>2. ASSUME NEW e \in Engine, Ours(e), Leads(rec[e].pid)', ~grp'[rec[e].pid].missed
      PROVE  Ours(e)'
  <2>1. Recorded(e)' /\ rec'[e].pid = rec[e].pid /\ rec[e].pid \in Pid
    BY <1>2, RecPid DEF Fades, Ours, Leading
  <2> QED
    BY <1>2, <2>1 DEF Fades, Ours, Leading, Leads
<1>3. ASSUME NEW p \in Pid, Named(p), Leads(p)', ~grp'[p].missed
      PROVE  Named(p)'
  BY <1>2, <1>3 DEF Named, Fades
<1>4. ASSUME NEW p \in Pid, Named(p)'
      PROVE  Named(p)
  BY <1>1, <1>4 DEF Named, Fades
<1>5. ASSUME NEW p \in Pid, Live(p)'
      PROVE  Live(p)
  BY <1>4, <1>5 DEF Live, Fades
<1>6. Holds => Holds'
  BY DEF Holds, Fades
<1>7. Alone => Alone'
  BY <1>5 DEF Alone
<1>8. \A p \in Pid : Live(p)' => Leads(p)' /\ ~grp'[p].missed
  BY DEF Live
<1> QED
  BY <1>1, <1>3, <1>5, <1>6, <1>7, <1>8

\* Every step but a spawn, its record and a forgetting only takes away.
LEMMA Fading ==
    TypeOK /\ [Next]_vars =>
        Fades \/ StopForget \/ AcquireRecord \/ (AcquireTake /\ \E p \in Pid : Spawn(p))
<1> SUFFICES ASSUME TypeOK, [Next]_vars,
                    ~StopForget, ~AcquireRecord, ~(AcquireTake /\ \E p \in Pid : Spawn(p))
             PROVE  Fades
  OBVIOUS
<1>1. rec \in [Engine -> Records] /\ grp \in [Pid -> Groups]
  BY DEF TypeOK
<1>2. CASE UNCHANGED <<rec, grp>>
  BY <1>2 DEF Fades, Recorded, Leads
<1>3. ASSUME NEW e \in Engine, NEW c \in Client, AcquireOwn(e, c)
      PROVE  Fades
  <2>1. grp' = grp /\ \A x \in Engine : rec'[x].pid = rec[x].pid /\ (x # e => rec'[x] = rec[x])
    BY <1>1, <1>3 DEF AcquireOwn, world, Records, NoRec
  <2>2. Recorded(e)' /\ Recorded(e)
    BY <1>1, <1>3, <2>1, DispatcherAssumption DEF AcquireOwn, Alive, Leading, Recorded, Records, NoRec
  <2>3. At("idle")
    BY <1>3 DEF AcquireOwn
  <2> QED
    BY <2>1, <2>2, <2>3 DEF Fades, Recorded, Leads
<1>4. ASSUME rec' = rec, NEW p \in Pid, NEW g,
             grp' = [grp EXCEPT ![p] = g],
             g.life = "free" \/ (grp[p].life # "free" /\ g.life = "orphan" /\ g.eng = grp[p].eng)
      PROVE  Fades
  <2>1. \A q \in Pid : grp'[q] = IF q = p THEN g ELSE grp[q]
    BY <1>1, <1>4
  <2> QED
    BY <1>4, <2>1 DEF Fades, Recorded, Leads
<1>4a. ASSUME rec' = rec, NEW S, grp' = Missing(S)
       PROVE  Fades
  <2>1. \A q \in Pid : /\ grp'[q].life = grp[q].life /\ grp'[q].eng = grp[q].eng
                       /\ grp'[q].fd = grp[q].fd /\ grp'[q].hurt = grp[q].hurt
                       /\ grp'[q].stray = grp[q].stray
                       /\ grp[q].missed => grp'[q].missed
    BY <1>1, <1>4a DEF Missing, Groups
  <2> QED
    BY <1>4a, <2>1 DEF Fades, Recorded, Leads
<1>5. CASE StopNext
  <2>1. rec' = rec
    BY <1>5 DEF StopNext, store
  <2>2. ASSUME NEW e \in op.todo, Alive(e) \/ Orphaned(e), grp' = Signalled(rec[e].pid, "term")
        PROVE  Fades
    <3>1. e \in Engine
      BY <2>2 DEF TypeOK, Ops
    <3>2. rec[e].pid \in Pid
      BY <2>2, <3>1, RecPid DEF Alive, Leading, Orphaned
    <3>3. Leads(rec[e].pid) => Named(rec[e].pid) \/ grp[rec[e].pid].missed
      BY <2>2, <3>1 DEF Named, Alive, Ours, Orphaned, Leads
    <3>4. CASE Leads(rec[e].pid)
      <4>1. grp' = [grp EXCEPT ![rec[e].pid].hurt = "term"]
        BY <2>2, <3>4 DEF Signalled
      <4>2. \A q \in Pid : /\ grp'[q].life = grp[q].life /\ grp'[q].eng = grp[q].eng
                           /\ grp'[q].fd = grp[q].fd /\ grp'[q].missed = grp[q].missed
                           /\ grp'[q].stray = grp[q].stray
                           /\ q # rec[e].pid => grp'[q].hurt = grp[q].hurt
        BY <1>1, <3>2, <4>1 DEF Groups
      <4>3. At("stop")
        BY <1>5 DEF StopNext
      <4> QED
        BY <2>1, <3>3, <3>4, <4>2, <4>3 DEF Fades, Recorded, Leads
    <3>5. CASE ~Leads(rec[e].pid)
      BY <1>2, <2>1, <2>2, <3>5 DEF Signalled
    <3> QED
      BY <3>4, <3>5
  <2> QED
    BY <1>2, <1>4a, <1>5, <2>1, <2>2 DEF StopNext
<1>6. CASE StopKill
  <2>1. rec' = rec /\ grp' = Signalled(op.pid, "kill")
    BY <1>6 DEF StopKill, store
  <2> QED
    BY <1>1, <2>1 DEF Signalled, Fades, Recorded, Leads, Groups
<1>7. CASE Machine
  <2>1. rec' = rec
    BY <1>7 DEF Machine, ScriptExecs, EngineGrows, EngineEnds, LeaderEnds, QwenMoves, store
  <2>2. ASSUME NEW p \in Pid, ScriptExecs(p) \/ EngineGrows(p) PROVE Fades
    <3>1. /\ grp[p].life \in {"script", "booting"}
          /\ \A q \in Pid :
               \/ grp'[q].life = grp[q].life
               \/ q = p /\ grp'[q].life \in {"booting", "serving"}
          /\ \A q \in Pid :
               /\ grp'[q].eng = grp[q].eng /\ grp'[q].fd = grp[q].fd
               /\ grp'[q].hurt = grp[q].hurt /\ grp'[q].stray = grp[q].stray
               /\ grp'[q].missed = grp[q].missed
      BY <1>1, <2>2 DEF ScriptExecs, EngineGrows, Groups
    <3> QED
      BY <2>1, <3>1 DEF Fades, Recorded, Leads
  <2>3. ASSUME NEW p \in Pid, EngineEnds(p) PROVE Fades
    <3>1. Free.life = "free" /\ \A q \in Pid : grp'[q] = IF q = p THEN Free ELSE grp[q]
      BY <1>1, <2>3 DEF EngineEnds, Free
    <3> QED
      BY <2>1, <3>1 DEF Fades, Recorded, Leads
  <2>4. ASSUME NEW p \in Pid, LeaderEnds(p) PROVE Fades
    <3>1. PICK m \in BOOLEAN, f \in BOOLEAN :
             grp' = [grp EXCEPT ![p] = [Free EXCEPT !.eng = grp[p].eng, !.life = "orphan",
                                        !.marked = m, !.fd = f]]
      BY <2>4 DEF LeaderEnds
    <3>2. [Free EXCEPT !.eng = grp[p].eng, !.life = "orphan", !.marked = m, !.fd = f].life = "orphan"
      BY DEF Free
    <3>3. [Free EXCEPT !.eng = grp[p].eng, !.life = "orphan", !.marked = m, !.fd = f].eng = grp[p].eng
      BY DEF Free
    <3>4. grp[p].life # "free"
      BY <2>4 DEF LeaderEnds
    <3> QED
      BY <1>4, <2>1, <2>4, <3>1, <3>2, <3>3, <3>4
  <2> QED
    BY <1>2, <1>7, <2>1, <2>2, <2>3, <2>4 DEF Machine, QwenMoves
<1>8. CASE Reboot
  BY <1>1, <1>8 DEF Reboot, store, Fades, Recorded, Leads, Free
<1>9. CASE AcquireTake
  BY <1>2, <1>9 DEF AcquireTake, Spawn, store
<1>9a. CASE AcquireLook \/ Crash
  <2>1. CASE AcquireLook
    BY <1>2, <1>4a, <2>1 DEF AcquireLook, store
  <2>2. CASE Crash
    <3>1. rec' = rec /\ grp' \in {grp, [grp EXCEPT ![op.pid].stray = TRUE]}
      BY <2>2 DEF Crash, store
    <3>2. \A q \in Pid : /\ grp'[q].life = grp[q].life /\ grp'[q].eng = grp[q].eng
                         /\ grp'[q].fd = grp[q].fd /\ grp'[q].hurt = grp[q].hurt
                         /\ grp'[q].missed = grp[q].missed
                         /\ grp[q].stray => grp'[q].stray
      BY <1>1, <3>1 DEF Groups
    <3> QED
      BY <3>1, <3>2 DEF Fades, Recorded, Leads
  <2> QED
    BY <1>9a, <2>1, <2>2
<1>10. CASE Serve
  BY <1>2, <1>3, <1>4a, <1>10 DEF Serve, Acquire, AcquireDead, AcquireNew, Release, ReleaseEverything,
     QwenUnload, QwenRestore, store, world
<1>11. CASE \/ StopGone \/ AcquireFailed \/ AcquireAgain \/ ReleaseEnds
            \/ QwenStopped \/ QwenStart \/ QwenForget \/ Restart \/ UNCHANGED vars
  BY <1>2, <1>11 DEF StopGone, AcquireFailed, AcquireAgain, ReleaseEnds, QwenStopped,
     QwenStart, QwenForget, Restart, vars, store, world
<1> QED
  BY <1>5, <1>6, <1>7, <1>8, <1>9, <1>9a, <1>10, <1>11 DEF Next, DispatcherStep

\* Points at which nothing is being stopped and nothing started.
Aside == {"idle", "down", "failed", "again", "free", "freeall", "restore", "unload", "clear"}

\* What every kind of step does to the operation.
LEMMA OpMoves ==
    TypeOK /\ [Next]_vars =>
        \/ op' = op
        \/ op'.pc \in Aside \ {"again"}
        \/ StopNext \/ StopGone \/ StopKill \/ StopForget
        \/ AcquireAgain \/ AcquireLook \/ (AcquireTake /\ \E p \in Pid : Spawn(p))
        \/ \E e \in Engine, c \in Client : Acquire(e, c)
        \/ (\E c \in Client : Release(c)) \/ ReleaseEverything \/ QwenRestore
<1> SUFFICES ASSUME TypeOK, [Next]_vars, op' # op, op'.pc \notin Aside \ {"again"}
             PROVE  \/ StopNext \/ StopGone \/ StopKill \/ StopForget
                    \/ AcquireAgain \/ AcquireLook \/ (AcquireTake /\ \E p \in Pid : Spawn(p))
                    \/ \E e \in Engine, c \in Client : Acquire(e, c)
                    \/ (\E c \in Client : Release(c)) \/ ReleaseEverything \/ QwenRestore
  OBVIOUS
<1>1. /\ Rest.pc = "idle" /\ [Rest EXCEPT !.pc = "down"].pc = "down"
      /\ [Rest EXCEPT !.pc = "unload"].pc = "unload" /\ [op EXCEPT !.pc = "clear"].pc = "clear"
  BY DEF Rest, TypeOK, Ops
<1>2. ~Machine /\ ~UNCHANGED vars
  BY DEF Machine, ScriptExecs, EngineGrows, EngineEnds, LeaderEnds, QwenMoves, vars
<1>3. ~Crash /\ ~Restart /\ ~Reboot /\ ~QwenUnload /\ ~QwenStopped /\ ~QwenStart /\ ~QwenForget
      /\ ~AcquireFailed /\ ~AcquireRecord /\ ~ReleaseEnds
  BY <1>1 DEF Crash, Restart, Reboot, Done, Goto, QwenUnload, QwenStopped, QwenStart, QwenForget,
     AcquireFailed, AcquireRecord, ReleaseEnds, Aside
<1>4. AcquireTake => \E p \in Pid : Spawn(p)
  BY <1>1 DEF AcquireTake, Done, Spawn, Aside
<1> QED
  BY <1>2, <1>3, <1>4 DEF Next, Serve, DispatcherStep

\* A leader that an operation takes for gone is not counted any more.
LEMMA MissedIsNotOurs ==
    ASSUME TypeOK, NEW e \in Engine, NEW S, e \in S, ~Alive(e),
           rec' = rec, grp' = Missing(S)
    PROVE  ~Ours(e)'
<1> SUFFICES ASSUME Ours(e)' PROVE FALSE
  OBVIOUS
<1>1. Recorded(e) /\ rec[e].pid \in Pid /\ grp \in [Pid -> Groups]
  BY RecPid DEF Ours, Leading, Recorded, TypeOK
<1>2. /\ grp'[rec[e].pid].life = grp[rec[e].pid].life
      /\ grp'[rec[e].pid].eng = grp[rec[e].pid].eng
      /\ InScript(e) => grp'[rec[e].pid].missed
  BY <1>1 DEF Missing, Groups
<1> QED
  BY <1>1, <1>2 DEF Ours, Leading, Leads, Alive, Recorded

\* An operation that stops: what it was asked to, and for whom.
LEMMA StopsBegin ==
    ASSUME TypeOK,
           \/ \E e \in Engine, c \in Client : Acquire(e, c)
           \/ (\E c \in Client : Release(c)) \/ ReleaseEverything \/ QwenRestore
    PROVE  \/ op' = op
           \/ op'.pc = "look" /\ op'.eng \in Engine /\ op'.client \in Client
           \/ /\ op'.pc = "stop" /\ op'.then # "take"
              /\ op'.then = "again" => op'.eng \in Engine /\ op'.client \in Client
              /\ \A e \in op'.todo : \/ ~Ours(e)'
                                    \/ rec'[e].owner \in {NoOwner, op'.client}
                                    \/ op'.then \in {"freeall", "restore"}
<1>1. ASSUME NEW e \in Engine, NEW c \in Client, AcquireDead(e, c)
      PROVE  /\ op'.pc = "stop" /\ op'.then \in {"again", "failed"} /\ op'.eng \in Engine
             /\ op'.client \in Client /\ \A x \in op'.todo : ~Ours(x)'
  <2>1. /\ op'.pc = "stop" /\ op'.then \in {"again", "failed"} /\ op'.eng \in Engine
        /\ op'.client \in Client /\ op'.todo = {e}
    BY <1>1 DEF AcquireDead, Rest
  <2>2. ~Ours(e)'
    BY <1>1, MissedIsNotOurs DEF AcquireDead, store
  <2> QED
    BY <2>1, <2>2
<1>2. ASSUME NEW e \in Engine, NEW c \in Client, AcquireOwn(e, c)
      PROVE  \/ op' = op
             \/ /\ op'.pc = "stop" /\ op'.then = "failed"
                /\ \A x \in op'.todo : rec'[x].owner = op'.client
  <2>1. \/ op' = op
        \/ /\ rec' = [rec EXCEPT ![e].owner = c]
           /\ op' = [Rest EXCEPT !.pc = "stop", !.eng = e, !.client = c, !.todo = {e},
                                 !.then = "failed"]
    BY <1>2 DEF AcquireOwn
  <2>2. CASE op' # op
    <3>1. op'.pc = "stop" /\ op'.then = "failed" /\ op'.todo = {e} /\ op'.client = c
      BY <2>1, <2>2 DEF Rest
    <3>2. rec'[e].owner = c
      BY <1>2, <2>1, <2>2 DEF TypeOK, AcquireOwn, Alive, Leading, Recorded, Records, NoRec
    <3> QED
      BY <3>1, <3>2
  <2> QED
    BY <2>2
<1>3. ASSUME NEW e \in Engine, NEW c \in Client, AcquireNew(e, c)
      PROVE  op'.pc = "look" /\ op'.eng \in Engine /\ op'.client \in Client
  BY <1>3 DEF AcquireNew, Request, Rest
<1>4. ASSUME NEW c \in Client, Release(c)
      PROVE  op'.pc = "stop" /\ op'.then = "free" /\ \A x \in op'.todo : rec'[x].owner = op'.client
  BY <1>4 DEF Release, Rest, store
<1>5. CASE ReleaseEverything \/ QwenRestore
  <2>1. PICK S \in SUBSET Engine, t \in {"freeall", "restore"} :
          op' = op \/ op' = [Rest EXCEPT !.pc = "stop", !.then = t, !.todo = S]
    <3>1. {e \in Engine : Recorded(e)} \in SUBSET Engine
      OBVIOUS
    <3> QED
      BY <1>5, <3>1 DEF ReleaseEverything, QwenRestore
  <2> QED
    BY <2>1 DEF Rest
<1> QED
  BY <1>1, <1>2, <1>3, <1>4, <1>5 DEF Acquire

\* When an engine is started, nothing of ours runs and nothing is recorded.
LEMMA StartsAlone ==
    ASSUME TypeOK, CardInv, AcquireTake, NEW p \in Pid, Spawn(p)
    PROVE  /\ \A q \in Pid : ~Live(q) /\ (Live(q)' => q = p)
           /\ \A e \in Engine : Ours(e)' => rec[e].pid = p
           /\ dfd' = TRUE
<1>1. op.pc = "take" /\ rec' = rec /\ (dfd \/ LockFree) /\ dfd' = TRUE
  <2>1. op'.pc = "record" /\ Rest.pc = "idle"
    BY DEF Spawn, Rest, TypeOK, Ops
  <2> QED
    BY <2>1 DEF AcquireTake, At, store, Done
<1>2. \A e \in Engine : ~Ours(e)
  BY <1>1 DEF CardInv, Cleared, At
<1>3. \A q \in Pid : ~Live(q)
  <2>1. CASE dfd
    BY <1>1, <1>2, <2>1 DEF CardInv, Known, Named, At
  <2>2. CASE LockFree
    BY <2>2 DEF CardInv, Holds, LockFree, Live, Leads
  <2> QED
    BY <1>1, <2>1, <2>2
<1>4. \A q \in Pid : q # p => grp'[q] = grp[q]
  BY DEF Spawn, TypeOK
<1>5. ASSUME NEW e \in Engine, Ours(e)'
      PROVE  rec[e].pid = p
  <2>1. Recorded(e) /\ rec[e].pid \in Pid
    BY <1>1, <1>5, RecPid DEF Ours, Leading, Recorded
  <2> QED
    BY <1>1, <1>2, <1>4, <1>5, <2>1 DEF Ours, Leading, Leads
<1>6. ASSUME NEW q \in Pid, Live(q)'
      PROVE  q = p
  BY <1>1, <1>3, <1>4, <1>5, <1>6 DEF Live, Named, Leads
<1> QED
  BY <1>1, <1>3, <1>5, <1>6

\* Every step keeps where the operation is and what it still has to do.
LEMMA StepOp == TypeOK /\ CardInv /\ [Next]_vars => OpInv' /\ Cleared' /\ Asked'
<1> SUFFICES ASSUME TypeOK, CardInv, [Next]_vars PROVE OpInv' /\ Cleared' /\ Asked'
  OBVIOUS
<1> USE DEF Stopping, Starting
<1>1. op \in Ops /\ op.todo \subseteq Engine /\ op.then \in Stops
  BY DEF TypeOK, Ops
<1>2. /\ OpInv /\ Cleared /\ Asked
  BY DEF CardInv
<1>3. CASE StopForget
  <2>1. /\ op.pc = "forget" /\ op' = [op EXCEPT !.pc = "stop", !.todo = @ \ {op.cur}, !.cur = NoEngine, !.pid = NoPid]
        /\ rec' = [rec EXCEPT ![op.cur] = NoRec] /\ grp' = grp
    BY <1>3 DEF StopForget, At, world
  <2>2. /\ op'.pc = "stop" /\ op'.todo = op.todo \ {op.cur} /\ op'.then = op.then
        /\ op'.eng = op.eng /\ op'.client = op.client
    BY <1>1, <2>1 DEF Ops
  <2>3. \A e \in Engine : e # op.cur => rec'[e] = rec[e]
    BY <2>1 DEF TypeOK
  <2>4. \A e \in Engine : e # op.cur => Ours(e)' = Ours(e)
    BY <2>1, <2>3 DEF Ours, Leading, Recorded, Leads
  <2>5. \A e \in Engine : e = op.cur => ~Ours(e)'
    BY <2>1 DEF Ours, Leading, Recorded, TypeOK
  <2>6. Asked'
    <3>1. ASSUME NEW e \in op'.todo, Ours(e)', op.then \notin {"freeall", "restore"}
          PROVE  Mine(e, op.client)'
      BY <1>1, <1>2, <2>1, <2>2, <2>3, <2>4, <3>1 DEF Asked, Mine
    <3> QED
      BY <2>2, <3>1 DEF Asked, Mine
  <2>7. Cleared'
    BY <1>1, <1>2, <2>1, <2>2, <2>4, <2>5 DEF Cleared, At
  <2>8. OpInv'
    BY <1>2, <2>1, <2>2 DEF OpInv, At
  <2> QED
    BY <2>6, <2>7, <2>8
<1>4. CASE AcquireRecord
  <2>1. op'.pc = "idle"
    BY <1>4 DEF AcquireRecord, Done, Rest
  <2> QED
    BY <2>1 DEF OpInv, Cleared, Asked, At
<1>5. ASSUME AcquireTake, NEW p \in Pid, Spawn(p)
      PROVE  OpInv' /\ Cleared' /\ Asked'
  <2>1. op.pc = "take" /\ rec' = rec
    BY <1>5 DEF AcquireTake, At, store
  <2>2. op'.pc = "record" /\ op'.pid = p /\ op'.eng = op.eng /\ op'.client = op.client
    BY <1>1, <1>5 DEF Spawn, Ops
  <2>3. \A q \in Pid : Live(q)' => q = p
    BY <1>5, StartsAlone
  <2> QED
    BY <1>2, <1>5, <2>1, <2>2, <2>3 DEF OpInv, Cleared, Asked, At, Spawn, Spawned, Free, TypeOK
<1>6. CASE Fades
  <2>1. /\ \A e \in Engine : Ours(e)' => Ours(e)
        /\ \A p \in Pid : Live(p)' => Live(p)
    BY <1>6, FadesKeeps
  <2>2. CASE op' = op
    <3>1. At("forget")' /\ Ours(op.cur)' => (grp[rec[op.cur].pid].hurt = "kill")'
      <4>1. CASE At("forget") /\ Ours(op.cur)'
        <5>1. op.cur \in Engine
          BY <1>1, <1>2, <4>1 DEF OpInv, At
        <5>2. Ours(op.cur) /\ grp[rec[op.cur].pid].hurt = "kill" /\ rec' = rec
          BY <1>2, <1>6, <2>1, <2>2, <4>1, <5>1 DEF OpInv, Fades, At
        <5>3. /\ rec[op.cur].pid \in Pid /\ Leads(rec[op.cur].pid)'
              /\ ~grp'[rec[op.cur].pid].missed
          BY <2>2, <4>1, <5>1, <5>2, RecPid DEF Ours, Leading
        <5> QED
          BY <1>6, <2>2, <4>1, <5>2, <5>3 DEF Fades, At
      <4> QED
        BY <2>2, <4>1 DEF At
    <3>2. At("wait")' => /\ op'.pid \in Pid /\ rec'[op'.cur].pid = op'.pid /\ Recorded(op.cur)'
                         /\ grp'[op'.pid].life # "free" => grp'[op'.pid].eng = op'.cur
      <4>1. CASE At("wait")
        <5>1. op.cur \in Engine
          BY <1>1, <1>2, <4>1 DEF OpInv, At
        <5> QED
          BY <1>2, <1>6, <2>2, <4>1, <5>1 DEF OpInv, Fades
      <4> QED
        BY <2>2, <4>1 DEF At
    <3>3. At("record")' => /\ op'.pid \in Pid
                           /\ Leads(op.pid)' => grp'[op'.pid].eng = op'.eng
                           /\ \A p \in Pid : Live(p)' => p = op'.pid
      BY <1>2, <1>6, <2>1, <2>2 DEF OpInv, At, Fades, Leads
    <3>4. OpInv'
      BY <1>2, <2>2, <3>1, <3>2, <3>3 DEF OpInv, At
    <3>5. Cleared'
      BY <1>2, <2>1, <2>2 DEF Cleared, At
    <3>6. Asked'
      BY <1>1, <1>2, <1>6, <2>1, <2>2 DEF Asked, Mine, Fades, At
    <3> QED
      BY <3>4, <3>5, <3>6
  <2>3. CASE op'.pc \in Aside \ {"again"}
    BY <2>3 DEF OpInv, Cleared, Asked, At, Aside
  <2>4. CASE StopNext
    <3>1. /\ rec' = rec /\ op.pc = "stop"
      BY <2>4 DEF StopNext, At, store
    <3>2. CASE op.todo = {} /\ Goto(op.then)
      <4>1. op'.pc = op.then /\ op'.eng = op.eng /\ op'.client = op.client
        BY <1>1, <3>2 DEF Goto, Ops
      <4>2. op.then = "take" => \A e \in Engine : ~Ours(e)'
        BY <1>2, <2>1, <3>1, <3>2 DEF Cleared
      <4> QED
        BY <1>1, <1>2, <3>1, <4>1, <4>2 DEF OpInv, Cleared, Asked, At, Stops
    <3>3. ASSUME NEW e \in op.todo, op' = [op EXCEPT !.pc = "wait", !.cur = e, !.pid = rec[e].pid],
                 Alive(e) \/ Orphaned(e)
          PROVE  OpInv' /\ Cleared' /\ Asked'
      <4>1. /\ op'.pc = "wait" /\ op'.cur = e /\ op'.pid = rec[e].pid /\ op'.todo = op.todo
            /\ op'.then = op.then /\ op'.eng = op.eng /\ op'.client = op.client
        BY <1>1, <3>3 DEF Ops
      <4>2. Recorded(e) /\ rec[e].pid \in Pid /\ grp[rec[e].pid].eng = e
        BY <1>1, <3>3, RecPid DEF Alive, Leading, Orphaned
      <4>3. OpInv'
        BY <1>2, <1>6, <3>1, <3>3, <4>1, <4>2 DEF OpInv, At, Fades, Recorded
      <4>4. Cleared' /\ Asked'
        BY <1>1, <1>2, <2>1, <3>1, <4>1 DEF Cleared, Asked, At, Mine
      <4> QED
        BY <4>3, <4>4
    <3>4. ASSUME NEW e \in op.todo, op' = [op EXCEPT !.pc = "forget", !.cur = e], ~Alive(e),
                 grp' = Missing({e})
          PROVE  OpInv' /\ Cleared' /\ Asked'
      <4>1. /\ op'.pc = "forget" /\ op'.cur = e /\ op'.todo = op.todo
            /\ op'.then = op.then /\ op'.eng = op.eng /\ op'.client = op.client
        BY <1>1, <3>4 DEF Ops
      <4>2. ~Ours(e)'
        BY <1>1, <3>1, <3>4, MissedIsNotOurs
      <4>3. ~Ours(op.cur)'
        BY <4>1, <4>2 DEF Ours, Leading, Recorded
      <4>4. OpInv'
        BY <1>2, <3>1, <3>4, <4>1, <4>3 DEF OpInv, At
      <4>5. Cleared' /\ Asked'
        BY <1>1, <1>2, <2>1, <3>1, <4>1 DEF Cleared, Asked, At, Mine
      <4> QED
        BY <4>4, <4>5
    <3> QED
      BY <2>4, <3>2, <3>3, <3>4 DEF StopNext
  <2>5. CASE StopGone \/ StopKill
    <3>1. /\ rec' = rec /\ op.pc = "wait" /\ op' = [op EXCEPT !.pc = "forget"]
      BY <2>5 DEF StopGone, StopKill, At, store, Goto
    <3>2. /\ op'.pc = "forget" /\ op'.cur = op.cur /\ op'.todo = op.todo
          /\ op'.then = op.then /\ op'.eng = op.eng /\ op'.client = op.client
      BY <1>1, <3>1 DEF Ops
    <3>3. op.pid \in Pid /\ rec[op.cur].pid = op.pid
      BY <1>2, <3>1 DEF OpInv, At
    <3>4. grp'[op.pid].life \in {"script", "booting", "serving"} => grp'[op.pid].hurt = "kill"
      BY <2>5, <3>3 DEF StopGone, StopKill, Signalled, Leads, world, TypeOK, Groups
    <3>5. Ours(op.cur)' => (grp[rec[op.cur].pid].hurt = "kill")'
      BY <3>1, <3>2, <3>3, <3>4 DEF Ours, Leading, Leads
    <3>6. OpInv'
      BY <1>2, <3>1, <3>2, <3>5 DEF OpInv, At
    <3>7. Cleared' /\ Asked'
      BY <1>1, <1>2, <2>1, <3>1, <3>2 DEF Cleared, Asked, At, Mine
    <3> QED
      BY <3>6, <3>7
  <2>6. CASE AcquireAgain \/ AcquireLook
    <3>1. CASE AcquireAgain
      <4>1. /\ op.pc = "again" /\ op'.pc = "look" /\ op'.eng = op.eng /\ op'.client = op.client
        BY <1>1, <3>1 DEF AcquireAgain, Goto, At, Ops
      <4> QED
        BY <1>2, <4>1 DEF OpInv, Cleared, Asked, At
    <3>2. CASE Done
      BY <3>2 DEF Done, Rest, OpInv, Cleared, Asked, At
    <3>3. CASE AcquireLook /\ ~Done
      <4>1. /\ op.pc = "look" /\ op' = StopThen(Own, "take") /\ rec' = rec
            /\ \A e \in Own : Mine(e, op.client)
            /\ grp' = Missing(Engine)
        BY <3>3 DEF AcquireLook, At, store
      <4>2. /\ op'.pc = "stop" /\ op'.todo = Own /\ op'.then = "take"
            /\ op'.eng = op.eng /\ op'.client = op.client
        BY <1>1, <4>1 DEF Ops, StopThen
      <4>3. \A e \in Engine : Ours(e)' => Alive(e)
        BY <4>1, MissedIsNotOurs
      <4> QED
        BY <1>2, <4>1, <4>2, <4>3 DEF OpInv, Cleared, Asked, At, Own, Mine
    <3> QED
      BY <2>6, <3>1, <3>2, <3>3
  <2>7. CASE op'.pc = "look" /\ op'.eng \in Engine /\ op'.client \in Client
    BY <2>7 DEF OpInv, Cleared, Asked, At
  <2>8. CASE /\ op'.pc = "stop" /\ op'.then # "take"
             /\ op'.then = "again" => op'.eng \in Engine /\ op'.client \in Client
             /\ \A e \in op'.todo : \/ ~Ours(e)'
                                   \/ rec'[e].owner \in {NoOwner, op'.client}
                                   \/ op'.then \in {"freeall", "restore"}
    <3>1. op'.todo \subseteq Engine
      BY StepTypes, <1>2 DEF TypeOK, Ops
    <3> QED
      BY <2>1, <2>8, <3>1 DEF OpInv, Cleared, Asked, At, Mine
  <2>9. CASE \/ \E e \in Engine, c \in Client : Acquire(e, c)
             \/ (\E c \in Client : Release(c)) \/ ReleaseEverything \/ QwenRestore
    BY <2>2, <2>7, <2>8, <2>9, StopsBegin
  <2> QED
    BY <1>3, <1>5, <2>2, <2>3, <2>4, <2>5, <2>6, <2>9, OpMoves
<1> QED
  BY <1>3, <1>4, <1>5, <1>6, Fading

\* Every step keeps who may be on the card.
LEMMA StepCard == TypeOK /\ CardInv /\ [Next]_vars => Holds' /\ Alone' /\ Known'
<1> SUFFICES ASSUME TypeOK, CardInv, [Next]_vars PROVE Holds' /\ Alone' /\ Known'
  OBVIOUS
<1>1. OpInv /\ Holds /\ Alone /\ Known /\ op \in Ops
  BY DEF CardInv, TypeOK
<1>2. CASE StopForget
  <2>1. /\ op.pc = "forget" /\ grp' = grp /\ dfd' = dfd
        /\ \A e \in Engine : e # op.cur => rec'[e] = rec[e]
        /\ \A e \in Engine : e = op.cur => rec'[e] = NoRec
    BY <1>2 DEF StopForget, At, world, TypeOK
  <2>2. \A e \in Engine : Ours(e)' <=> Ours(e) /\ e # op.cur
    BY <2>1 DEF Ours, Leading, Recorded, Leads
  <2>3. \A p \in Pid : Live(p)' => Live(p) /\ (Named(p) => Named(p)')
    <3>1. ASSUME NEW p \in Pid, Live(p)'
          PROVE  Live(p)
      BY <2>1, <2>2, <3>1 DEF Live, Named, Leads
    <3>2. ASSUME NEW p \in Pid, Live(p)', NEW e \in Engine, Ours(e), rec[e].pid = p
          PROVE  Named(p)'
      <4>1. CASE e = op.cur
        <5>1. grp[p].hurt = "kill"
          BY <1>1, <2>1, <3>2, <4>1 DEF OpInv, At
        <5> QED
          BY <2>1, <3>2, <5>1 DEF Live
      <4>2. CASE e # op.cur
        BY <2>1, <2>2, <3>2, <4>2 DEF Named
      <4> QED
        BY <4>1, <4>2
    <3> QED
      BY <3>1, <3>2 DEF Named
  <2> QED
    BY <1>1, <2>1, <2>3 DEF Holds, Alone, Known, Leads, At
<1>3. CASE AcquireRecord
  <2>1. /\ op.pc = "record" /\ grp' = grp /\ op.pid \in Pid /\ op.eng \in Engine
        /\ rec'[op.eng].pid = op.pid /\ rec'[op.eng] # NoRec
        /\ \A e \in Engine : e # op.eng => rec'[e] = rec[e]
    BY <1>1, <1>3, DispatcherAssumption
    DEF AcquireRecord, OpInv, Starting, At, world, TypeOK, NoRec
  <2>2. ASSUME NEW p \in Pid, Live(p)'
        PROVE  p = op.pid /\ Named(p)'
    <3>1. CASE p = op.pid
      <4>1. \A e \in Engine : e = op.eng => Ours(e)' /\ rec'[e].pid = p
        BY <1>1, <2>1, <2>2, <3>1 DEF OpInv, At, Ours, Leading, Recorded, Live, Leads
      <4> QED
        BY <2>1, <3>1, <4>1 DEF Named
    <3>2. CASE p # op.pid
      <4>1. Live(p)
        BY <2>1, <2>2, <3>2 DEF Live, Named, Ours, Leading, Recorded, Leads
      <4> QED
        BY <1>1, <2>1, <3>2, <4>1 DEF OpInv, At
    <3> QED
      BY <3>1, <3>2
  <2> QED
    BY <1>1, <2>1, <2>2 DEF Holds, Alone, Known, Leads
<1>4. ASSUME AcquireTake, NEW p \in Pid, Spawn(p)
      PROVE  Holds' /\ Alone' /\ Known'
  <2>1. \A q \in Pid : Live(q)' => q = p
    BY <1>4, StartsAlone
  <2>2. op'.pc = "record" /\ op'.pid = p
    BY <1>1, <1>4 DEF Spawn, Ops
  <2>3. \A q \in Pid : grp'[q].fd = TRUE \/ grp'[q] = grp[q]
    BY <1>4 DEF Spawn, Spawned, Free, TypeOK
  <2> QED
    BY <1>1, <2>1, <2>2, <2>3 DEF Holds, Alone, Known, Leads, At
<1>5. CASE Fades /\ ~AcquireRecord
  <2>1. /\ \A p \in Pid : Live(p)' => Live(p) /\ (Named(p) => Named(p)')
        /\ Holds' /\ Alone'
    BY <1>1, <1>5, FadesKeeps
  <2>2. \A p \in Pid : Leads(p)' /\ grp[p].stray => grp'[p].stray
    BY <1>5 DEF Fades
  <2>3. CASE AcquireTake
    <3>1. op.pc = "take" /\ (dfd' = dfd \/ dfd \/ LockFree)
      BY <2>3 DEF AcquireTake, At
    <3>2. ASSUME NEW p \in Pid, Live(p)', ~Named(p)'
          PROVE  grp'[p].stray /\ ~dfd'
      <4>1. Live(p) /\ Leads(p)' /\ grp[p].stray /\ ~dfd
        BY <1>1, <2>1, <3>1, <3>2 DEF Known, At, Live
      <4>2. ~LockFree
        BY <1>1, <4>1 DEF Holds, LockFree, Live, Leads
      <4> QED
        BY <2>2, <3>1, <4>1, <4>2
    <3> QED
      BY <2>1, <3>2 DEF Known
  <2>4. CASE ~AcquireTake
    <3>1. ~dfd => ~dfd'
      BY <2>4 DEF Next, Serve, Acquire, AcquireDead, AcquireOwn, AcquireNew, Release,
         ReleaseEverything, QwenUnload, QwenRestore, DispatcherStep, StopNext, StopGone, StopKill,
         StopForget, AcquireFailed, AcquireAgain, AcquireLook, AcquireRecord, ReleaseEnds,
         LetGoIfIdle, QwenStopped, QwenStart, QwenForget, Crash, Restart, Reboot, Machine,
         ScriptExecs, EngineGrows, EngineEnds, LeaderEnds, QwenMoves, vars
    <3>2. At("record") => op' = op \/ Crash \/ Reboot
      BY <1>5, <2>4 DEF At, Next, Serve, Acquire, AcquireDead, AcquireOwn, AcquireNew, Request,
         Release, ReleaseEverything, QwenUnload, QwenRestore, DispatcherStep, StopNext, StopGone,
         StopKill, StopForget, AcquireFailed, AcquireAgain, AcquireLook, ReleaseEnds, QwenStopped,
         QwenStart, QwenForget, Crash, Restart, Machine, ScriptExecs, EngineGrows, EngineEnds,
         LeaderEnds, QwenMoves, vars
    <3>3. Reboot => \A p \in Pid : ~Live(p)'
      BY DEF Reboot, Live, Leads, Free
    <3>4. ASSUME At("record"), Crash
          PROVE  ~dfd' /\ (grp'[op.pid].life # "free" /\ Leads(op.pid) => grp'[op.pid].stray)
      <4>1. op.pid \in Pid /\ op.pc = "record" /\ grp \in [Pid -> Groups]
        BY <1>1, <3>4 DEF OpInv, At, TypeOK
      <4>2. Leads(op.pid) => grp' = [grp EXCEPT ![op.pid].stray = TRUE]
        BY <3>4, <4>1 DEF Crash
      <4> QED
        BY <3>4, <4>1, <4>2 DEF Crash, Groups
    <3>5. ASSUME NEW p \in Pid, Live(p)', ~Named(p)'
          PROVE  (op'.pc = "record" /\ op'.pid = p) \/ (grp'[p].stray /\ ~dfd')
      <4>1. Live(p) /\ ~Named(p) /\ Leads(p)' /\ Leads(p) /\ grp'[p].life # "free"
        BY <2>1, <3>5 DEF Live, Leads
      <4>2. CASE grp[p].stray /\ ~dfd
        BY <2>2, <3>1, <4>1, <4>2
      <4>3. CASE At("record") /\ op.pid = p
        BY <3>2, <3>3, <3>4, <3>5, <4>1, <4>3 DEF At
      <4> QED
        BY <1>1, <4>1, <4>2, <4>3 DEF Known
    <3> QED
      BY <2>1, <3>5 DEF Known, At
  <2> QED
    BY <2>1, <2>3, <2>4
<1> QED
  BY <1>2, <1>3, <1>4, <1>5, Fading
-----------------------------------------------------------------------------
(* Qwen, and the theorems.                                                 *)

LEMMA StepQwen == TypeOK /\ QwenInv /\ [Next]_vars => QwenInv'
<1> SUFFICES ASSUME TypeOK, QwenInv, [Next]_vars PROVE QwenInv'
  OBVIOUS
<1>1. CASE QwenMoves
  BY <1>1 DEF QwenInv, QwenMoves, At, store, TypeOK
<1>2. CASE QwenStopped \/ QwenStart \/ QwenForget \/ Crash \/ Reboot
  <2>1. Rest.pc = "idle" /\ [Rest EXCEPT !.pc = "down"].pc = "down" /\ op \in Ops
        /\ [op EXCEPT !.pc = "clear"].pc = "clear"
    BY DEF Rest, TypeOK, Ops
  <2>2. CASE QwenStopped
    BY <2>1, <2>2 DEF QwenStopped, QwenInv, At, Done, store
  <2>3. CASE QwenStart
    <3>1. op'.pc = "clear" /\ ousted' = FALSE
      BY <2>1, <2>3 DEF QwenStart, Goto
    <3> QED
      BY <3>1 DEF QwenInv, At
  <2>4. CASE QwenForget
    BY <2>1, <2>4 DEF QwenForget, QwenInv, At, Done, world
  <2>5. CASE Crash
    <3>1. op'.pc = "down" /\ unloaded' = unloaded
      BY <2>1, <2>5 DEF Crash, store
    <3>2. UNCHANGED <<qwen, ousted>> \/ (op.pc = "unload" /\ qwen' = "off")
      BY <2>5 DEF Crash
    <3> QED
      BY <3>1, <3>2 DEF QwenInv, At
  <2>6. CASE Reboot
    <3>1. op'.pc = "down" /\ UNCHANGED <<unloaded, ousted>> /\ qwen' = "off"
      BY <2>1, <2>6 DEF Reboot, store
    <3> QED
      BY <3>1 DEF QwenInv, At
  <2> QED
    BY <1>2, <2>2, <2>3, <2>4, <2>5, <2>6
<1>3. CASE QwenUnload \/ QwenRestore
  <2>1. op'.pc # "clear" /\ (op'.pc = "unload" => unloaded') 
    BY <1>3 DEF QwenUnload, QwenRestore, Rest, At
  <2>2. UNCHANGED <<qwen, ousted>>
    BY <1>3 DEF QwenUnload, QwenRestore, world
  <2>3. unloaded' = unloaded \/ qwen = "up" \/ unloaded'
    BY <1>3 DEF QwenUnload, QwenRestore
  <2> QED
    BY <2>1, <2>2, <2>3 DEF QwenInv, At
<1>4. CASE ~(QwenMoves \/ QwenStopped \/ QwenStart \/ QwenForget \/ Crash \/ Reboot \/ QwenUnload
             \/ QwenRestore)
  <2>1. UNCHANGED <<unloaded, qwen, ousted>>
    BY <1>4 DEF Next, Serve, Acquire, AcquireDead, AcquireOwn, AcquireNew, Release,
       ReleaseEverything, DispatcherStep, StopNext, StopGone, StopKill, StopForget, AcquireFailed,
       AcquireAgain, AcquireLook, AcquireTake, AcquireRecord, ReleaseEnds, Restart, Machine,
       ScriptExecs, EngineGrows, EngineEnds, LeaderEnds, vars, store, world
  <2>2. CASE \/ \E e \in Engine, c \in Client : Acquire(e, c)
             \/ \E c \in Client : Release(c)
             \/ ReleaseEverything
    <3>1. op' = op \/ op'.pc \notin {"unload", "clear"}
      BY <2>2, StopsBegin
    <3> QED
      BY <2>1, <3>1 DEF QwenInv, At
  <2>3. CASE ~(\/ \E e \in Engine, c \in Client : Acquire(e, c)
               \/ \E c \in Client : Release(c)
               \/ ReleaseEverything)
    <3>1. op \in Ops /\ Rest.pc = "idle" /\ \A pc \in Points : [op EXCEPT !.pc = pc].pc = pc
      BY DEF Rest, TypeOK, Ops
    <3>2. op.then \in Stops
      BY <3>1 DEF Ops
    <3>3. CASE StopNext
      <4>1. op'.pc \in Stops \cup {"wait", "forget"}
        BY <3>1, <3>2, <3>3 DEF StopNext, Goto, Ops
      <4> QED
        BY <2>1, <4>1 DEF QwenInv, At, Stops
    <3>4. CASE AcquireTake \/ AcquireLook \/ AcquireAgain
      <4>1. op'.pc \in {"idle", "record", "stop", "look"}
        BY <3>1, <3>4 DEF AcquireTake, AcquireLook, AcquireAgain, StopThen, Done, Goto, Ops
      <4> QED
        BY <2>1, <4>1 DEF QwenInv, At
    <3>5. CASE StopGone \/ StopKill \/ StopForget \/ AcquireFailed \/ AcquireRecord
               \/ ReleaseEnds \/ Restart
      <4>1. op'.pc \in {"idle", "forget", "stop"}
        BY <3>1, <3>5 DEF StopGone, StopKill, StopForget, AcquireFailed, AcquireRecord,
           ReleaseEnds, Restart, Done, Goto, Ops
      <4> QED
        BY <2>1, <4>1 DEF QwenInv, At
    <3>6. CASE Machine \/ UNCHANGED vars
      <4>1. op' = op
        BY <3>6 DEF Machine, ScriptExecs, EngineGrows, EngineEnds, LeaderEnds, QwenMoves, vars
      <4> QED
        BY <2>1, <4>1 DEF QwenInv, At
    <3> QED
      BY <1>4, <2>3, <3>3, <3>4, <3>5, <3>6 DEF Next, Serve, DispatcherStep
  <2> QED
    BY <2>2, <2>3
<1> QED
  BY <1>1, <1>2, <1>3, <1>4

\* The first start of the dispatcher.
LEMMA InitIInv == Init => IInv
<1> SUFFICES ASSUME Init PROVE IInv
  OBVIOUS
<1>1. TypeOK
  BY InitTypes
<1>2. op.pc = "idle" /\ dfd = FALSE
  BY DEF Init, Rest
<1>3. QwenInv
  BY <1>2 DEF Init, QwenInv, At
<1>4. /\ \A p \in Pid : Leads(p) => grp[p].fd
      /\ \A p \in Pid : Leads(p) => \E e \in Engine : Ours(e) /\ rec[e].pid = p
      /\ \A p, q \in Pid : Leads(p) /\ Leads(q) => p = q
  <2>1. CASE grp = [p \in Pid |-> Free]
    BY <2>1 DEF Leads, Free
  <2>2. ASSUME NEW e \in Engine, NEW p \in Pid,
               rec = [[x \in Engine |-> NoRec] EXCEPT ![e].pid = p, ![e].ready = TRUE],
               grp = [[x \in Pid |-> Free] EXCEPT ![p] =
                         [Free EXCEPT !.eng = e, !.life = "serving", !.fd = TRUE]]
        PROVE  /\ \A q \in Pid : Leads(q) => q = p
               /\ grp[p].fd /\ Ours(e) /\ rec[e].pid = p
    <3>1. \A q \in Pid : q # p => grp[q] = Free
      BY <2>2
    <3>2. /\ grp[p].fd = TRUE /\ grp[p].life = "serving" /\ grp[p].eng = e
          /\ grp[p].missed = FALSE
      BY <2>2 DEF Free
    <3>3. rec[e] = [NoRec EXCEPT !.pid = p, !.ready = TRUE]
      BY <2>2
    <3>4. rec[e].pid = p /\ rec[e].ready = TRUE /\ NoRec.ready = FALSE
      BY <3>3 DEF NoRec
    <3> QED
      BY <3>1, <3>2, <3>4 DEF Leads, Free, Ours, Leading, Recorded
  <2>3. ASSUME NEW e \in Engine, NEW p \in Pid, \A q \in Pid : Leads(q) => q = p,
               grp[p].fd, Ours(e), rec[e].pid = p
        PROVE  /\ \A q \in Pid : Leads(q) => grp[q].fd
               /\ \A q \in Pid : Leads(q) => \E x \in Engine : Ours(x) /\ rec[x].pid = q
               /\ \A q, r \in Pid : Leads(q) /\ Leads(r) => q = r
    BY <2>3
  <2>4. CASE \E e \in Engine, p \in Pid :
               /\ rec = [[x \in Engine |-> NoRec] EXCEPT ![e].pid = p, ![e].ready = TRUE]
               /\ grp = [[x \in Pid |-> Free] EXCEPT ![p] =
                         [Free EXCEPT !.eng = e, !.life = "serving", !.fd = TRUE]]
    <3>1. PICK e \in Engine, p \in Pid :
               /\ rec = [[x \in Engine |-> NoRec] EXCEPT ![e].pid = p, ![e].ready = TRUE]
               /\ grp = [[x \in Pid |-> Free] EXCEPT ![p] =
                         [Free EXCEPT !.eng = e, !.life = "serving", !.fd = TRUE]]
      BY <2>4
    <3>2. /\ \A q \in Pid : Leads(q) => q = p
          /\ grp[p].fd /\ Ours(e) /\ rec[e].pid = p
      BY <2>2, <3>1
    <3> QED
      BY <2>3, <3>2
  <2> QED
    BY <2>1, <2>4 DEF Init
<1>5. CardInv
  BY <1>2, <1>4 DEF CardInv, OpInv, Cleared, Asked, Holds, Alone, Known, Live, Named, At,
     Stopping, Starting
<1> QED
  BY <1>1, <1>3, <1>5 DEF IInv

\* The invariant is inductive.
LEMMA StepIInv == IInv /\ [Next]_vars => IInv'
  BY StepTypes, StepOp, StepCard, StepQwen DEF IInv, CardInv

\* The inductive invariant holds of every run.
THEOREM GpuInvariant == Spec => []IInv
  BY InitIInv, StepIInv, PTL DEF Spec

\* The types of every variable.
THEOREM GpuTypes == Spec => []TypeOK
<1>1. IInv => TypeOK
  BY DEF IInv
<1> QED
  BY <1>1, GpuInvariant, PTL

\* dispatcher.py's lock and state.json: for any number of engines, clients and pids,
\* two engines of ours never run at once, and one that no record names is left by a
\* death between its spawn and its record; but for one that a request took for gone
\* while it was still the script that starts it.
THEOREM GpuOneEngine == Spec => []OneEngine
<1>1. IInv => OneEngine
  BY DEF IInv, CardInv, Alone, Known, Live, Named, OneEngine, Running
<1> QED
  BY <1>1, GpuInvariant, PTL

\* dispatcher.py, qwen_unload and qwen_restore: what we have stopped is in the record
\* until somebody has started it again.
THEOREM GpuQwenIsRemembered == Spec => []QwenIsRemembered
<1>1. IInv => QwenIsRemembered
  BY DEF IInv, QwenInv, QwenIsRemembered
<1> QED
  BY <1>1, GpuInvariant, PTL

\* To take a group for gone sends it nothing.
LEMMA MissingHurts ==
    ASSUME TypeOK, NEW S, grp' = Missing(S)
    PROVE  \A p \in Pid : grp'[p].hurt = grp[p].hurt
  BY DEF Missing, TypeOK, Groups

\* dispatcher.py, acquire and release: a living engine that no request took for gone
\* is signalled for its owner only, or for a request that asks to stop everything.
THEOREM GpuOwnersKeepTheirs == Spec => OwnersKeepTheirs
<1> DEFINE A == \A e \in Engine :
         /\ Alive(e) /\ Ours(e)
         /\ grp[rec[e].pid].hurt = "no" /\ grp'[rec[e].pid].hurt # "no"
         => Mine(e, op.client) \/ op.then \in {"freeall", "restore"}
<1>1. IInv /\ [Next]_vars => [A]_vars
  <2> SUFFICES ASSUME IInv, Next, NEW e \in Engine, Alive(e), Ours(e),
                      grp[rec[e].pid].hurt = "no", grp'[rec[e].pid].hurt # "no",
                      op.then \notin {"freeall", "restore"}
               PROVE  Mine(e, op.client)
    BY DEF vars
  <2>1. /\ rec[e].pid \in Pid /\ grp[rec[e].pid].eng = e /\ grp \in [Pid -> Groups]
        /\ TypeOK /\ CardInv /\ op.todo \subseteq Engine
    BY RecPid DEF IInv, Alive, Leading, TypeOK, Ops
  <2>2. CASE StopNext
    <3>1. PICK x \in op.todo : (Alive(x) \/ Orphaned(x)) /\ grp' = Signalled(rec[x].pid, "term")
      BY <2>1, <2>2, MissingHurts DEF StopNext
    <3>2. rec[x].pid = rec[e].pid
      BY <2>1, <3>1 DEF Signalled
    <3>3. x = e
      BY <2>1, <3>1, <3>2 DEF Alive, Leading, Orphaned
    <3> QED
      BY <2>1, <2>2, <3>1, <3>3 DEF CardInv, Asked, Stopping, StopNext, At
  <2>3. CASE StopKill
    <3>1. op.pid = rec[e].pid
      BY <2>1, <2>3 DEF StopKill, Signalled
    <3>2. op.cur = e /\ op.cur \in op.todo
      BY <2>1, <2>3, <3>1 DEF CardInv, OpInv, StopKill, At
    <3> QED
      BY <2>1, <2>3, <3>2 DEF CardInv, Asked, Stopping, StopKill, At
  <2>4. CASE Machine \/ Reboot \/ AcquireTake \/ AcquireLook \/ Crash
              \/ \E x \in Engine, c \in Client : AcquireDead(x, c)
    <3>1. \A p \in Pid : grp'[p].hurt \in {grp[p].hurt, "no"}
      <4>1. /\ Free.hurt = "no"
            /\ \A x : Spawned(x).hurt = "no"
            /\ \A x, m, f : [Free EXCEPT !.eng = x, !.life = "orphan", !.marked = m,
                                         !.fd = f].hurt = "no"
        BY DEF Free, Spawned
      <4>2. ASSUME NEW p \in Pid, NEW g, g.hurt = "no", grp' = [grp EXCEPT ![p] = g]
            PROVE  \A q \in Pid : grp'[q].hurt \in {grp[q].hurt, "no"}
        BY <2>1, <4>2
      <4>3. CASE Reboot
        BY <4>1, <4>3 DEF Reboot
      <4>4. CASE AcquireTake
        <5>1. CASE grp' # grp
          <6>1. PICK p \in Pid : grp' = [grp EXCEPT ![p] = Spawned(op.eng)]
            BY <4>4, <5>1 DEF AcquireTake
          <6> QED
            BY <4>1, <4>2, <6>1
        <5> QED
          BY <5>1
      <4>5. ASSUME NEW p \in Pid, ScriptExecs(p) \/ EngineGrows(p) \/ EngineEnds(p)
            PROVE  \A q \in Pid : grp'[q].hurt \in {grp[q].hurt, "no"}
        BY <2>1, <4>1, <4>5 DEF ScriptExecs, EngineGrows, EngineEnds, Groups
      <4>6. ASSUME NEW p \in Pid, LeaderEnds(p)
            PROVE  \A q \in Pid : grp'[q].hurt \in {grp[q].hurt, "no"}
        <5>1. PICK m \in BOOLEAN, f \in BOOLEAN :
             grp' = [grp EXCEPT ![p] = [Free EXCEPT !.eng = grp[p].eng, !.life = "orphan",
                                        !.marked = m, !.fd = f]]
          BY <4>6 DEF LeaderEnds
        <5> QED
          BY <4>1, <4>2, <4>6, <5>1
      <4>7. CASE Machine
        BY <4>5, <4>6, <4>7 DEF Machine, QwenMoves
      <4>8. CASE AcquireLook \/ \E x \in Engine, c \in Client : AcquireDead(x, c)
        BY <2>1, <4>8, MissingHurts DEF AcquireLook, AcquireDead
      <4>9. CASE Crash
        BY <2>1, <4>9 DEF Crash, Groups
      <4> QED
        BY <2>4, <4>3, <4>4, <4>7, <4>8, <4>9
    <3> QED
      BY <2>1, <3>1
  <2>5. CASE ~(\/ StopNext \/ StopKill \/ Machine \/ Reboot \/ AcquireTake \/ AcquireLook \/ Crash
                \/ \E x \in Engine, c \in Client : AcquireDead(x, c))
    <3>1. grp' = grp
      BY <2>5 DEF Next, Serve, Acquire, AcquireDead, AcquireOwn, AcquireNew, Release,
       ReleaseEverything, QwenUnload, QwenRestore, DispatcherStep, StopGone, StopForget,
       AcquireFailed, AcquireAgain, AcquireLook, AcquireRecord, ReleaseEnds, QwenStopped, QwenStart,
       QwenForget, Crash, Restart, world
    <3> QED
      BY <3>1
  <2> QED
    BY <2>2, <2>3, <2>4, <2>5
<1> QED
  BY <1>1, GpuInvariant, PTL DEF Spec, OwnersKeepTheirs
=============================================================================
