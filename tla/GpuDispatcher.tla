---------------------------- MODULE GpuDispatcher ----------------------------
(***************************************************************************)
(* The service that hands out the card of the Linux machine                *)
(* (tools/gpu-dispatcher/dispatcher.py).  It starts an engine for the      *)
(* client that asks, remembers it in state.json, and stops only what it    *)
(* started.                                                                *)
(*                                                                         *)
(* One operation runs at a time (Dispatcher._ops); any client may have any *)
(* request waiting, and a request whose client has given up is served all  *)
(* the same, so a request is simply taken when the dispatcher is idle.     *)
(* Inside an operation every kill, wait, write of state.json and start is  *)
(* a step of its own: engines and Qwen move between them, and the          *)
(* dispatcher may die there.  Its engines survive it (KillMode=process) and*)
(* keep the descriptor of generation.lock they inherited.  A stranger may  *)
(* be on the card, on a port or hold the lock at any look, and be gone at  *)
(* the next: what it makes a look answer is a choice, not a state.         *)
(*                                                                         *)
(* h3 is started as `bash serve.sh`: until the script execs the engine,    *)
(* its command line has none of the markers that _alive asks for.          *)
(*                                                                         *)
(* A process group is named by its leader's pid, and a pid is free again   *)
(* when the group is gone: a record may name a pid that is now another's.  *)
(* Answers that change nothing ("wait", "wait_qwen", 409) are not steps.   *)
(***************************************************************************)
EXTENDS Naturals, FiniteSets

CONSTANTS Engine, Client, Pid, NoEngine, NoOwner, NoPid,
          Scripted   \* the engines that a shell script starts

ASSUME DispatcherAssumption ==
    /\ NoEngine \notin Engine /\ NoOwner \notin Client /\ NoPid \notin Pid
    /\ Scripted \subseteq Engine

VARIABLES
    rec,       \* state.json: for each engine its record, or NoRec
    unloaded,  \* state.json: qwen_was_running
    dfd,       \* the dispatcher's own descriptor of the lock is open
    op,        \* the operation under _ops
    grp,       \* the process groups
    qwen,      \* "starting": begun, on no list and not answering yet
    ousted     \* history: Qwen was stopped by us and nobody has started it since

store == <<rec, unloaded>>
world == <<grp, qwen>>
vars == <<store, dfd, op, world, ousted>>

NoRec == [pid |-> NoPid, owner |-> NoOwner, ready |-> FALSE]
Records == [pid : Pid, owner : Client \cup {NoOwner}, ready : BOOLEAN] \cup {NoRec}

\* life: "script" has not reached its exec, "booting" has nothing on the card yet,
\* "serving" is on it and answers or not, "orphan" has lost its leader, its children
\* keep the card.  hurt: the last signal sent to a group with a leader.  fd: it holds
\* the lock's file.  marked: a child carries the engine's first marker.
\* History: an operation took it for gone while it was its script (missed), or the
\* dispatcher died between its spawn and its record (stray).
Groups == [eng : Engine \cup {NoEngine}, missed : BOOLEAN, stray : BOOLEAN,
           life : {"free", "script", "booting", "serving", "orphan"},
           marked : BOOLEAN, fd : BOOLEAN, hurt : {"no", "term", "kill"}]

\* todo: the engines still to stop; then: where the operation goes after them.
Stops == {"again", "failed", "take", "free", "freeall", "restore"}
Points == Stops \cup {"idle", "down", "look", "stop", "wait", "forget", "record", "unload",
                      "clear"}
Ops == [pc : Points, eng : Engine \cup {NoEngine}, client : Client \cup {NoOwner},
        todo : SUBSET Engine, cur : Engine \cup {NoEngine}, then : Stops,
        pid : Pid \cup {NoPid}]
Rest == [pc |-> "idle", eng |-> NoEngine, client |-> NoOwner, todo |-> {},
         cur |-> NoEngine, then |-> "free", pid |-> NoPid]
Free == [eng |-> NoEngine, missed |-> FALSE, stray |-> FALSE, life |-> "free",
         marked |-> FALSE, fd |-> FALSE, hurt |-> "no"]
Spawned(e) == [Free EXCEPT !.eng = e, !.fd = TRUE,
                           !.life = IF e \in Scripted THEN "script" ELSE "booting"]

TypeOK ==
    /\ rec \in [Engine -> Records]
    /\ unloaded \in BOOLEAN /\ dfd \in BOOLEAN
    /\ op \in Ops
    /\ grp \in [Pid -> Groups]
    /\ qwen \in {"off", "starting", "up"}
    /\ ousted \in BOOLEAN

-----------------------------------------------------------------------------
(* What the dispatcher can see                                             *)

Recorded(e) == rec[e] # NoRec
Leads(p) == grp[p].life \in {"script", "booting", "serving"}

\* The record names a leader that its spawn has started.
Leading(e) == Recorded(e) /\ Leads(rec[e].pid) /\ grp[rec[e].pid].eng = e

OnCard(p) == grp[p].life \in {"serving", "orphan"}

\* _alive: the pid lives and its command line carries the engine's markers.
InScript(e) == Leading(e) /\ grp[rec[e].pid].life = "script"
Alive(e) == Leading(e) /\ ~InScript(e)

\* What becomes of the groups when an operation goes on as if S had no leader.
Missing(S) == [p \in Pid |-> [grp[p] EXCEPT
                 !.missed = @ \/ \E e \in S : InScript(e) /\ rec[e].pid = p]]

\* _orphaned_group: the leader's pid is gone, and a member carries the marker.
Orphaned(e) ==
    /\ Recorded(e)
    /\ LET g == grp[rec[e].pid] IN g.life = "orphan" /\ g.eng = e /\ g.marked

Own == {e \in Engine : Alive(e)}

\* _foreign, when nvidia-smi answers and no stranger is there.
Foreign ==
    \/ qwen = "up"
    \/ \E p \in Pid : OnCard(p) /\ \A e \in Own : rec[e].pid # p

\* url_ok, when no stranger has the port.
Answering(e) == \E p \in Pid : grp[p].eng = e /\ grp[p].life = "serving"

\* None of ours holds an open file of the lock.
LockFree == \A p \in Pid : grp[p].life = "free" \/ ~grp[p].fd

Mine(e, c) == rec[e].owner \in {NoOwner, c}

At(pc) == op.pc = pc
Goto(pc) == op' = [op EXCEPT !.pc = pc]
Done == op' = Rest
Request(pc, e, c) == At("idle") /\ op' = [Rest EXCEPT !.pc = pc, !.eng = e, !.client = c]
StopThen(S, next) == [op EXCEPT !.pc = "stop", !.todo = S, !.then = next]
LetGoIfIdle == dfd' = (dfd /\ Own # {})

\* Nothing runs, or an engine that a dispatcher without owners has started.
Init ==
    /\ \/ /\ rec = [e \in Engine |-> NoRec]
          /\ grp = [p \in Pid |-> Free]
       \/ \E e \in Engine, p \in Pid :
            /\ rec = [[x \in Engine |-> NoRec] EXCEPT ![e].pid = p, ![e].ready = TRUE]
            /\ grp = [[x \in Pid |-> Free] EXCEPT ![p] =
                      [Free EXCEPT !.eng = e, !.life = "serving", !.fd = TRUE]]
    /\ unloaded = FALSE /\ dfd = FALSE
    /\ op = Rest
    /\ qwen = "off"
    /\ ousted = FALSE

-----------------------------------------------------------------------------
(* _stop: the engines of op.todo, one after the other                      *)

Signalled(p, sig) == IF Leads(p) THEN [grp EXCEPT ![p].hurt = sig] ELSE grp

StopNext ==
    /\ At("stop")
    /\ \/ op.todo = {} /\ Goto(op.then) /\ UNCHANGED grp
       \/ \E e \in op.todo :
            LET p == rec[e].pid IN
            \/ /\ Alive(e) \/ Orphaned(e)
               /\ grp' = Signalled(p, "term")
               /\ op' = [op EXCEPT !.pc = "wait", !.cur = e, !.pid = p]
            \/ /\ ~Alive(e) /\ ~Orphaned(e)
               /\ op' = [op EXCEPT !.pc = "forget", !.cur = e]
               /\ grp' = Missing({e})
    /\ UNCHANGED <<store, dfd, qwen, ousted>>

StopGone ==
    /\ At("wait")
    /\ grp[op.pid].life = "free"
    /\ Goto("forget")
    /\ UNCHANGED <<store, dfd, world, ousted>>

\* STOP_GRACE_SECONDS have passed; the group is not waited for any more.
StopKill ==
    /\ At("wait")
    /\ grp[op.pid].life # "free"
    /\ grp' = Signalled(op.pid, "kill")
    /\ Goto("forget")
    /\ UNCHANGED <<store, dfd, qwen, ousted>>

StopForget ==
    /\ At("forget")
    /\ rec' = [rec EXCEPT ![op.cur] = NoRec]
    /\ op' = [op EXCEPT !.pc = "stop", !.todo = @ \ {op.cur}, !.cur = NoEngine, !.pid = NoPid]
    /\ UNCHANGED <<unloaded, dfd, world, ousted>>

-----------------------------------------------------------------------------
(* acquire                                                                 *)

\* The record's leader is gone, or seems so: what is left of its group is stopped first.
AcquireDead(e, c) ==
    /\ At("idle")
    /\ Recorded(e) /\ ~Alive(e)
    /\ grp' = Missing({e})
    /\ op' = [Rest EXCEPT !.pc = "stop", !.eng = e, !.client = c, !.todo = {e},
              !.then = IF rec[e].ready THEN "again" ELSE "failed"]
    /\ UNCHANGED <<store, dfd, qwen, ousted>>

\* The engine is the client's, or nobody's yet: its port answers ("ready": a stranger
\* may answer there, and url_ok may miss an answer), "starting", or too late.
AcquireOwn(e, c) ==
    /\ At("idle")
    /\ Alive(e) /\ Mine(e, c)
    /\ \/ /\ rec' = [rec EXCEPT ![e].owner = c, ![e].ready = TRUE]
          /\ UNCHANGED op
       \/ /\ rec' = [rec EXCEPT ![e].owner = c]
          /\ \/ UNCHANGED op
             \/ op' = [Rest EXCEPT !.pc = "stop", !.eng = e, !.client = c,
                       !.todo = {e}, !.then = "failed"]
    /\ UNCHANGED <<unloaded, dfd, world, ousted>>

AcquireNew(e, c) ==
    /\ ~Recorded(e)
    /\ Request("look", e, c)
    /\ UNCHANGED <<store, dfd, world, ousted>>

AcquireFailed ==
    /\ At("failed")
    /\ LetGoIfIdle
    /\ Done
    /\ UNCHANGED <<store, world, ousted>>

AcquireAgain ==
    /\ At("again")
    /\ LetGoIfIdle
    /\ Goto("look")
    /\ UNCHANGED <<store, world, ousted>>

\* Mutant: the client's other engine is left running.
AcquireLookBeside ==
    /\ At("look")
    /\ \/ Done /\ UNCHANGED grp
       \/ /\ ~Foreign /\ ~Answering(op.eng)
          /\ \A e \in Own : Mine(e, op.client)
          /\ op' = StopThen({}, "take") /\ grp' = Missing(Engine)
    /\ UNCHANGED <<store, dfd, qwen, ousted>>

\* Mutant: nobody asks whose the other engine is.
AcquireLookOver ==
    /\ At("look")
    /\ \/ Done /\ UNCHANGED grp
       \/ /\ ~Foreign /\ ~Answering(op.eng)
          /\ op' = StopThen(Own, "take") /\ grp' = Missing(Engine)
    /\ UNCHANGED <<store, dfd, qwen, ousted>>

\* Whoever else is on the card is waited for; the client's other engines give way.
AcquireLook ==
    /\ At("look")
    /\ \/ Done /\ UNCHANGED grp
       \/ /\ ~Foreign /\ ~Answering(op.eng)
          /\ \A e \in Own : Mine(e, op.client)
          /\ op' = StopThen(Own, "take") /\ grp' = Missing(Engine)
    /\ UNCHANGED <<store, dfd, qwen, ousted>>

\* The lock, unless a stranger or an engine holds it; then the engine, which inherits
\* the lock's file.
AcquireTake ==
    /\ At("take")
    /\ \/ ~dfd /\ Done /\ UNCHANGED <<dfd, grp>>
       \/ /\ dfd \/ LockFree
          /\ dfd' = TRUE
          /\ \/ \E p \in Pid :
                  /\ grp[p].life = "free"
                  /\ grp' = [grp EXCEPT ![p] = Spawned(op.eng)]
                  /\ op' = [op EXCEPT !.pc = "record", !.pid = p]
             \/ Done /\ UNCHANGED grp     \* the spawn fails: 500
    /\ UNCHANGED <<store, qwen, ousted>>

AcquireRecord ==
    /\ At("record")
    /\ rec' = [rec EXCEPT ![op.eng] = [pid |-> op.pid, owner |-> op.client, ready |-> FALSE]]
    /\ Done
    /\ UNCHANGED <<unloaded, dfd, world, ousted>>

Acquire(e, c) == AcquireDead(e, c) \/ AcquireOwn(e, c) \/ AcquireNew(e, c)

-----------------------------------------------------------------------------
(* release, for a client or for everybody                                  *)

Release(c) ==
    /\ At("idle")
    /\ op' = [Rest EXCEPT !.pc = "stop", !.client = c, !.then = "free",
              !.todo = {e \in Engine : Recorded(e) /\ rec[e].owner = c}]
    /\ UNCHANGED <<store, dfd, world, ousted>>

ReleaseEverything ==
    /\ At("idle")
    /\ op' = [Rest EXCEPT !.pc = "stop", !.then = "freeall",
              !.todo = {e \in Engine : Recorded(e)}]
    /\ UNCHANGED <<store, dfd, world, ousted>>

ReleaseEnds ==
    /\ \/ At("free") /\ LetGoIfIdle
       \/ At("freeall") /\ dfd' = FALSE
    /\ Done
    /\ UNCHANGED <<store, world, ousted>>

-----------------------------------------------------------------------------
(* Qwen                                                                    *)

QwenUnload ==
    /\ At("idle")
    /\ qwen = "up"
    /\ unloaded' = TRUE
    /\ op' = [Rest EXCEPT !.pc = "unload"]
    /\ UNCHANGED <<rec, dfd, world, ousted>>

\* qwen.sh stop succeeds, or fails, or is killed after 300 s.
QwenStopped ==
    /\ At("unload")
    /\ \/ qwen' = "off" /\ ousted' = TRUE
       \/ UNCHANGED <<qwen, ousted>>
    /\ Done
    /\ UNCHANGED <<store, dfd, grp>>

\* Mutant: the flag is cleared before Qwen is started.
QwenRestoreEarly ==
    /\ At("idle")
    /\ unloaded
    /\ op' = [Rest EXCEPT !.pc = "stop", !.then = "restore",
              !.todo = {e \in Engine : Recorded(e)}]
    /\ unloaded' = FALSE
    /\ UNCHANGED <<rec, dfd, world, ousted>>

QwenRestore ==
    /\ At("idle")
    /\ unloaded
    /\ \/ /\ qwen = "up"
          /\ unloaded' = FALSE
          /\ UNCHANGED op
       \/ /\ op' = [Rest EXCEPT !.pc = "stop", !.then = "restore",
                    !.todo = {e \in Engine : Recorded(e)}]
          /\ UNCHANGED unloaded
    /\ UNCHANGED <<rec, dfd, world, ousted>>

\* _release_all lets the lock go; qwen.sh is started and not waited for.
QwenStart ==
    /\ At("restore")
    /\ dfd' = FALSE
    /\ qwen' = IF qwen = "off" THEN "starting" ELSE qwen
    /\ ousted' = FALSE
    /\ Goto("clear")
    /\ UNCHANGED <<store, grp>>

QwenForget ==
    /\ At("clear")
    /\ unloaded' = FALSE
    /\ Done
    /\ UNCHANGED <<rec, dfd, world, ousted>>

DispatcherStep ==
    \/ StopNext \/ StopGone \/ StopKill \/ StopForget
    \/ AcquireFailed \/ AcquireAgain \/ AcquireLook \/ AcquireTake \/ AcquireRecord
    \/ ReleaseEnds
    \/ QwenStopped \/ QwenStart \/ QwenForget

Serve ==
    \/ \E e \in Engine, c \in Client : Acquire(e, c)
    \/ \E c \in Client : Release(c)
    \/ ReleaseEverything \/ QwenUnload \/ QwenRestore

-----------------------------------------------------------------------------
(* The dispatcher's own death, and the machine's                           *)

\* Its descriptor closes with it; a qwen.sh that runs on ends before it is back.
Crash ==
    /\ op.pc # "down"
    /\ op' = [Rest EXCEPT !.pc = "down"]
    /\ dfd' = FALSE
    /\ IF op.pc = "record" /\ Leads(op.pid) THEN grp' = [grp EXCEPT ![op.pid].stray = TRUE]
                                           ELSE UNCHANGED grp
    /\ \/ UNCHANGED <<qwen, ousted>>
       \/ op.pc = "unload" /\ qwen' = "off" /\ ousted' = TRUE
    /\ UNCHANGED store

\* _load_state: the records, and no descriptor.
Restart ==
    /\ op.pc = "down"
    /\ Done
    /\ UNCHANGED <<store, dfd, world, ousted>>

Reboot ==
    /\ op' = [Rest EXCEPT !.pc = "down"]
    /\ dfd' = FALSE
    /\ grp' = [p \in Pid |-> Free]
    /\ qwen' = "off"
    /\ UNCHANGED <<store, ousted>>

-----------------------------------------------------------------------------
(* The rest of the machine                                                 *)

\* serve.sh execs the engine: the same pid, now with the markers.
ScriptExecs(p) ==
    /\ grp[p].life = "script"
    /\ grp' = [grp EXCEPT ![p].life = "booting"]
    /\ UNCHANGED <<store, dfd, op, qwen, ousted>>

EngineGrows(p) ==
    /\ grp[p].life = "booting"
    /\ grp' = [grp EXCEPT ![p].life = "serving"]
    /\ UNCHANGED <<store, dfd, op, qwen, ousted>>

EngineEnds(p) ==
    /\ grp[p].life # "free"
    /\ grp' = [grp EXCEPT ![p] = Free]
    /\ UNCHANGED <<store, dfd, op, qwen, ousted>>

\* The leader dies alone; SIGKILL takes the children too.
LeaderEnds(p) ==
    /\ grp[p].life = "serving" /\ grp[p].hurt # "kill"
    /\ \E m \in BOOLEAN, f \in BOOLEAN :
         grp' = [grp EXCEPT ![p] = [Free EXCEPT !.eng = grp[p].eng, !.life = "orphan",
                                    !.marked = m, !.fd = f]]
    /\ UNCHANGED <<store, dfd, op, qwen, ousted>>

\* A person runs qwen.sh; what was begun comes up, or does not.
QwenMoves ==
    /\ \/ qwen = "off" /\ qwen' = "starting" /\ ousted' = FALSE
       \/ qwen = "starting" /\ qwen' \in {"up", "off"} /\ UNCHANGED ousted
       \/ qwen = "up" /\ qwen' = "off" /\ UNCHANGED ousted
    /\ UNCHANGED <<store, dfd, op, grp>>

Machine ==
    \/ \E p \in Pid : ScriptExecs(p) \/ EngineGrows(p) \/ EngineEnds(p) \/ LeaderEnds(p)
    \/ QwenMoves

Next == Serve \/ DispatcherStep \/ Crash \/ Restart \/ Reboot \/ Machine

Spec == Init /\ [][Next]_vars

-----------------------------------------------------------------------------
(* What should hold                                                        *)

Ours(e) == Leading(e) /\ ~grp[rec[e].pid].missed

Running == {p \in Pid : Leads(p) /\ grp[p].hurt # "kill" /\ ~grp[p].missed}

\* "The dispatcher keeps one engine on the card": whatever dies and restarts, two
\* engines of ours never run at once, but for one that SIGKILL is ending and one that
\* a request took for gone while it was still its start script; and one that no
\* record names, which nobody will ever stop, is left by such a request or by a death
\* of the dispatcher between the spawn and the record, and by nothing else.
OneEngine ==
    \A p, q \in Running :
        /\ p = q
        /\ \/ \E e \in Engine : Ours(e) /\ rec[e].pid = p
           \/ At("record") /\ op.pid = p
           \/ grp[p].stray

\* Qwen, stopped by us, is not forgotten while nobody has tried to start it again.
QwenIsRemembered == ousted => unloaded

\* "An engine owned by a live other client is never taken over": a living leader that
\* no request took for gone while it was its start script is signalled for its owner
\* only, or for a request that asks to stop everything.
OwnersKeepTheirs ==
    [][\A e \in Engine :
         /\ Alive(e) /\ Ours(e)
         /\ grp[rec[e].pid].hurt = "no" /\ grp'[rec[e].pid].hurt # "no"
         => Mine(e, op.client) \/ op.then \in {"freeall", "restore"}]_vars
=============================================================================
