---------------------------- MODULE ProjectProofs ----------------------------
(***************************************************************************)
(* Proofs about ProjectChain, for any number of pages, scenes, presses and *)
(* faults.                                                                 *)
(*                                                                         *)
(* Types and Fits say what every variable holds, and what a process        *)
(* carries at each place.  Shot is what is true of scenes nobody wrote     *)
(* over: a process on its way to a scene's job has the scene to itself,    *)
(* the job it sends was made from the take before, and the job the scene   *)
(* names was too, wherever it is by now.  Built is what is true while      *)
(* nothing is torn: an assembly joins the takes the project has.  Going is *)
(* what is true while nobody is to blame: whatever runs has somebody who   *)
(* ends it, and a project that was begun has somebody who drives it on.    *)
(***************************************************************************)
EXTENDS ProjectChain, TLAPS, WellFoundedInduction

OptTakes == Takes \cup {Null}
StageNames == {"scenes", "upscale", "assembly"}
LateStages == {"upscale", "assembly"}

Shots == [take : Takes, from : OptTakes]
SceneType == [status : SceneStatuses, job : OptTakes \cup {Claiming},
              clip : Shots \cup {Null}, ltx : OptTakes]
FileType == [scene : [Scenes -> SceneType], stage : [StageNames -> StageStatuses],
             final : [Scenes -> Takes] \cup {Null}, route : BOOLEAN]
JobType == [id : Takes, kind : {"scene", "upscale", "assembly"}, scene : Scenes \cup {0},
            from : OptTakes, state : {"pending", "running"}, cancel : BOOLEAN]

OnScene  == {"stage", "submit", "record", "rollback"}
OnStage  == {"submitStage", "stageRuns", "stageFails"}
Looking  == {"look", "halt", "scenesDone", "claim", "unstage"}
ByPage   == {"save", "approve", "invalidate", "draft", "route", "rebuild"}
Upscaler == {"wanted", "takes", "part", "closeUpscale", "markUpscale"}
Joiner   == {"gather", "joined", "finished", "unjoined"}
Body     == {"shoot", "file"} \cup Upscaler \cup Joiner
ByWorker == {"check", "write"} \cup Body
Places   == {"idle"} \cup OnScene \cup OnStage \cup Looking \cup ByPage \cup ByWorker

OpType == [pc : Places, req : {Null, "approve"}, kind : {Null} \cup LateStages, i : Scenes \cup {0},
           job : OptTakes, proj : FileType \cup Shots \cup OptTakes \cup [Scenes -> OptTakes],
           ok : BOOLEAN, fails : BOOLEAN, stale : BOOLEAN]

\* A done scene has a clip.
Whole(f) == \A i \in Scenes : f.scene[i].status = "done" => f.scene[i].clip # Null

Types ==
  /\ nextId \in Nat \ {0} /\ approved \in BOOLEAN
  /\ file \in FileType
  /\ jobs \subseteq JobType
  /\ op \in [Procs -> OpType]
  /\ torn \subseteq Scenes \cup {Final}
  /\ blame \subseteq {"died", "raced", "saved", "removed", "refused", "outran"}

In(p, S) == op[p].pc \in S

\* What a process carries at each place.
OpFits(p) ==
  /\ In(p, OnScene \cup {"claim", "invalidate", "shoot", "check", "write"}) => op[p].i \in Scenes
  /\ In(p, {"look", "scenesDone"} \cup OnStage \cup Joiner) => op[p].i = 0
  /\ In(p, {"submit"}) => op[p].proj \in [Scenes -> OptTakes]
  /\ In(p, {"record", "stageRuns"}) => op[p].proj \in Takes
  /\ In(p, OnStage \cup {"draft"}) => op[p].kind \in LateStages
  /\ In(p, {"save"}) => op[p].proj \in FileType /\ Whole(op[p].proj)
  /\ In(p, ByWorker) => p = Worker /\ op[p].job \in Takes
  /\ In(p, {"check", "write"}) => op[p].proj \in Shots /\ op[p].proj.take = op[p].job
  /\ In(p, {"part"}) => op[p].i \in 0..(NScenes - 1) /\ op[p].proj \in [Scenes -> OptTakes]
  /\ In(p, {"joined", "finished"}) => op[p].proj \in [Scenes -> Takes]
  /\ op[p].fails => p = Worker
  /\ op[p].req = "approve" => p # Worker /\ ~In(p, {"idle"} \cup (ByPage \ {"save"}))
  /\ In(p, ByPage) => p # Worker

\* One job per id; the worker's is in running/ until it files it.
JobsFit ==
  /\ \A j, k \in jobs : j.id = k.id => j = k
  /\ \A j \in jobs : j.kind = "scene" <=> j.scene \in Scenes
  /\ In(Worker, {"check", "write"}) => \A j \in jobs : j.id # w.job
  /\ In(Worker, Body) => \E j \in jobs :
       /\ j.id = w.job /\ j.state = "running"
       /\ In(Worker, {"shoot"}) <=> j.kind = "scene"
       /\ In(Worker, {"shoot"}) => j.scene = w.i
       /\ In(Worker, Upscaler) => j.kind = "upscale"
       /\ In(Worker, Joiner) => j.kind = "assembly"

Fits == Whole(file) /\ JobsFit /\ \A p \in Procs : OpFits(p)

-----------------------------------------------------------------------------
(* Scenes nobody wrote over.                                               *)

S(i) == file.scene[i]
T(i) == TakesOf(file)[i]
Untorn == Scenes \ torn
Paired(i) == Chained(i) /\ i - 1 \notin torn

\* Shot from the take the scene before it has.
FromHere(i, from) == Paired(i) => from = T(i - 1)

\* Wherever job id of scene i is by now, it was sent with that take.
Bears(i, id) ==
  /\ \A j \in jobs : j.kind = "scene" /\ j.scene = i /\ j.id = id => FromHere(i, j.from)
  /\ In(Worker, {"check", "write"}) /\ w.i = i /\ w.job = id => FromHere(i, w.proj.from)

\* No job of scene i with this id is on its way.
Spent(i, id) ==
  /\ \A j \in jobs : ~(j.kind = "scene" /\ j.scene = i /\ j.id = id)
  /\ ~(In(Worker, {"check", "write"}) /\ w.i = i /\ w.job = id)

ShotScene(i) ==
  /\ S(i).status # "done" => S(i).clip = Null /\ S(i).ltx = Null
  /\ S(i).ltx \in {Null, T(i)}
  /\ Paired(i) /\ S(i).status # "pending" => S(i - 1).status = "done"
  /\ S(i).status = "done" => FromHere(i, S(i).clip.from)
  /\ S(i).status = "running" /\ S(i).job # Claiming => Bears(i, S(i).job)
  /\ S(i).status # "running" => Spent(i, S(i).job)

Holds(p, i) == In(p, OnScene) /\ ~op[p].stale /\ op[p].i = i

ShotOp(p) ==
  op[p].i \in Untorn /\ ~op[p].stale =>
    /\ In(p, OnScene) => S(op[p].i).status = "running" /\ S(op[p].i).job = Claiming
    /\ In(p, {"submit"}) /\ Paired(op[p].i) => op[p].proj[op[p].i - 1] = T(op[p].i - 1)
    /\ In(p, {"record"}) => Bears(op[p].i, op[p].proj)
    /\ In(p, {"write"}) => S(op[p].i).status = "running" /\ S(op[p].i).job = op[p].job

Alone == \A p, q \in Procs : \A i \in Untorn : Holds(p, i) /\ Holds(q, i) => p = q

Shot == Alone /\ (\A i \in Untorn : ShotScene(i)) /\ \A p \in Procs : ShotOp(p)

\* The assembly, while nothing is torn.
Built ==
  torn = {} =>
    /\ file.stage["assembly"] = "done" => file.final = TakesOf(file) /\ AllDone(file)
    /\ In(Worker, {"joined", "finished"}) /\ ~w.stale => AllDone(file) /\ w.proj = TakesOf(file)
    /\ In(Worker, {"finished"}) /\ ~w.stale => file.final = w.proj

-----------------------------------------------------------------------------
USE DEF Procs, Worker, Scenes, Takes, OptTakes, In

(* The operators that write project.json.                                  *)

LEMMA SceneSetIs ==
  ASSUME NEW f \in FileType, NEW i \in Scenes, NEW v \in SceneStatuses,
         NEW job \in OptTakes \cup {Claiming}
  PROVE  LET g == SceneSet(f, i, v, job) IN
         /\ g \in FileType
         /\ g.stage = f.stage /\ g.final = f.final /\ g.route = f.route
         /\ \A k \in Scenes \ {i} : g.scene[k] = f.scene[k]
         /\ g.scene[i].status = v /\ g.scene[i].job = job
         /\ g.scene[i].clip = f.scene[i].clip /\ g.scene[i].ltx = f.scene[i].ltx
<1> DEFINE a == [f.scene[i] EXCEPT !.status = v]
           b == [a EXCEPT !.job = job]
           g == SceneSet(f, i, v, job)
<1>1. f.scene \in [Scenes -> SceneType] /\ f.scene[i] \in SceneType
  BY DEF FileType
<1>2. a \in SceneType /\ b \in SceneType /\ b.status = v /\ b.job = job
      /\ b.clip = f.scene[i].clip /\ b.ltx = f.scene[i].ltx
  BY <1>1 DEF SceneType
<1>3. g = [f EXCEPT !.scene = [f.scene EXCEPT ![i] = b]]
  BY <1>1 DEF SceneSet, FileType
<1> HIDE DEF a, b, g
<1>4. /\ g \in FileType /\ g.stage = f.stage /\ g.final = f.final /\ g.route = f.route
      /\ \A k \in Scenes \ {i} : g.scene[k] = f.scene[k]
      /\ g.scene[i] = b
  BY <1>1, <1>2, <1>3 DEF FileType
<1> QED
  BY <1>2, <1>4 DEF g

LEMMA StagedIs ==
  ASSUME NEW f \in FileType, NEW s \in StageNames, NEW v \in StageStatuses
  PROVE  LET g == Staged(f, s, v) IN
         /\ g \in FileType
         /\ g.scene = f.scene /\ g.final = f.final /\ g.route = f.route
         /\ \A t \in StageNames \ {s} : g.stage[t] = f.stage[t]
         /\ g.stage[s] = v
  BY DEF Staged, FileType, StageNames

LEMMA FinalSetIs ==
  ASSUME NEW f \in FileType, NEW takes \in [Scenes -> Takes] \cup {Null}
  PROVE  LET g == FinalSet(f, takes) IN
         /\ g \in FileType
         /\ g.scene = f.scene /\ g.stage = f.stage /\ g.route = f.route
         /\ g.final = takes
  BY DEF FinalSet, FileType

\* A part never changes a take, a status or a job.
LEMMA LtxSetIs ==
  ASSUME NEW f \in FileType, NEW i \in Scenes, NEW take \in OptTakes
  PROVE  LET g == LtxSet(f, i, take) IN
         /\ g \in FileType
         /\ g.stage = f.stage /\ g.final = f.final /\ g.route = f.route
         /\ \A k \in Scenes \ {i} : g.scene[k] = f.scene[k]
         /\ g.scene[i].status = f.scene[i].status /\ g.scene[i].job = f.scene[i].job
         /\ g.scene[i].clip = f.scene[i].clip
         /\ g.scene[i].ltx \in {f.scene[i].ltx, TakesOf(f)[i]}
<1> DEFINE b == [f.scene[i] EXCEPT !.ltx = take]
           g == LtxSet(f, i, take)
<1>1. f.scene \in [Scenes -> SceneType] /\ f.scene[i] \in SceneType
  BY DEF FileType
<1>2. b \in SceneType /\ b.status = f.scene[i].status /\ b.job = f.scene[i].job
      /\ b.clip = f.scene[i].clip /\ b.ltx = take
  BY <1>1 DEF SceneType
<1>3. CASE TakesOf(f)[i] = take
  <2>1. g = [f EXCEPT !.scene = [f.scene EXCEPT ![i] = b]]
    BY <1>1, <1>3 DEF LtxSet, FileType
  <2> HIDE DEF b, g
  <2>2. /\ g \in FileType /\ g.stage = f.stage /\ g.final = f.final /\ g.route = f.route
        /\ \A k \in Scenes \ {i} : g.scene[k] = f.scene[k]
        /\ g.scene[i] = b
    BY <1>1, <1>2, <2>1 DEF FileType
  <2> QED
    BY <1>2, <1>3, <2>2 DEF g
<1>4. CASE TakesOf(f)[i] # take
  BY <1>1, <1>4 DEF LtxSet
<1> QED
  BY <1>3, <1>4

LEMMA TakesOfIs ==
  ASSUME NEW f \in FileType
  PROVE  /\ TakesOf(f) \in [Scenes -> OptTakes]
         /\ \A i \in Scenes : f.scene[i].clip = Null => TakesOf(f)[i] = Null
         /\ \A i \in Scenes : f.scene[i].clip # Null =>
              f.scene[i].clip \in Shots /\ TakesOf(f)[i] = f.scene[i].clip.take
  BY DEF TakesOf, FileType, SceneType, Shots

\* The scene after one that is reset is reset, unless it starts afresh.
LEMMA TailRuns ==
  ASSUME NEW i \in Scenes
  PROVE  /\ i \in Tail(i) /\ Tail(i) \subseteq Scenes
         /\ \A k \in Scenes : Chained(k) /\ k - 1 \in Tail(i) => k \in Tail(i)
  BY ChainAssumption DEF Tail, Chained

\* While no job is sent the types stay what they are.
LEMMA SameTypes ==
  ASSUME nextId' = nextId
  PROVE  /\ Takes' = Takes /\ OptTakes' = OptTakes /\ Shots' = Shots
         /\ SceneType' = SceneType /\ FileType' = FileType /\ JobType' = JobType
         /\ OpType' = OpType
  BY DEF SceneType, FileType, JobType, OpType, Shots

\* A job that is sent only adds to them.
LEMMA MoreTypes ==
  ASSUME nextId \in Nat \ {0}, nextId' = nextId + 1
  PROVE  /\ Takes' = Takes \cup {nextId} /\ OptTakes' = OptTakes \cup {nextId}
         /\ Shots \subseteq Shots' /\ SceneType \subseteq SceneType' /\ FileType \subseteq FileType'
         /\ JobType \subseteq JobType' /\ OpType \subseteq OpType'
<1>1. Takes' = Takes \cup {nextId} /\ OptTakes' = OptTakes \cup {nextId}
  OBVIOUS
<1>2. Shots \subseteq Shots'
  BY <1>1 DEF Shots
<1>3. SceneType \subseteq SceneType'
  BY <1>1, <1>2 DEF SceneType
<1>4. FileType \subseteq FileType'
  BY <1>1, <1>3 DEF FileType
<1>5. JobType \subseteq JobType'
  BY <1>1 DEF JobType
<1>6. OpType \subseteq OpType'
  BY <1>1, <1>2, <1>4 DEF OpType
<1> QED
  BY <1>1, <1>2, <1>3, <1>4, <1>5, <1>6

-----------------------------------------------------------------------------
(* What each action does, field by field.                                  *)

\* The record a process ends its turn with.
LEMMA NullIs == Types => Null # "approve" /\ \A t \in Takes : Null # t
  BY ChainAssumption DEF Types

LEMMA IdleIs ==
  ASSUME Types, NEW p \in Procs
  PROVE  /\ Idle \in OpType /\ Ended(p) \in OpType
         /\ Idle.pc = "idle" /\ Idle.i = 0 /\ Idle.req # "approve" /\ ~Idle.stale /\ ~Idle.fails
         /\ Ended(p).i = 0 /\ Ended(p).req = Null /\ ~Ended(p).stale /\ ~Ended(p).fails
         /\ Ended(p).pc = IF op[p].req = "approve" THEN "approve" ELSE "idle"
<1>1. Idle \in OpType
  BY DEF Idle, OpType, Places
<1>2. [Idle EXCEPT !.pc = "approve"] \in OpType
  BY <1>1 DEF OpType, Places, ByPage
<1>3. /\ Idle.pc = "idle" /\ Idle.i = 0 /\ Idle.req = Null /\ ~Idle.stale /\ ~Idle.fails
      /\ LET e == [Idle EXCEPT !.pc = "approve"] IN
         e.pc = "approve" /\ e.i = 0 /\ e.req = Null /\ ~e.stale /\ ~e.fails
  BY DEF Idle
<1> QED
  BY <1>1, <1>2, <1>3, NullIs DEF Ended

LEMMA MovesTo ==
  ASSUME Types, NEW p \in Procs, NEW r \in OpType, op' = [op EXCEPT ![p] = r]
  PROVE  op' \in [Procs -> OpType] /\ op'[p] = r /\ \A q \in Procs \ {p} : op'[q] = op[q]
  BY DEF Types

LEMMA EndMoves ==
  ASSUME Types, NEW p \in Procs, End(p)
  PROVE  /\ op' \in [Procs -> OpType] /\ op'[p] = Ended(p)
         /\ \A q \in Procs \ {p} : op'[q] = op[q]
  BY IdleIs, MovesTo DEF End

LEMMA AdvanceMoves ==
  ASSUME Types, NEW p \in Procs, NEW b \in BOOLEAN, Advance(p, b)
  PROVE  /\ op' \in [Procs -> OpType] /\ \A q \in Procs \ {p} : op'[q] = op[q]
         /\ op'[p].pc = "look" /\ op'[p].i = 0 /\ ~op'[p].stale
         /\ op'[p].fails = b /\ op'[p].req = op[p].req
<1> DEFINE r == [Idle EXCEPT !.pc = "look", !.fails = b, !.req = op[p].req]
<1>1. r \in OpType /\ r.pc = "look" /\ r.i = 0 /\ ~r.stale /\ r.fails = b /\ r.req = op[p].req
  BY IdleIs DEF Types, OpType, Places, Looking, Idle
<1>2. op' = [op EXCEPT ![p] = r]
  BY DEF Advance
<1> HIDE DEF r
<1> QED
  BY <1>1, <1>2, MovesTo

LEMMA GotoMoves ==
  ASSUME Types, NEW p \in Procs, NEW pc \in Places, Goto(p, pc)
  PROVE  /\ op' \in [Procs -> OpType] /\ \A q \in Procs \ {p} : op'[q] = op[q]
         /\ op'[p].pc = pc
         /\ op'[p].i = op[p].i /\ op'[p].stale = op[p].stale /\ op'[p].fails = op[p].fails
         /\ op'[p].req = op[p].req /\ op'[p].job = op[p].job /\ op'[p].proj = op[p].proj
         /\ op'[p].kind = op[p].kind
  BY DEF Goto, Types, OpType

\* Nothing to submit though every scene is done.
NoNext(f) == /\ ~(f.route /\ f.stage.upscale = "draft")
             /\ (f.route /\ f.stage.upscale # "done") \/ f.stage.assembly # "draft"

\* Only p moves, and it stays the request it was.
Only(p) == op' \in [Procs -> OpType'] /\ \A q \in Procs \ {p} : op'[q] = op[q]
Stays(p) == op'[p].fails = op[p].fails /\ op'[p].req = op[p].req

LEMMA PlaceNames ==
  /\ OnScene \subseteq Places /\ OnStage \subseteq Places /\ Looking \subseteq Places
  /\ ByPage \subseteq Places /\ ByWorker \subseteq Places
  /\ Body \subseteq Places /\ Upscaler \subseteq Places /\ Joiner \subseteq Places
  /\ {"idle", "stage", "submit", "record", "rollback", "submitStage", "stageRuns", "stageFails",
       "look", "halt", "scenesDone", "claim", "unstage", "save", "approve", "invalidate", "draft",
       "route", "rebuild"} \subseteq Places
  /\ {"shoot", "check", "write", "file", "wanted", "takes", "part", "closeUpscale",
       "markUpscale", "gather", "joined", "finished", "unjoined"} \subseteq Places
  BY DEF Places, OnScene, OnStage, Looking, ByPage, ByWorker, Body, Upscaler, Joiner

\* A process that is current again goes on.
LEMMA FreshMoves ==
  ASSUME Types, NEW p \in Procs, NEW pc \in Places,
         op' = [op EXCEPT ![p].pc = pc, ![p].stale = FALSE]
  PROVE  /\ op' \in [Procs -> OpType] /\ \A q \in Procs \ {p} : op'[q] = op[q]
         /\ op'[p].pc = pc /\ op'[p].i = op[p].i /\ Stays(p) /\ ~op'[p].stale
         /\ op'[p].job = op[p].job /\ op'[p].proj = op[p].proj
<1> DEFINE r == [op[p] EXCEPT !.pc = pc, !.stale = FALSE]
<1>0. op[p] \in OpType
  BY DEF Types
<1>1. op' = [op EXCEPT ![p] = r]
  BY <1>0 DEF Types, OpType
<1>2. /\ r \in OpType /\ r.pc = pc /\ r.i = op[p].i /\ r.fails = op[p].fails
      /\ r.req = op[p].req /\ ~r.stale /\ r.job = op[p].job /\ r.proj = op[p].proj
  BY <1>0 DEF OpType
<1> HIDE DEF r
<1> QED
  BY <1>1, <1>2, MovesTo DEF Stays

LEMMA SceneMoves ==
  ASSUME Types, NEW p \in Procs, NEW pc \in Places, NEW i \in Scenes,
         op' = [op EXCEPT ![p].pc = pc, ![p].i = i, ![p].stale = FALSE]
  PROVE  /\ op' \in [Procs -> OpType] /\ \A q \in Procs \ {p} : op'[q] = op[q]
         /\ op'[p].pc = pc /\ op'[p].i = i /\ Stays(p) /\ ~op'[p].stale
<1> DEFINE r == [op[p] EXCEPT !.pc = pc, !.i = i, !.stale = FALSE]
<1>0. op[p] \in OpType
  BY DEF Types
<1>1. op' = [op EXCEPT ![p] = r]
  BY <1>0 DEF Types, OpType
<1>2. /\ r \in OpType /\ r.pc = pc /\ r.i = i /\ r.fails = op[p].fails
      /\ r.req = op[p].req /\ ~r.stale
  BY <1>0 DEF OpType
<1> HIDE DEF r
<1> QED
  BY <1>1, <1>2, MovesTo DEF Stays

LEMMA ProjMoves ==
  ASSUME Types, NEW p \in Procs, NEW pc \in Places, NEW x \in [Scenes -> OptTakes] \cup OptTakes,
         op' = [op EXCEPT ![p].pc = pc, ![p].proj = x]
  PROVE  /\ op' \in [Procs -> OpType] /\ \A q \in Procs \ {p} : op'[q] = op[q]
         /\ op'[p].pc = pc /\ op'[p].i = op[p].i /\ Stays(p) /\ op'[p].stale = op[p].stale
         /\ op'[p].proj = x /\ op'[p].kind = op[p].kind
<1> DEFINE r == [op[p] EXCEPT !.pc = pc, !.proj = x]
<1>0. op[p] \in OpType
  BY DEF Types
<1>1. op' = [op EXCEPT ![p] = r]
  BY <1>0 DEF Types, OpType
<1>2. /\ r \in OpType /\ r.pc = pc /\ r.i = op[p].i /\ r.fails = op[p].fails
      /\ r.req = op[p].req /\ r.stale = op[p].stale /\ r.proj = x /\ r.kind = op[p].kind
  BY <1>0 DEF OpType
<1> HIDE DEF r
<1> QED
  BY <1>1, <1>2, MovesTo DEF Stays

LEMMA StagesDoes ==
  ASSUME Types, NEW p \in Procs, NEW f \in FileType, Stages(p, f), nextId' = nextId
  PROVE  /\ Only(p)
         /\ \/ op'[p] = Ended(p) /\ NoNext(f)
            \/ /\ op'[p].pc = "submitStage" /\ op'[p].i = op[p].i /\ Stays(p) /\ ~op'[p].stale
               /\ op'[p].kind \in LateStages
<1>0. OpType' = OpType
  BY SameTypes
<1>1. CASE NoNext(f)
  <2>1. End(p)
    BY <1>1 DEF Stages, NoNext
  <2> QED
    BY <1>0, <1>1, <2>1, EndMoves DEF Only
<1>2. CASE ~NoNext(f)
  <2>1. PICK n \in LateStages :
          op' = [op EXCEPT ![p].pc = "submitStage", ![p].kind = n, ![p].stale = FALSE]
    BY <1>2 DEF Stages, NoNext, LateStages
  <2> QED
    <3> DEFINE r == [op[p] EXCEPT !.pc = "submitStage", !.kind = n, !.stale = FALSE]
    <3>1. op[p] \in OpType
      BY DEF Types
    <3>2. op' = [op EXCEPT ![p] = r]
      BY <2>1, <3>1 DEF Types, OpType
    <3>3. /\ r \in OpType /\ r.pc = "submitStage" /\ r.i = op[p].i /\ r.fails = op[p].fails
          /\ r.req = op[p].req /\ ~r.stale /\ r.kind = n
      BY <3>1, PlaceNames DEF OpType
    <3> HIDE DEF r
    <3> QED
      BY <1>0, <2>1, <3>2, <3>3, MovesTo DEF Only, Stays
<1> QED
  BY <1>1, <1>2

LEMMA LookDoes ==
  ASSUME Types, NEW p \in Procs, Look(p)
  PROVE  /\ Only(p)
         /\ \/ /\ op'[p] = Ended(p)
               /\ \/ Failed(file)
                  \/ ~Failed(file) /\ ~AllDone(file) /\ Ready(file) = {}
                  \/ AllDone(file) /\ NoNext(file)
            \/ /\ Stays(p) /\ ~op'[p].stale
               /\ \/ op'[p].pc = "claim" /\ op'[p].i \in Ready(file)
                  \/ /\ op'[p].i = op[p].i
                     /\ \/ op'[p].pc = "halt" /\ Failed(file)
                        \/ op'[p].pc = "scenesDone" /\ AllDone(file)
                        \/ op'[p].pc = "submitStage" /\ op'[p].kind \in LateStages
<1>0. OpType' = OpType
  BY SameTypes DEF Look
<1>1. CASE Failed(file)
  <2>1. CASE End(p)
    BY <1>0, <1>1, <2>1, EndMoves DEF Only
  <2>2. CASE op' = [op EXCEPT ![p].pc = "halt", ![p].stale = FALSE]
    BY <1>0, <1>1, <2>2, FreshMoves, PlaceNames DEF Only
  <2>3. ~AllDone(file)
    BY <1>1 DEF Failed, AllDone
  <2> QED
    BY <1>1, <2>1, <2>2, <2>3 DEF Look
<1>6. Ready(file) \subseteq Scenes
  BY DEF Ready
<1>2. ASSUME NEW i \in Ready(file),
             op' = [op EXCEPT ![p].pc = "claim", ![p].i = i, ![p].stale = FALSE]
      PROVE  /\ Only(p) /\ Stays(p) /\ ~op'[p].stale
             /\ op'[p].pc = "claim" /\ op'[p].i \in Ready(file)
  <2>1. "claim" \in Places
    BY PlaceNames
  <2>2. /\ op' \in [Procs -> OpType] /\ \A q \in Procs \ {p} : op'[q] = op[q]
        /\ op'[p].pc = "claim" /\ op'[p].i = i /\ Stays(p) /\ ~op'[p].stale
    BY <1>2, <1>6, <2>1, SceneMoves
  <2> QED
    BY <1>0, <1>2, <2>2 DEF Only
<1>3. CASE ~Failed(file) /\ ~AllDone(file) /\ Ready(file) = {} /\ End(p)
  BY <1>0, <1>3, EndMoves DEF Only
<1>4. CASE AllDone(file) /\ Stages(p, file)
  <2>1. ~Failed(file)
    BY <1>4 DEF Failed, AllDone
  <2> QED
    BY <1>4, <2>1, StagesDoes DEF Look, Types
<1>5. CASE AllDone(file) /\ op' = [op EXCEPT ![p].pc = "scenesDone", ![p].stale = FALSE]
  BY <1>0, <1>5, FreshMoves, PlaceNames DEF Only
<1> QED
  BY <1>1, <1>2, <1>3, <1>4, <1>5 DEF Look

LEMMA HaltDoes ==
  ASSUME Types, NEW p \in Procs, Halt(p)
  PROVE  /\ Only(p) /\ op'[p] = Ended(p)
         /\ file' \in FileType' /\ file'.scene = file.scene /\ file'.final = file.final
         /\ file'.route = file.route
         /\ \A s \in LateStages : file'.stage[s] = file.stage[s]
  BY EndMoves, SameTypes, StagedIs DEF Halt, Only, Types, StageNames, StageStatuses, LateStages

LEMMA ScenesDoneDoes ==
  ASSUME Types, NEW p \in Procs, ScenesDone(p)
  PROVE  /\ Only(p)
         /\ file' \in FileType' /\ file'.scene = file.scene /\ file'.final = file.final
         /\ file'.route = file.route
         /\ \A s \in LateStages : file'.stage[s] = file.stage[s]
         /\ \/ op'[p] = Ended(p) /\ NoNext(file')
            \/ /\ op'[p].pc = "submitStage" /\ op'[p].i = op[p].i /\ Stays(p) /\ ~op'[p].stale
               /\ op'[p].kind \in LateStages
<1>1. /\ file' \in FileType /\ file'.scene = file.scene /\ file'.final = file.final
      /\ file'.route = file.route
      /\ \A s \in LateStages : file'.stage[s] = file.stage[s]
  BY StagedIs DEF ScenesDone, Types, StageNames, StageStatuses, LateStages
<1> QED
  BY <1>1, StagesDoes, SameTypes DEF ScenesDone

LEMMA ClaimDoes ==
  ASSUME Types, NEW p \in Procs, op[p].i \in Scenes, Claim(p)
  PROVE  /\ Only(p)
         /\ \/ op'[p] = Ended(p) /\ op[p].i \notin Ready(file) /\ file' = file
            \/ /\ op[p].i \in Ready(file)
               /\ file' = SceneSet(file, op[p].i, "running", Claiming) /\ file' \in FileType'
               /\ op'[p].pc \in {"stage", "submit"} /\ op'[p].i = op[p].i /\ Stays(p)
               /\ ~op'[p].stale /\ op'[p].proj = TakesOf(file)
<1>0. OpType' = OpType /\ FileType' = FileType
  BY SameTypes DEF Claim
<1>9. op[p] \in OpType
  BY DEF Types
<1>1. CASE op[p].i \notin Ready(file)
  BY <1>0, <1>1, EndMoves DEF Claim, Only
<1>2. CASE op[p].i \in Ready(file)
  <2>1. TakesOf(file) \in [Scenes -> OptTakes]
    BY TakesOfIs DEF Types
  <2>2. file' = SceneSet(file, op[p].i, "running", Claiming) /\ file' \in FileType
    BY <1>2, SceneSetIs DEF Claim, Types, SceneStatuses
  <2>3. PICK pc \in {"stage", "submit"} :
          op' = [op EXCEPT ![p].pc = pc, ![p].proj = TakesOf(file), ![p].stale = FALSE]
    BY <1>2 DEF Claim
  <2> DEFINE r == [op[p] EXCEPT !.pc = pc, !.proj = TakesOf(file), !.stale = FALSE]
  <2>5. op' = [op EXCEPT ![p] = r]
    BY <2>3 DEF Types, OpType
  <2>6. /\ r \in OpType /\ r.pc = pc /\ r.i = op[p].i /\ r.fails = op[p].fails
        /\ r.req = op[p].req /\ ~r.stale /\ r.proj = TakesOf(file)
    BY <1>9, <2>1, PlaceNames DEF OpType
  <2> HIDE DEF r
  <2>4. /\ Only(p) /\ op'[p].pc = pc /\ op'[p].i = op[p].i /\ Stays(p)
        /\ ~op'[p].stale /\ op'[p].proj = TakesOf(file)
    BY <1>0, <2>5, <2>6, MovesTo DEF Only, Stays
  <2> QED
    BY <1>0, <1>2, <2>2, <2>4
<1> QED
  BY <1>1, <1>2

LEMMA StageScenesDoes ==
  ASSUME Types, NEW p \in Procs, StageScenes(p)
  PROVE  /\ Only(p) /\ Stays(p) /\ op'[p].stale = op[p].stale
         /\ op'[p].pc = "submit" /\ op'[p].i = op[p].i /\ op'[p].proj = TakesOf(file)
         /\ file' \in FileType' /\ file'.scene = file.scene /\ file'.final = file.final
         /\ file'.route = file.route
         /\ \A s \in LateStages : file'.stage[s] = file.stage[s]
<1>1. OpType' = OpType /\ FileType' = FileType
  BY SameTypes DEF StageScenes
<1>2. TakesOf(file) \in [Scenes -> OptTakes]
  BY TakesOfIs DEF Types
<1>3. Only(p) /\ Stays(p) /\ op'[p].stale = op[p].stale
      /\ op'[p].pc = "submit" /\ op'[p].i = op[p].i /\ op'[p].proj = TakesOf(file)
  BY <1>1, <1>2, ProjMoves, PlaceNames DEF StageScenes, Only
<1> QED
  BY <1>1, <1>3, StagedIs DEF StageScenes, Types, StageNames, StageStatuses, LateStages

\* The job a process sends, if it sends one.
LEMMA PostDoes ==
  ASSUME Types, NEW kind \in {"scene", "upscale", "assembly"}, NEW i \in Scenes \cup {0},
         NEW from \in OptTakes, Post(NewJob(kind, i, from))
  PROVE  LET j == NewJob(kind, i, from) IN
         /\ nextId' = nextId + 1 /\ jobs' = jobs \cup {j} /\ jobs' \subseteq JobType'
         /\ j.id = nextId /\ j.kind = kind /\ j.scene = i /\ j.from = from /\ j.state = "pending"
         /\ nextId \in Takes' /\ \A k \in jobs : k.id # nextId
<1>1. nextId' = nextId + 1 /\ jobs' = jobs \cup {NewJob(kind, i, from)} /\ nextId \in Nat \ {0}
  BY DEF Post, Types
<1>2. JobType \subseteq JobType' /\ Takes' = Takes \cup {nextId} /\ OptTakes' = OptTakes \cup {nextId}
  BY <1>1, MoreTypes
<1>3. NewJob(kind, i, from) \in JobType'
  BY <1>2 DEF NewJob, JobType
<1>4. \A k \in jobs : k.id # nextId
  BY <1>1 DEF Types, JobType
<1> QED
  BY <1>1, <1>2, <1>3, <1>4 DEF NewJob, Types

LEMMA SubmitDoes ==
  ASSUME Types, NEW p \in Procs, op[p].i \in Scenes, op[p].proj \in [Scenes -> OptTakes], Submit(p)
  PROVE  LET i == op[p].i
             from == IF Chained(i) THEN op[p].proj[i - 1] ELSE Null
         IN /\ Only(p) /\ Stays(p) /\ op'[p].i = i /\ op'[p].stale = op[p].stale
            /\ \/ /\ op'[p].pc = "record" /\ op'[p].proj = nextId
                  /\ Post(NewJob("scene", i, from)) /\ from \in OptTakes
               \/ /\ op'[p].pc = "rollback" /\ nextId' = nextId /\ jobs' = jobs
<1> DEFINE i == op[p].i
           from == IF Chained(i) THEN op[p].proj[i - 1] ELSE Null
<1>1. from \in OptTakes
  BY ChainAssumption DEF Chained
<1>2. CASE Post(NewJob("scene", i, from)) /\ op' = [op EXCEPT ![p].pc = "record", ![p].proj = nextId]
  <2>1. nextId \in Nat \ {0} /\ nextId' = nextId + 1
    BY <1>2 DEF Post, Types
  <2>2. OpType \subseteq OpType' /\ OptTakes' = OptTakes \cup {nextId}
    BY <2>1, MoreTypes
  <2> DEFINE r == [op[p] EXCEPT !.pc = "record", !.proj = nextId]
  <2>3. op[p] \in OpType /\ op \in [Procs -> OpType]
    BY DEF Types
  <2>4. op' = [op EXCEPT ![p] = r]
    BY <1>2, <2>3 DEF OpType
  <2>5. /\ r.pc = "record" /\ r.i = i /\ r.fails = op[p].fails /\ r.req = op[p].req
        /\ r.stale = op[p].stale /\ r.proj = nextId
    BY <2>3 DEF OpType
  <2>6. r \in OpType'
    BY <2>2, <2>3, PlaceNames DEF OpType
  <2> HIDE DEF r, from
  <2> QED
    BY <1>1, <1>2, <2>2, <2>3, <2>4, <2>5, <2>6 DEF Only, Stays, from
<1>3. CASE Goto(p, "rollback") /\ UNCHANGED <<jobs, nextId>>
  <2>1. OpType' = OpType
    BY <1>3, SameTypes
  <2> QED
    BY <1>3, <2>1, GotoMoves, PlaceNames DEF Only, Stays
<1> QED
  BY <1>2, <1>3 DEF Submit

LEMMA RecordDoes ==
  ASSUME Types, NEW p \in Procs, op[p].i \in Scenes, op[p].proj \in Takes, Record(p)
  PROVE  /\ Only(p) /\ op'[p] = Ended(p)
         /\ file' = SceneSet(file, op[p].i, "running", op[p].proj) /\ file' \in FileType'
<1>1. OpType' = OpType /\ FileType' = FileType
  BY SameTypes DEF Record
<1> QED
  BY <1>1, EndMoves, SceneSetIs DEF Record, Only, Types, SceneStatuses

LEMMA RollbackDoes ==
  ASSUME Types, NEW p \in Procs, op[p].i \in Scenes, Rollback(p)
  PROVE  /\ Only(p) /\ file' \in FileType'
         /\ \/ /\ op[p].fails /\ op'[p].pc = "halt" /\ op'[p].i = op[p].i /\ Stays(p)
               /\ op'[p].stale = op[p].stale
               /\ file' = SceneSet(file, op[p].i, "failed", Null)
            \/ /\ ~op[p].fails /\ file' = SceneSet(file, op[p].i, "pending", Null)
               /\ \/ op'[p].pc = "unstage" /\ Stays(p) /\ op[p].req = "approve"
                  \/ op'[p] = Idle
<1>1. OpType' = OpType /\ FileType' = FileType
  BY SameTypes DEF Rollback
<1>2. file' \in FileType
  <2>1. PICK v \in {"failed", "pending"} : file' = SceneSet(file, op[p].i, v, Null)
    BY DEF Rollback
  <2>2. v \in SceneStatuses /\ Null \in OptTakes \cup {Claiming}
    BY DEF SceneStatuses
  <2> QED
    BY <2>1, <2>2, SceneSetIs DEF Types
<1>3. CASE op[p].fails
  <2>1. Goto(p, "halt") /\ file' = SceneSet(file, op[p].i, "failed", Null)
    BY <1>3 DEF Rollback
  <2> QED
    BY <1>1, <1>2, <1>3, <2>1, GotoMoves, PlaceNames DEF Only, Stays
<1>4. CASE ~op[p].fails /\ Goto(p, "unstage") /\ op[p].req = "approve"
  BY <1>1, <1>2, <1>4, GotoMoves, PlaceNames DEF Only, Stays, Rollback
<1>5. CASE ~op[p].fails /\ op' = [op EXCEPT ![p] = Idle]
  BY <1>1, <1>2, <1>5, MovesTo, IdleIs DEF Only, Rollback
<1> QED
  BY <1>3, <1>4, <1>5 DEF Rollback

\* A process that goes nowhere but idle.
LEMMA IdleMoves ==
  ASSUME Types, NEW p \in Procs, op' = [op EXCEPT ![p] = Idle], nextId' = nextId
  PROVE  Only(p) /\ op'[p] = Idle
  BY SameTypes, MovesTo, IdleIs DEF Only

LEMMA UnstageDoes ==
  ASSUME Types, NEW p \in Procs, Unstage(p)
  PROVE  /\ Only(p) /\ op'[p] = Idle
         /\ file' \in FileType' /\ file'.scene = file.scene /\ file'.final = file.final
         /\ file'.route = file.route
         /\ \A s \in LateStages : file'.stage[s] = file.stage[s]
<1>1. FileType' = FileType /\ nextId' = nextId
  BY SameTypes DEF Unstage
<1>2. Only(p) /\ op'[p] = Idle
  BY <1>1, IdleMoves DEF Unstage
<1>3. CASE file.stage.scenes = "running"
  BY <1>1, <1>2, <1>3, StagedIs DEF Unstage, Types, StageNames, StageStatuses, LateStages
<1>4. CASE file.stage.scenes # "running"
  BY <1>1, <1>2, <1>4 DEF Unstage, Types
<1> QED
  BY <1>3, <1>4

LEMMA SubmitStageDoes ==
  ASSUME Types, NEW p \in Procs, op[p].kind \in LateStages, SubmitStage(p)
  PROVE  /\ Only(p)
         /\ \/ /\ op'[p].pc = "stageRuns" /\ op'[p].proj = nextId /\ op'[p].i = op[p].i
               /\ op'[p].kind = op[p].kind /\ Stays(p) /\ op'[p].stale = op[p].stale
               /\ Post(NewJob(op[p].kind, 0, Null))
            \/ /\ op[p].fails /\ op'[p].pc = "stageFails" /\ op'[p].i = op[p].i
               /\ op'[p].kind = op[p].kind /\ Stays(p) /\ op'[p].stale = op[p].stale
               /\ nextId' = nextId /\ jobs' = jobs
            \/ op'[p] = Idle /\ nextId' = nextId /\ jobs' = jobs /\ "refused" \in blame'
<1>1. CASE /\ Post(NewJob(op[p].kind, 0, Null))
           /\ op' = [op EXCEPT ![p].pc = "stageRuns", ![p].proj = nextId]
  <2>1. nextId \in Nat \ {0} /\ nextId' = nextId + 1
    BY <1>1 DEF Post, Types
  <2>2. OpType \subseteq OpType' /\ OptTakes' = OptTakes \cup {nextId}
    BY <2>1, MoreTypes
  <2> DEFINE r == [op[p] EXCEPT !.pc = "stageRuns", !.proj = nextId]
  <2>3. op[p] \in OpType /\ op \in [Procs -> OpType]
    BY DEF Types
  <2>4. op' = [op EXCEPT ![p] = r]
    BY <1>1, <2>3 DEF OpType
  <2>5. /\ r.pc = "stageRuns" /\ r.i = op[p].i /\ r.fails = op[p].fails /\ r.req = op[p].req
        /\ r.stale = op[p].stale /\ r.proj = nextId /\ r.kind = op[p].kind
    BY <2>3 DEF OpType
  <2>6. r \in OpType'
    BY <2>2, <2>3, PlaceNames DEF OpType
  <2> HIDE DEF r
  <2> QED
    BY <1>1, <2>2, <2>3, <2>4, <2>5, <2>6 DEF Only, Stays
<1>2. CASE Goto(p, "stageFails") /\ op[p].fails /\ UNCHANGED <<jobs, nextId>>
  <2>1. OpType' = OpType
    BY <1>2, SameTypes
  <2> QED
    BY <1>2, <2>1, GotoMoves, PlaceNames DEF Only, Stays
<1>3. CASE /\ op' = [op EXCEPT ![p] = Idle] /\ blame' = blame \cup {"refused"}
           /\ UNCHANGED <<jobs, nextId>>
  BY <1>3, IdleMoves
<1> QED
  BY <1>1, <1>2, <1>3 DEF SubmitStage

LEMMA StageRunsDoes ==
  ASSUME Types, NEW p \in Procs, op[p].kind \in LateStages, StageRuns(p)
  PROVE  /\ Only(p) /\ op'[p] = Ended(p)
         /\ file' \in FileType' /\ file'.scene = file.scene /\ file'.final = file.final
         /\ file'.route = file.route
         /\ file'.stage[op[p].kind] = "running"
         /\ \A s \in LateStages \ {op[p].kind} : file'.stage[s] = file.stage[s]
  BY EndMoves, SameTypes, StagedIs DEF StageRuns, Only, Types, StageNames, StageStatuses, LateStages

LEMMA StageFailsDoes ==
  ASSUME Types, NEW p \in Procs, op[p].kind \in LateStages, StageFails(p)
  PROVE  /\ Only(p) /\ op'[p] = Idle
         /\ file' \in FileType' /\ file'.scene = file.scene /\ file'.final = file.final
         /\ file'.route = file.route
         /\ file'.stage[op[p].kind] = "failed"
         /\ \A s \in LateStages \ {op[p].kind} : file'.stage[s] = file.stage[s]
<1>1. Only(p) /\ op'[p] = Idle
  BY IdleMoves DEF StageFails
<1> QED
  BY <1>1, SameTypes, StagedIs DEF StageFails, Types, StageNames, StageStatuses, LateStages

-----------------------------------------------------------------------------
(* The pages.                                                              *)

LEMMA ApproveDoes ==
  ASSUME Types, NEW p \in Procs, Approve(p)
  PROVE  /\ Only(p)
         /\ op'[p].pc = "save" /\ op'[p].proj = file /\ op'[p].req = "approve"
         /\ op'[p].fails = op[p].fails
<1>1. OpType' = OpType
  BY SameTypes DEF Approve
<1> DEFINE r == [op[p] EXCEPT !.pc = "save", !.proj = file, !.req = "approve"]
<1>2. op[p] \in OpType /\ file \in FileType
  BY DEF Types
<1>3. op' = [op EXCEPT ![p] = r]
  BY <1>2 DEF Approve, Types, OpType
<1>4. /\ r \in OpType /\ r.pc = "save" /\ r.proj = file /\ r.req = "approve"
      /\ r.fails = op[p].fails
  BY <1>2, PlaceNames DEF OpType
<1> HIDE DEF r
<1> QED
  BY <1>1, <1>3, <1>4, MovesTo DEF Only

LEMMA SaveDoes ==
  ASSUME Types, NEW p \in Procs, Save(p)
  PROVE  /\ Only(p) /\ op'[p].pc = "look" /\ op'[p].i = 0 /\ ~op'[p].stale /\ ~op'[p].fails
         /\ op'[p].req = op[p].req
         /\ file' = op[p].proj
         /\ \/ file' = file /\ torn' = torn /\ blame' = blame
            \/ torn' = torn \cup Scenes /\ blame' = blame \cup {"saved"}
<1>1. OpType' = OpType
  BY SameTypes DEF Save
<1>2. Advance(p, FALSE)
  BY DEF Save
<1>3. /\ Only(p) /\ op'[p].pc = "look" /\ op'[p].i = 0 /\ ~op'[p].stale /\ ~op'[p].fails
      /\ op'[p].req = op[p].req
  BY <1>1, <1>2, AdvanceMoves DEF Only
<1> QED
  BY <1>3 DEF Save

LEMMA ApprovedDoes ==
  ASSUME Types, NEW p \in Procs, Approved(p)
  PROVE  Only(p) /\ op'[p] = Idle
  BY IdleMoves DEF Approved

\* A page that turns to scene i, or to a stage.
LEMMA TurnMoves ==
  ASSUME Types, NEW p \in Procs, NEW i \in Scenes, op' = [op EXCEPT ![p].pc = "invalidate", ![p].i = i]
  PROVE  /\ op' \in [Procs -> OpType] /\ \A q \in Procs \ {p} : op'[q] = op[q]
         /\ op'[p].pc = "invalidate" /\ op'[p].i = i /\ Stays(p)
<1> DEFINE r == [op[p] EXCEPT !.pc = "invalidate", !.i = i]
<1>0. op[p] \in OpType
  BY DEF Types
<1>1. op' = [op EXCEPT ![p] = r]
  BY <1>0 DEF Types, OpType
<1>2. /\ r \in OpType /\ r.pc = "invalidate" /\ r.i = i /\ r.fails = op[p].fails
      /\ r.req = op[p].req
  BY <1>0, PlaceNames DEF OpType
<1> HIDE DEF r
<1> QED
  BY <1>1, <1>2, MovesTo DEF Stays

LEMMA RetryDoes ==
  ASSUME Types, NEW p \in Procs, NEW i \in Scenes, Retry(p, i)
  PROVE  /\ Only(p) /\ op'[p].pc = "invalidate" /\ op'[p].i = i /\ Stays(p)
         /\ jobs' \subseteq JobType'
         /\ (\A j, k \in jobs : j.id = k.id => j = k) => \A j, k \in jobs' : j.id = k.id => j = k
         /\ \A j \in jobs' : \E k \in jobs :
              /\ j.id = k.id /\ j.kind = k.kind /\ j.scene = k.scene /\ j.from = k.from
              /\ j.state = k.state
         /\ \A k \in jobs : k.state # "pending" \/ k.kind = "assembly" \/ (k.kind = "scene" /\ k.scene < i) =>
              \E j \in jobs' :
                /\ j.id = k.id /\ j.kind = k.kind /\ j.scene = k.scene /\ j.from = k.from
                /\ j.state = k.state
         /\ blame = {} /\ blame' = {} => \A k \in jobs : k.kind = "scene" /\ k.scene >= i /\ k.state = "pending" => k.scene \in Tail(i)
<1>1. OpType' = OpType /\ JobType' = JobType
  BY SameTypes DEF Retry
<1>2. Only(p) /\ op'[p].pc = "invalidate" /\ op'[p].i = i /\ Stays(p)
  BY <1>1, TurnMoves DEF Retry, Only
<1> DEFINE Cut == TailJobs(i) \cup Upscales("pending")
           C(j) == IF j \in Upscales("running") THEN [j EXCEPT !.cancel = TRUE] ELSE j
<1>3. jobs' = {C(j) : j \in jobs \ Cut}
  BY DEF Retry
<1>4. \A j \in JobType : /\ C(j) \in JobType /\ C(j).id = j.id /\ C(j).kind = j.kind
                         /\ C(j).scene = j.scene /\ C(j).from = j.from /\ C(j).state = j.state
  BY DEF JobType
<1>5. jobs \subseteq JobType
  BY DEF Types
<1> HIDE DEF C
<1>6. \A k \in jobs : k.state # "pending" \/ k.kind = "assembly" \/ (k.kind = "scene" /\ k.scene < i)
        => k \notin Cut
  BY <1>5, ChainAssumption DEF TailJobs, Upscales, JobType
<1>7. blame' = {} => \A k \in jobs : k.kind = "scene" /\ k.scene >= i /\ k.state = "pending" => k.scene \in Tail(i)
  BY DEF Retry, TailJobs
<1> HIDE DEF Cut
<1>8. (\A j, k \in jobs : j.id = k.id => j = k) => \A j, k \in jobs' : j.id = k.id => j = k
  BY <1>3, <1>4, <1>5
<1> QED
  BY <1>1, <1>2, <1>3, <1>4, <1>5, <1>6, <1>7, <1>8

\* What the others read is old for whom carries something of a scene in reset.
LEMMA UpsetDoes ==
  ASSUME Types, NEW p \in Procs, NEW reset \in SUBSET Scenes, Upset(p, reset), nextId' = nextId
  PROVE  /\ op' \in [Procs -> OpType']
         /\ op'[p].pc = "look" /\ op'[p].i = 0 /\ ~op'[p].stale /\ ~op'[p].fails
         /\ op'[p].req = Null
         /\ \A q \in Procs \ {p} :
              /\ op'[q].pc = op[q].pc /\ op'[q].req = op[q].req /\ op'[q].kind = op[q].kind
              /\ op'[q].i = op[q].i /\ op'[q].job = op[q].job /\ op'[q].proj = op[q].proj
              /\ op'[q].ok = op[q].ok /\ op'[q].fails = op[q].fails
              /\ op[q].stale => op'[q].stale
              /\ op[q].pc \in Carrying /\ op[q].i \in reset \cup {0} => op'[q].stale
<1> DEFINE l == [Idle EXCEPT !.pc = "look"]
           st(q) == op[q].stale \/ (op[q].pc \in Carrying /\ op[q].i \in reset \cup {0})
           r(q) == [op[q] EXCEPT !.stale = st(q)]
<1>0. OpType' = OpType
  BY SameTypes
<1>1. /\ l \in OpType /\ l.pc = "look" /\ l.i = 0 /\ ~l.stale /\ ~l.fails /\ l.req = Null
  BY IdleIs, PlaceNames DEF OpType, Idle
<1>2. \A q \in Procs :
        /\ r(q) \in OpType
        /\ r(q).pc = op[q].pc /\ r(q).req = op[q].req /\ r(q).kind = op[q].kind
        /\ r(q).i = op[q].i /\ r(q).job = op[q].job /\ r(q).proj = op[q].proj
        /\ r(q).ok = op[q].ok /\ r(q).fails = op[q].fails
        /\ r(q).stale = st(q)
  <2> TAKE q \in Procs
  <2>1. op[q] \in OpType /\ st(q) \in BOOLEAN
    BY DEF Types, OpType
  <2> HIDE DEF st
  <2> QED
    BY <2>1 DEF OpType
<1>3. op' = [q \in Procs |-> IF q = p THEN l ELSE r(q)]
  BY DEF Upset
<1>4. \A q \in Procs : /\ op[q].stale => st(q)
                       /\ op[q].pc \in Carrying /\ op[q].i \in reset \cup {0} => st(q)
  OBVIOUS
<1> HIDE DEF l, r, st
<1> QED
  BY <1>0, <1>1, <1>2, <1>3, <1>4

LEMMA InvalidateDoes ==
  ASSUME Types, NEW p \in Procs, op[p].i \in Scenes, Invalidate(p)
  PROVE  /\ Upset(p, Tail(op[p].i)) /\ file' \in FileType'
         /\ \A k \in Tail(op[p].i) : file'.scene[k] = Blank
         /\ \A k \in Scenes \ Tail(op[p].i) : file'.scene[k] = file.scene[k]
         /\ \A s \in LateStages : file'.stage[s] = "draft"
         /\ torn' = torn \ (Tail(op[p].i) \cup {Final})
<1> DEFINE reset == Tail(op[p].i)
           sc == [k \in Scenes |-> IF k \in reset THEN Blank ELSE file.scene[k]]
           st == [s \in StageNames |-> "draft"]
<1>1. /\ FileType' = FileType /\ file \in FileType
  BY SameTypes DEF Invalidate, Types
<1>2. sc \in [Scenes -> SceneType] /\ st \in [StageNames -> StageStatuses]
  BY <1>1 DEF FileType, SceneType, Blank, SceneStatuses, StageStatuses
<1>3. file' = [file EXCEPT !.scene = sc, !.stage = st, !.final = Null]
  BY <1>1 DEF Invalidate, FileType
<1>4. Upset(p, reset) /\ torn' = torn \ (reset \cup {Final})
  BY DEF Invalidate
<1>5. \A k \in reset : sc[k] = Blank
  BY TailRuns
<1>6. \A k \in Scenes \ reset : sc[k] = file.scene[k]
  OBVIOUS
<1> HIDE DEF sc, st, reset
<1>7. file' \in FileType /\ file'.scene = sc /\ file'.stage = st
  BY <1>1, <1>2, <1>3 DEF FileType
<1>8. \A s \in LateStages : st[s] = "draft"
  BY DEF st, LateStages, StageNames
<1> QED
  BY <1>1, <1>4, <1>5, <1>6, <1>7, <1>8 DEF reset

LEMMA RetryStageDoes ==
  ASSUME Types, NEW p \in Procs, NEW s \in LateStages, RetryStage(p, s)
  PROVE  /\ Only(p) /\ op'[p].pc = "draft" /\ op'[p].kind = s /\ Stays(p)
<1>1. OpType' = OpType
  BY SameTypes DEF RetryStage
<1> DEFINE r == [op[p] EXCEPT !.pc = "draft", !.kind = s]
<1>2. op[p] \in OpType
  BY DEF Types
<1>3. op' = [op EXCEPT ![p] = r]
  BY <1>2 DEF RetryStage, Types, OpType
<1>4. /\ r \in OpType /\ r.pc = "draft" /\ r.kind = s /\ r.req = op[p].req
      /\ r.fails = op[p].fails
  BY <1>2, PlaceNames DEF OpType
<1> HIDE DEF r
<1> QED
  BY <1>1, <1>3, <1>4, MovesTo DEF Only, Stays

LEMMA DraftDoes ==
  ASSUME Types, NEW p \in Procs, op[p].kind \in LateStages, Draft(p)
  PROVE  /\ Only(p) /\ op'[p].pc = "look" /\ op'[p].i = 0 /\ ~op'[p].stale /\ ~op'[p].fails
         /\ op'[p].req = op[p].req
         /\ file' \in FileType' /\ file'.scene = file.scene /\ file'.final = file.final
         /\ file'.stage[op[p].kind] = "draft"
         /\ \A s \in LateStages \ {op[p].kind} : file'.stage[s] = file.stage[s]
<1>1. OpType' = OpType /\ FileType' = FileType
  BY SameTypes DEF Draft
<1>2. Advance(p, FALSE)
  BY DEF Draft
<1>3. /\ Only(p) /\ op'[p].pc = "look" /\ op'[p].i = 0 /\ ~op'[p].stale /\ ~op'[p].fails
      /\ op'[p].req = op[p].req
  BY <1>1, <1>2, AdvanceMoves DEF Only
<1> QED
  BY <1>1, <1>3, StagedIs DEF Draft, Types, StageNames, StageStatuses, LateStages

LEMMA RouteDoes ==
  ASSUME Types, NEW p \in Procs, Route(p)
  PROVE  Only(p) /\ op'[p].pc = "route" /\ Stays(p)
  BY GotoMoves, SameTypes, PlaceNames DEF Route, Only, Stays

LEMMA SetRouteDoes ==
  ASSUME Types, NEW p \in Procs, SetRoute(p)
  PROVE  /\ Only(p) /\ op'[p].req = op[p].req
         /\ \/ /\ op'[p].pc = "rebuild" /\ op'[p].fails = op[p].fails
            \/ /\ op'[p].pc = "look" /\ op'[p].i = 0 /\ ~op'[p].stale /\ ~op'[p].fails
         /\ file' \in FileType' /\ file'.scene = file.scene /\ file'.final = file.final
         /\ file'.stage = file.stage
<1>1. OpType' = OpType /\ FileType' = FileType
  BY SameTypes DEF SetRoute
<1>2. /\ file' \in FileType' /\ file'.scene = file.scene /\ file'.final = file.final
      /\ file'.stage = file.stage
  BY <1>1 DEF SetRoute, Types, FileType
<1>3. CASE Goto(p, "rebuild")
  BY <1>1, <1>2, <1>3, GotoMoves, PlaceNames DEF Only
<1>4. CASE Advance(p, FALSE)
  BY <1>1, <1>2, <1>4, AdvanceMoves DEF Only
<1> QED
  BY <1>3, <1>4 DEF SetRoute

LEMMA RebuildDoes ==
  ASSUME Types, NEW p \in Procs, Rebuild(p)
  PROVE  /\ Upset(p, {}) /\ file' \in FileType' /\ file'.scene = file.scene
         /\ file'.stage["assembly"] = "draft" /\ file'.stage["upscale"] = file.stage["upscale"]
<1>1. /\ FileType' = FileType /\ file \in FileType
  BY SameTypes DEF Rebuild, Types
<1> DEFINE f == Staged(file, "assembly", "draft")
<1>2. /\ f \in FileType /\ f.scene = file.scene
      /\ f.stage["assembly"] = "draft" /\ f.stage["upscale"] = file.stage["upscale"]
  BY <1>1, StagedIs DEF StageNames, StageStatuses
<1> HIDE DEF f
<1>3. file' = FinalSet(f, Null)
  BY DEF f, Rebuild
<1> QED
  BY <1>1, <1>2, <1>3, FinalSetIs DEF Rebuild

LEMMA CancelDoes ==
  ASSUME Types, NEW p \in Procs, NEW j \in jobs, Cancel(p, j)
  PROVE  /\ op' = op /\ jobs' = jobs \ {j} /\ j.state = "pending"
         /\ file' \in FileType' /\ file'.scene = file.scene /\ file'.final = file.final
         /\ file'.route = file.route /\ file'.stage["assembly"] = file.stage["assembly"]
         /\ \/ file' = file /\ "removed" \in blame'
            \/ file'.stage["upscale"] = "failed" /\ j.kind = "upscale"
<1>1. /\ FileType' = FileType /\ file \in FileType
  BY SameTypes DEF Cancel, Types
<1>2. CASE j.kind = "upscale" /\ file.stage.upscale = "running"
  BY <1>1, <1>2, StagedIs DEF Cancel, StageNames, StageStatuses
<1>3. CASE ~(j.kind = "upscale" /\ file.stage.upscale = "running")
  BY <1>1, <1>3 DEF Cancel
<1> QED
  BY <1>2, <1>3

-----------------------------------------------------------------------------
(* The worker.                                                             *)

LEMMA WorkerIs == Worker \in Procs
  OBVIOUS

LEMMA ToFileMoves ==
  ASSUME Types, w.job \in Takes, ToFile, nextId' = nextId
  PROVE  /\ Only(Worker) /\ w'.pc = "file" /\ w'.job = w.job /\ ~w'.stale /\ ~w'.fails
         /\ w'.req = Null
<1>1. OpType' = OpType
  BY SameTypes
<1> DEFINE r == [Idle EXCEPT !.pc = "file", !.job = w.job]
<1>2. /\ r \in OpType /\ r.pc = "file" /\ r.job = w.job /\ ~r.stale /\ ~r.fails /\ r.req = Null
  BY IdleIs, PlaceNames DEF OpType, Idle
<1>3. op' = [op EXCEPT ![Worker] = r]
  BY DEF ToFile
<1> HIDE DEF r
<1> QED
  BY <1>1, <1>2, <1>3, MovesTo, WorkerIs DEF Only, w

LEMMA WGotoMoves ==
  ASSUME Types, NEW pc \in Places, WGoto(pc), nextId' = nextId
  PROVE  /\ Only(Worker) /\ Stays(Worker) /\ w'.pc = pc /\ w'.i = w.i /\ w'.stale = w.stale
         /\ w'.job = w.job /\ w'.proj = w.proj
  BY GotoMoves, SameTypes, WorkerIs DEF WGoto, Only, Stays, w

LEMMA TakeDoes ==
  ASSUME Types, Take
  PROVE  \E j \in jobs : LET k == [j EXCEPT !.state = "running"] IN
           /\ j.state = "pending" /\ jobs' = (jobs \ {j}) \cup {k} /\ k \in JobType'
           /\ k.id = j.id /\ k.kind = j.kind /\ k.scene = j.scene /\ k.from = j.from
           /\ k.state = "running"
           /\ Only(Worker) /\ Stays(Worker) /\ w'.job = j.id /\ w'.i = j.scene
           /\ w'.stale = w.stale
           /\ j.kind = "scene" => w'.pc = "shoot"
           /\ j.kind = "upscale" => w'.pc = "wanted"
           /\ j.kind = "assembly" => w'.pc = "gather"
           /\ blame' = {} => ~Unrecorded(j)
<1>1. OpType' = OpType /\ JobType' = JobType
  BY SameTypes DEF Take
<1>2. PICK j \in jobs :
        /\ j.state = "pending"
        /\ jobs' = (jobs \ {j}) \cup {[j EXCEPT !.state = "running"]}
        /\ op' = [op EXCEPT ![Worker].job = j.id, ![Worker].i = j.scene,
                            ![Worker].pc = CASE j.kind = "scene" -> "shoot"
                                             [] j.kind = "upscale" -> "wanted"
                                             [] j.kind = "assembly" -> "gather"]
        /\ blame' = IF Unrecorded(j) THEN blame \cup {"outran"} ELSE blame
  BY DEF Take
<1>3. j \in JobType
  BY DEF Types
<1> DEFINE k == [j EXCEPT !.state = "running"]
           pc == CASE j.kind = "scene" -> "shoot"
                   [] j.kind = "upscale" -> "wanted"
                   [] j.kind = "assembly" -> "gather"
           r == [w EXCEPT !.job = j.id, !.i = j.scene, !.pc = pc]
<1>4. /\ k \in JobType /\ k.id = j.id /\ k.kind = j.kind /\ k.scene = j.scene /\ k.from = j.from
      /\ k.state = "running"
  BY <1>3 DEF JobType
<1>5. /\ pc \in Places
      /\ j.kind = "scene" => pc = "shoot"
      /\ j.kind = "upscale" => pc = "wanted"
      /\ j.kind = "assembly" => pc = "gather"
  BY <1>3, PlaceNames DEF JobType
<1> HIDE DEF pc
<1>6. w \in OpType
  BY DEF Types, w
<1>10. op' = [op EXCEPT ![Worker].job = j.id, ![Worker].i = j.scene, ![Worker].pc = pc]
  BY <1>2 DEF pc
<1>7. op' = [op EXCEPT ![Worker] = r]
  BY <1>10, <1>6 DEF Types, OpType, w
<1>8. /\ r \in OpType /\ r.pc = pc /\ r.i = j.scene /\ r.job = j.id /\ r.stale = w.stale
      /\ r.fails = w.fails /\ r.req = w.req
  BY <1>3, <1>5, <1>6 DEF OpType, JobType
<1> HIDE DEF r, k
<1>9. Only(Worker) /\ w' = r
  BY <1>1, <1>7, <1>8, MovesTo, WorkerIs DEF Only, w
<1> QED
  BY <1>1, <1>2, <1>4, <1>5, <1>8, <1>9 DEF Stays, w, k

LEMMA ShootDoes ==
  ASSUME Types, NEW j \in jobs, j.id = w.job, \A k \in jobs : k.id = w.job => k = j, Shoot
  PROVE  /\ Only(Worker) /\ Stays(Worker) /\ w'.pc = "check" /\ w'.i = w.i /\ w'.job = w.job
         /\ w'.stale = w.stale
         /\ w'.proj \in Shots' /\ w'.proj.take = w.job /\ w'.proj.from = j.from
         /\ jobs' = {k \in jobs : k.id # w.job}
<1>1. OpType' = OpType /\ Shots' = Shots
  BY SameTypes DEF Shoot
<1>2. MyJob = j
  BY DEF MyJob, Same
<1>3. PICK ok \in BOOLEAN :
        op' = [op EXCEPT ![Worker].pc = "check", ![Worker].ok = ok,
                         ![Worker].proj = [take |-> w.job, from |-> j.from]]
  BY <1>2 DEF Shoot
<1> DEFINE x == [take |-> w.job, from |-> j.from]
           r == [w EXCEPT !.pc = "check", !.ok = ok, !.proj = x]
<1>4. j \in JobType /\ w \in OpType
  BY DEF Types, w
<1>5. x \in Shots /\ x.take = w.job /\ x.from = j.from
  BY <1>4 DEF Shots, JobType
<1> HIDE DEF x
<1>6. op' = [op EXCEPT ![Worker] = r]
  BY <1>3, <1>4 DEF Types, OpType, w, x
<1>7. /\ r \in OpType /\ r.pc = "check" /\ r.i = w.i /\ r.job = w.job /\ r.stale = w.stale
      /\ r.proj = x /\ r.fails = w.fails /\ r.req = w.req
  BY <1>4, <1>5, PlaceNames DEF OpType
<1> HIDE DEF r
<1>8. Only(Worker) /\ w' = r
  BY <1>1, <1>6, <1>7, MovesTo, WorkerIs DEF Only, w
<1> QED
  BY <1>1, <1>5, <1>7, <1>8 DEF Stays, w, Shoot, Filed, Same

LEMMA CheckDoes ==
  ASSUME Types, Check
  PROVE  /\ Only(Worker)
         /\ \/ /\ file.scene[w.i].job = w.job
               /\ w'.pc = "write" /\ w'.i = w.i /\ w'.job = w.job /\ w'.proj = w.proj
               /\ ~w'.stale /\ Stays(Worker)
            \/ file.scene[w.i].job # w.job /\ w' = Idle
<1>1. OpType' = OpType
  BY SameTypes DEF Check
<1>2. CASE file.scene[w.i].job = w.job
  BY <1>1, <1>2, FreshMoves, PlaceNames, WorkerIs DEF Check, Only, w, Stays
<1>3. CASE file.scene[w.i].job # w.job
  BY <1>1, <1>3, IdleMoves, WorkerIs DEF Check, w
<1> QED
  BY <1>2, <1>3

LEMMA WriteDoes ==
  ASSUME Types, w.i \in Scenes, w.proj \in Shots, Write
  PROVE  /\ Only(Worker) /\ w'.pc = "look" /\ w'.i = 0 /\ ~w'.stale /\ w'.req = w.req
         /\ file' \in FileType' /\ file'.stage = file.stage /\ file'.final = file.final
         /\ \A k \in Scenes \ {w.i} : file'.scene[k] = file.scene[k]
         /\ file'.scene[w.i].job = file.scene[w.i].job
         /\ file'.scene[w.i].ltx = file.scene[w.i].ltx
         /\ \/ file'.scene[w.i].status = "done" /\ file'.scene[w.i].clip = w.proj
            \/ /\ file'.scene[w.i].status = "failed"
               /\ file'.scene[w.i].clip = file.scene[w.i].clip
<1>1. OpType' = OpType /\ FileType' = FileType
  BY SameTypes DEF Write
<1>2. /\ Only(Worker) /\ w'.pc = "look" /\ w'.i = 0 /\ ~w'.stale /\ w'.req = w.req
  BY <1>1, AdvanceMoves, WorkerIs DEF Write, Only, w
<1> DEFINE v == IF w.ok THEN "done" ELSE "failed"
           c == IF w.ok THEN w.proj ELSE file.scene[w.i].clip
           r == [file.scene[w.i] EXCEPT !.status = v, !.clip = c]
<1>3. file.scene \in [Scenes -> SceneType] /\ file.scene[w.i] \in SceneType /\ file \in FileType
  BY DEF Types, FileType
<1>4. /\ r \in SceneType /\ r.job = file.scene[w.i].job /\ r.ltx = file.scene[w.i].ltx
      /\ \/ r.status = "done" /\ r.clip = w.proj
         \/ r.status = "failed" /\ r.clip = file.scene[w.i].clip
  BY <1>3 DEF SceneType, SceneStatuses
<1>5. file' = [file EXCEPT !.scene = [file.scene EXCEPT ![w.i] = r]]
  BY <1>3 DEF Write, FileType, SceneType
<1> HIDE DEF r
<1>6. /\ file' \in FileType /\ file'.stage = file.stage /\ file'.final = file.final
      /\ \A k \in Scenes \ {w.i} : file'.scene[k] = file.scene[k]
      /\ file'.scene[w.i] = r
  BY <1>3, <1>4, <1>5 DEF FileType
<1> QED
  BY <1>1, <1>2, <1>4, <1>6

LEMMA NoCardDoes ==
  ASSUME Types, NoCard
  PROVE  /\ Only(Worker) /\ Stays(Worker) /\ w'.pc = "markUpscale" /\ w'.i = w.i
         /\ w'.stale = w.stale /\ w'.job = w.job
  BY WGotoMoves, PlaceNames DEF NoCard

LEMMA WantedDoes ==
  ASSUME Types, w.job \in Takes, Wanted
  PROVE  /\ Only(Worker) /\ w'.job = w.job
         /\ \/ /\ w'.pc = "takes" /\ Stays(Worker) /\ w'.stale = w.stale
               /\ file.stage["upscale"] = "running"
            \/ /\ w'.pc = "file" /\ ~w'.stale /\ ~w'.fails /\ w'.req = Null
               /\ file.stage["upscale"] # "running"
<1>1. nextId' = nextId
  BY DEF Wanted
<1>2. CASE file.stage.upscale = "running"
  BY <1>1, <1>2, WGotoMoves, PlaceNames DEF Wanted
<1>3. CASE file.stage.upscale # "running"
  BY <1>1, <1>3, ToFileMoves DEF Wanted
<1> QED
  BY <1>2, <1>3

LEMMA ReadTakesDoes ==
  ASSUME Types, ReadTakes
  PROVE  /\ Only(Worker) /\ Stays(Worker) /\ w'.job = w.job /\ w'.stale = w.stale
         /\ w'.i = 0 /\ w'.proj = TakesOf(file) /\ w'.pc \in {"part", "closeUpscale"}
<1>1. OpType' = OpType /\ TakesOf(file) \in [Scenes -> OptTakes]
  BY SameTypes, TakesOfIs DEF ReadTakes, Types
<1>2. w \in OpType
  BY DEF Types, w
<1> DEFINE ok == AllDone(file)
           pc == IF ok THEN "part" ELSE "closeUpscale"
           r == [w EXCEPT !.proj = TakesOf(file), !.i = 0, !.ok = ok, !.pc = pc]
<1>3. ok \in BOOLEAN /\ pc \in {"part", "closeUpscale"}
  BY DEF AllDone
<1>4. op' = [op EXCEPT ![Worker].proj = TakesOf(file), ![Worker].i = 0, ![Worker].ok = ok,
                       ![Worker].pc = pc]
  BY DEF ReadTakes
<1> HIDE DEF ok, pc
<1>5. op' = [op EXCEPT ![Worker] = r]
  BY <1>2, <1>4 DEF Types, OpType, w
<1>6. /\ r \in OpType /\ r.pc = pc /\ r.i = 0 /\ r.job = w.job /\ r.stale = w.stale
      /\ r.proj = TakesOf(file) /\ r.fails = w.fails /\ r.req = w.req
  BY <1>1, <1>2, <1>3, PlaceNames DEF OpType
<1> HIDE DEF r
<1>7. Only(Worker) /\ w' = r
  BY <1>1, <1>5, <1>6, MovesTo, WorkerIs DEF Only, w
<1> QED
  BY <1>3, <1>6, <1>7 DEF Stays, w

LEMMA PartDoes ==
  ASSUME Types, w.i \in 0..(NScenes - 1), w.proj \in [Scenes -> OptTakes], Part
  PROVE  LET n == w.i + 1 IN
         /\ n \in Scenes
         /\ Only(Worker) /\ Stays(Worker) /\ w'.job = w.job /\ w'.stale = w.stale
         /\ w'.i = n /\ w'.proj = w.proj
         /\ \/ w'.pc = "part" /\ n < NScenes
            \/ w'.pc = "closeUpscale"
         /\ file' \in FileType'
         /\ file'.stage = file.stage /\ file'.final = file.final /\ file'.route = file.route
         /\ \A k \in Scenes \ {n} : file'.scene[k] = file.scene[k]
         /\ file'.scene[n].status = file.scene[n].status
         /\ file'.scene[n].job = file.scene[n].job
         /\ file'.scene[n].clip = file.scene[n].clip
         /\ file'.scene[n].ltx \in {file.scene[n].ltx, T(n)}
<1>1. OpType' = OpType /\ FileType' = FileType
  BY SameTypes DEF Part
<1>2. w \in OpType
  BY DEF Types, w
<1> DEFINE n == w.i + 1
           current == TakesOf(file)[n] = w.proj[n]
           pc == IF current /\ n < NScenes THEN "part" ELSE "closeUpscale"
           r == [w EXCEPT !.i = n, !.pc = pc]
<1>3. n \in Scenes
  BY ChainAssumption
<1>4. (pc = "part" /\ n < NScenes) \/ pc = "closeUpscale"
  OBVIOUS
<1>5. op' = [op EXCEPT ![Worker].i = n, ![Worker].pc = pc] /\ file' = LtxSet(file, n, w.proj[n])
  BY DEF Part
<1> HIDE DEF pc, n
<1>6. op' = [op EXCEPT ![Worker] = r]
  BY <1>2, <1>5 DEF Types, OpType, w
<1>7. /\ r \in OpType /\ r.pc = pc /\ r.i = n /\ r.job = w.job /\ r.stale = w.stale
      /\ r.proj = w.proj /\ r.fails = w.fails /\ r.req = w.req
  BY <1>2, <1>3, <1>4, PlaceNames DEF OpType
<1> HIDE DEF r
<1>8. Only(Worker) /\ w' = r
  BY <1>1, <1>6, <1>7, MovesTo, WorkerIs DEF Only, w
<1>9. /\ file' \in FileType
      /\ file'.stage = file.stage /\ file'.final = file.final /\ file'.route = file.route
      /\ \A k \in Scenes \ {n} : file'.scene[k] = file.scene[k]
      /\ file'.scene[n].status = file.scene[n].status
      /\ file'.scene[n].job = file.scene[n].job
      /\ file'.scene[n].clip = file.scene[n].clip
      /\ file'.scene[n].ltx \in {file.scene[n].ltx, T(n)}
  <2>1. w.proj[n] \in OptTakes /\ file \in FileType
    BY <1>3 DEF Types
  <2> QED
    BY <1>3, <1>5, <2>1, LtxSetIs DEF T
<1> QED
  BY <1>1, <1>3, <1>4, <1>7, <1>8, <1>9 DEF Stays, w, n

LEMMA PartBrokenDoes ==
  ASSUME Types, PartBroken
  PROVE  /\ Only(Worker) /\ Stays(Worker) /\ w'.job = w.job /\ w'.stale = w.stale
         /\ w'.i = w.i /\ w'.pc = "closeUpscale"
<1>1. OpType' = OpType
  BY SameTypes DEF PartBroken
<1>2. w \in OpType
  BY DEF Types, w
<1> DEFINE r == [w EXCEPT !.ok = FALSE, !.pc = "closeUpscale"]
<1>3. op' = [op EXCEPT ![Worker] = r]
  BY <1>2 DEF PartBroken, Types, OpType, w
<1>4. /\ r \in OpType /\ r.pc = "closeUpscale" /\ r.i = w.i /\ r.job = w.job /\ r.stale = w.stale
      /\ r.fails = w.fails /\ r.req = w.req
  BY <1>2, PlaceNames DEF OpType
<1> HIDE DEF r
<1>5. Only(Worker) /\ w' = r
  BY <1>1, <1>3, <1>4, MovesTo, WorkerIs DEF Only, w
<1> QED
  BY <1>4, <1>5 DEF Stays, w

LEMMA CloseUpscaleDoes ==
  ASSUME Types, w.job \in Takes, CloseUpscale
  PROVE  /\ Only(Worker) /\ w'.job = w.job
         /\ \/ w'.pc = "file" /\ ~w'.stale /\ ~w'.fails /\ w'.req = Null
            \/ w'.pc = "markUpscale" /\ Stays(Worker) /\ w'.stale = w.stale
         /\ file'.stage["upscale"] # "running"
         /\ file' \in FileType' /\ file'.scene = file.scene /\ file'.final = file.final
         /\ file'.route = file.route /\ file'.stage["assembly"] = file.stage["assembly"]
<1>1. OpType' = OpType /\ FileType' = FileType /\ nextId' = nextId
  BY SameTypes DEF CloseUpscale
<1>2. PICK v \in {"draft", "done", "failed"} : file' = Staged(file, "upscale", v)
  BY DEF CloseUpscale
<1>3. /\ file' \in FileType /\ file'.scene = file.scene /\ file'.final = file.final
      /\ file'.route = file.route /\ file'.stage["assembly"] = file.stage["assembly"]
      /\ file'.stage["upscale"] # "running"
  BY <1>2, StagedIs DEF Types, StageNames, StageStatuses
<1>4. CASE ToFile
  BY <1>1, <1>3, <1>4, ToFileMoves
<1>5. CASE WGoto("markUpscale")
  BY <1>1, <1>3, <1>5, WGotoMoves, PlaceNames
<1> QED
  BY <1>4, <1>5 DEF CloseUpscale

LEMMA MarkUpscaleDoes ==
  ASSUME Types, w.job \in Takes, MarkUpscale
  PROVE  /\ Only(Worker) /\ w'.job = w.job
         /\ w'.pc = "file" /\ ~w'.stale /\ ~w'.fails /\ w'.req = Null
         /\ file' \in FileType' /\ file'.scene = file.scene /\ file'.final = file.final
         /\ file'.route = file.route /\ file'.stage["assembly"] = file.stage["assembly"]
         /\ file'.stage["upscale"] # "running"
         /\ file'.stage["upscale"] = file.stage["upscale"] \/ file'.stage["upscale"] = "failed"
<1>1. FileType' = FileType /\ nextId' = nextId
  BY SameTypes DEF MarkUpscale
<1>2. Only(Worker) /\ w'.job = w.job
      /\ w'.pc = "file" /\ ~w'.stale /\ ~w'.fails /\ w'.req = Null
  BY <1>1, ToFileMoves DEF MarkUpscale
<1>3. CASE file.stage.upscale = "running"
  BY <1>1, <1>2, <1>3, StagedIs DEF MarkUpscale, Types, StageNames, StageStatuses
<1>4. CASE file.stage.upscale # "running"
  BY <1>1, <1>2, <1>4 DEF MarkUpscale, Types
<1> QED
  BY <1>3, <1>4

\* The joined takes of an assembly are all there.
LEMMA GatherDoes ==
  ASSUME Types, Whole(file), Gather
  PROVE  /\ Only(Worker) /\ Stays(Worker) /\ w'.job = w.job /\ ~w'.stale /\ w'.i = w.i
         /\ \/ /\ w'.pc = "joined" /\ AllDone(file) /\ w'.proj = TakesOf(file)
               /\ w'.proj \in [Scenes -> Takes]
            \/ w'.pc = "unjoined"
<1>1. OpType' = OpType /\ TakesOf(file) \in [Scenes -> OptTakes] /\ file \in FileType
  BY SameTypes, TakesOfIs DEF Gather, Types
<1>2. w \in OpType
  BY DEF Types, w
<1>3. CASE /\ AllDone(file)
           /\ op' = [op EXCEPT ![Worker].proj = TakesOf(file), ![Worker].pc = "joined",
                               ![Worker].stale = FALSE]
  <2> DEFINE r == [w EXCEPT !.proj = TakesOf(file), !.pc = "joined", !.stale = FALSE]
  <2>1. op' = [op EXCEPT ![Worker] = r]
    BY <1>2, <1>3 DEF Types, OpType, w
  <2>2. /\ r \in OpType /\ r.pc = "joined" /\ r.i = w.i /\ r.job = w.job /\ ~r.stale
        /\ r.proj = TakesOf(file) /\ r.fails = w.fails /\ r.req = w.req
    BY <1>1, <1>2, PlaceNames DEF OpType
  <2> HIDE DEF r
  <2>3. Only(Worker) /\ w' = r
    BY <1>1, <2>1, <2>2, MovesTo, WorkerIs DEF Only, w
  <2>4. \A i \in Scenes : TakesOf(file)[i] \in Takes
    BY <1>1, <1>3, TakesOfIs DEF AllDone, Whole, Shots
  <2>5. TakesOf(file) \in [Scenes -> Takes]
    BY <1>1, <2>4
  <2> QED
    BY <1>3, <2>2, <2>3, <2>5 DEF Stays, w
<1>4. CASE op' = [op EXCEPT ![Worker].pc = "unjoined", ![Worker].stale = FALSE]
  BY <1>1, <1>4, FreshMoves, PlaceNames, WorkerIs DEF Only, w, Stays
<1> QED
  BY <1>3, <1>4 DEF Gather

LEMMA JoinedDoes ==
  ASSUME Types, w.proj \in [Scenes -> Takes], Joined
  PROVE  /\ Only(Worker) /\ Stays(Worker) /\ w'.job = w.job /\ w'.stale = w.stale /\ w'.i = w.i
         /\ w'.pc = "finished" /\ w'.proj = w.proj
         /\ file' \in FileType' /\ file'.scene = file.scene /\ file'.stage = file.stage
         /\ file'.route = file.route /\ file'.final = w.proj
<1>1. FileType' = FileType /\ nextId' = nextId
  BY SameTypes DEF Joined
<1> QED
  BY <1>1, WGotoMoves, FinalSetIs, PlaceNames DEF Joined, Types

\* The assembly's job ends, well or badly.
LEMMA FinishedDoes ==
  ASSUME Types, w.job \in Takes, Finished \/ Unjoined
  PROVE  /\ Only(Worker) /\ w'.job = w.job
         /\ w'.pc = "file" /\ ~w'.stale /\ ~w'.fails /\ w'.req = Null
         /\ file' \in FileType' /\ file'.scene = file.scene /\ file'.final = file.final
         /\ file'.route = file.route /\ file'.stage["upscale"] = file.stage["upscale"]
         /\ Finished => file'.stage["assembly"] = "done"
         /\ Unjoined => file'.stage["assembly"] = "failed"
<1>1. FileType' = FileType /\ nextId' = nextId /\ ToFile
  BY SameTypes DEF Finished, Unjoined
<1>2. Only(Worker) /\ w'.job = w.job
      /\ w'.pc = "file" /\ ~w'.stale /\ ~w'.fails /\ w'.req = Null
  BY <1>1, ToFileMoves
<1>3. CASE Finished
  <2>1. w.pc = "finished" /\ file' = Staged(file, "assembly", "done")
    BY <1>3 DEF Finished
  <2>2. ~Unjoined
    BY <2>1 DEF Unjoined
  <2> QED
    BY <1>1, <1>2, <2>1, <2>2, StagedIs DEF Types, StageNames, StageStatuses
<1>4. CASE Unjoined
  <2>1. w.pc = "unjoined" /\ file' = Staged(file, "assembly", "failed")
    BY <1>4 DEF Unjoined
  <2>2. ~Finished
    BY <2>1 DEF Finished
  <2> QED
    BY <1>1, <1>2, <2>1, <2>2, StagedIs DEF Types, StageNames, StageStatuses
<1> QED
  BY <1>3, <1>4

LEMMA FileJobDoes ==
  ASSUME Types, FileJob
  PROVE  /\ Only(Worker) /\ w'.pc = "look" /\ w'.i = 0 /\ ~w'.stale /\ ~w'.fails
         /\ w'.req = w.req
         /\ jobs' = {k \in jobs : k.id # w.job}
<1>1. OpType' = OpType /\ Advance(Worker, FALSE)
  BY SameTypes DEF FileJob
<1> QED
  BY <1>1, AdvanceMoves, WorkerIs DEF FileJob, Filed, Same, Only, w

\* A job of a dead process waits again.
LEMMA DieDoes ==
  ASSUME Types, NEW p \in Procs, Die(p)
  PROVE  /\ Only(p) /\ op'[p] = Idle
         /\ jobs' \subseteq JobType'
         /\ (\A j, k \in jobs : j.id = k.id => j = k) => \A j, k \in jobs' : j.id = k.id => j = k
         /\ \A j \in jobs' : \E k \in jobs :
              /\ j.id = k.id /\ j.kind = k.kind /\ j.scene = k.scene /\ j.from = k.from
              /\ j = k \/ (p = Worker /\ k.state = "running" /\ j.state = "pending" /\ k.id = w.job)
         /\ \A k \in jobs : \E j \in jobs' :
              /\ j.id = k.id /\ j.kind = k.kind /\ j.scene = k.scene /\ j.from = k.from
              /\ k.state = "pending" => j = k
              /\ p # Worker \/ k.id # w.job => j = k
         /\ "died" \notin blame' => p = Worker /\ \E k \in jobs : k.state = "running" /\ k.id = w.job
<1> DEFINE mine == {j \in jobs : p = Worker /\ Same(j) /\ j.state = "running"}
           C(j) == [j EXCEPT !.state = "pending"]
<1>1. JobType' = JobType /\ nextId' = nextId
  BY SameTypes DEF Die
<1>2. Only(p) /\ op'[p] = Idle
  BY <1>1, IdleMoves DEF Die
<1>3. jobs' = (jobs \ mine) \cup {C(j) : j \in mine}
  BY DEF Die
<1>4. \A j \in JobType : /\ C(j) \in JobType /\ C(j).id = j.id /\ C(j).kind = j.kind
                         /\ C(j).scene = j.scene /\ C(j).from = j.from /\ C(j).state = "pending"
  BY DEF JobType
<1>5. jobs \subseteq JobType
  BY DEF Types
<1>6. "died" \notin blame' => mine # {}
  BY DEF Die
<1> HIDE DEF C
<1>7. jobs' \subseteq JobType'
  BY <1>1, <1>3, <1>4, <1>5
<1>8. \A j \in jobs' : \E k \in jobs :
        /\ j.id = k.id /\ j.kind = k.kind /\ j.scene = k.scene /\ j.from = k.from
        /\ j = k \/ (p = Worker /\ k.state = "running" /\ j.state = "pending" /\ k.id = w.job)
  BY <1>3, <1>4, <1>5 DEF Same
<1>9. \A k \in jobs : \E j \in jobs' :
        /\ j.id = k.id /\ j.kind = k.kind /\ j.scene = k.scene /\ j.from = k.from
        /\ k.state = "pending" => j = k
        /\ p # Worker \/ k.id # w.job => j = k
  <2> TAKE k \in jobs
  <2>1. CASE k \in mine
    <3>1. C(k) \in jobs'
      BY <1>3, <2>1
    <3> QED
      BY <1>4, <1>5, <2>1, <3>1 DEF Same
  <2>2. CASE k \notin mine
    BY <1>3, <2>2
  <2> QED
    BY <2>1, <2>2
<1>10. (\A j, k \in jobs : j.id = k.id => j = k) => \A j, k \in jobs' : j.id = k.id => j = k
  BY <1>3, <1>4, <1>5
<1> QED
  BY <1>2, <1>6, <1>7, <1>8, <1>9, <1>10 DEF Same

-----------------------------------------------------------------------------
(* Every step keeps the types.                                             *)

LEMMA ScarIs ==
  ASSUME NEW p \in Procs, NEW what, Scar(p, what)
  PROVE  /\ torn \subseteq torn' /\ torn' \subseteq torn \cup what
         /\ blame \subseteq blame' /\ blame' \subseteq blame \cup {"raced"}
         /\ ~op[p].stale => torn' = torn /\ blame' = blame
         /\ op[p].stale => torn' = torn \cup what /\ "raced" \in blame'
  BY DEF Scar

LEMMA AdvanceTypes ==
  ASSUME Types, Fits, NEW p \in Procs, AdvanceStep(p)
  PROVE  Types'
<1>0. OpFits(p)
  BY DEF Fits
<1>1. CASE Look(p)
  <2>1. op' \in [Procs -> OpType']
    BY <1>1, LookDoes DEF Only
  <2> QED
    BY <1>1, <2>1, SameTypes DEF Look, Types
<1>2. CASE Halt(p)
  <2>8. /\ nextId' = nextId /\ jobs' = jobs /\ approved' = approved
        /\ torn' \subseteq torn \cup {} /\ blame' \subseteq blame \cup {"raced"}
    BY <1>2, ScarIs DEF Halt
  <2>9. op' \in [Procs -> OpType'] /\ file' \in FileType'
    BY <1>2, HaltDoes DEF Only
  <2> QED
    BY <2>8, <2>9, SameTypes DEF Types
<1>3. CASE ScenesDone(p)
  <2>8. /\ nextId' = nextId /\ jobs' = jobs /\ approved' = approved
        /\ torn' \subseteq torn \cup {} /\ blame' \subseteq blame \cup {"raced"}
    BY <1>3, ScarIs DEF ScenesDone
  <2>9. op' \in [Procs -> OpType'] /\ file' \in FileType'
    BY <1>3, ScenesDoneDoes DEF Only
  <2> QED
    BY <2>8, <2>9, SameTypes DEF Types
<1>4. CASE Claim(p)
  <2>1. op[p].i \in Scenes
    BY <1>0, <1>4 DEF OpFits, Claim
  <2> QED
    BY <1>4, <2>1, ClaimDoes, SameTypes DEF Claim, Types, Only
<1>5. CASE StageScenes(p)
  BY <1>5, StageScenesDoes, SameTypes DEF StageScenes, Types, Only
<1>6. CASE Submit(p)
  <2>1. op[p].i \in Scenes /\ op[p].proj \in [Scenes -> OptTakes]
    BY <1>0, <1>6 DEF OpFits, Submit, OnScene
  <2>2. CASE nextId' = nextId /\ jobs' = jobs
    BY <1>6, <2>1, <2>2, SubmitDoes, SameTypes DEF Submit, Types, Only
  <2>3. ASSUME NEW from \in OptTakes, Post(NewJob("scene", op[p].i, from)) PROVE Types'
    <3>1. nextId' = nextId + 1 /\ jobs' \subseteq JobType'
      BY <2>1, <2>3, PostDoes
    <3>2. FileType \subseteq FileType'
      BY <3>1, MoreTypes DEF Types
    <3>3. op' \in [Procs -> OpType']
      BY <1>6, <2>1, SubmitDoes DEF Only
    <3> QED
      BY <1>6, <3>1, <3>2, <3>3 DEF Submit, Types
  <2> QED
    BY <1>6, <2>1, <2>2, <2>3, SubmitDoes
<1>7. CASE Record(p)
  <2>1. op[p].i \in Scenes /\ op[p].proj \in Takes
    BY <1>0, <1>7 DEF OpFits, Record, OnScene
  <2>8. /\ nextId' = nextId /\ jobs' = jobs /\ approved' = approved
        /\ torn' \subseteq torn \cup {op[p].i} /\ blame' \subseteq blame \cup {"raced"}
    BY <1>7, ScarIs DEF Record
  <2>9. op' \in [Procs -> OpType'] /\ file' \in FileType'
    BY <1>7, <2>1, RecordDoes DEF Only
  <2> QED
    BY <2>8, <2>9, <2>1, SameTypes DEF Types
<1>8. CASE Rollback(p)
  <2>1. op[p].i \in Scenes
    BY <1>0, <1>8 DEF OpFits, Rollback, OnScene
  <2>2. torn' \subseteq torn \cup {op[p].i} /\ blame' \subseteq blame \cup {"refused", "raced"}
    BY <1>8 DEF Rollback
  <2> QED
    BY <1>8, <2>1, <2>2, RollbackDoes, SameTypes DEF Rollback, Types, Only
<1>9. CASE Unstage(p)
  BY <1>9, UnstageDoes, SameTypes DEF Unstage, Types, Only
<1>10. CASE SubmitStage(p)
  <2>1. op[p].kind \in LateStages
    BY <1>0, <1>10 DEF OpFits, SubmitStage, OnStage
  <2>2. blame' \subseteq blame \cup {"refused"} /\ torn' = torn /\ approved' = approved /\ file' = file
    BY <1>10 DEF SubmitStage
  <2>3. CASE nextId' = nextId /\ jobs' = jobs
    BY <1>10, <2>1, <2>2, <2>3, SubmitStageDoes, SameTypes DEF Types, Only
  <2>4. CASE Post(NewJob(op[p].kind, 0, Null))
    <3>1. nextId' = nextId + 1 /\ jobs' \subseteq JobType'
      BY <2>1, <2>4, PostDoes DEF LateStages
    <3>2. FileType \subseteq FileType'
      BY <3>1, MoreTypes DEF Types
    <3> QED
      BY <1>10, <2>1, <2>2, <3>1, <3>2, SubmitStageDoes DEF Types, Only
  <2> QED
    BY <1>10, <2>1, <2>3, <2>4, SubmitStageDoes
<1>11. CASE StageRuns(p)
  <2>1. op[p].kind \in LateStages
    BY <1>0, <1>11 DEF OpFits, StageRuns, OnStage
  <2>8. /\ nextId' = nextId /\ jobs' = jobs /\ approved' = approved
        /\ torn' \subseteq torn \cup {} /\ blame' \subseteq blame \cup {"raced"}
    BY <1>11, ScarIs DEF StageRuns
  <2>9. op' \in [Procs -> OpType'] /\ file' \in FileType'
    BY <1>11, <2>1, StageRunsDoes DEF Only
  <2> QED
    BY <2>8, <2>9, <2>1, SameTypes DEF Types
<1>12. CASE StageFails(p)
  <2>1. op[p].kind \in LateStages
    BY <1>0, <1>12 DEF OpFits, StageFails, OnStage
  <2>8. /\ nextId' = nextId /\ jobs' = jobs /\ approved' = approved
        /\ torn' \subseteq torn \cup {} /\ blame' \subseteq blame \cup {"raced"}
    BY <1>12, ScarIs DEF StageFails
  <2>9. op' \in [Procs -> OpType'] /\ file' \in FileType'
    BY <1>12, <2>1, StageFailsDoes DEF Only
  <2> QED
    BY <2>8, <2>9, <2>1, SameTypes DEF Types
<1> QED
  BY <1>1, <1>2, <1>3, <1>4, <1>5, <1>6, <1>7, <1>8, <1>9, <1>10, <1>11, <1>12 DEF AdvanceStep

LEMMA PageTypes ==
  ASSUME Types, Fits, NEW p \in Pages, PageStep(p)
  PROVE  Types'
<1>0. p \in Procs /\ OpFits(p)
  BY DEF Fits
<1>1. CASE Approve(p)
  <2>1. op' \in [Procs -> OpType']
    BY <1>0, <1>1, ApproveDoes DEF Only
  <2> QED
    BY <1>1, <2>1, SameTypes DEF Approve, Types
<1>2. CASE Save(p)
  <2>1. op[p].proj \in FileType
    BY <1>0, <1>2 DEF OpFits, Save
  <2>2. nextId' = nextId /\ jobs' = jobs /\ approved' = approved
    BY <1>2 DEF Save
  <2> QED
    BY <1>0, <1>2, <2>1, <2>2, SaveDoes, SameTypes DEF Types, Only
<1>3. CASE Approved(p)
  BY <1>0, <1>3, ApprovedDoes, SameTypes DEF Approved, Types, Only
<1>4. CASE Invalidate(p)
  <2>1. op[p].i \in Scenes
    BY <1>0, <1>4 DEF OpFits, Invalidate
  <2>2. nextId' = nextId /\ jobs' = jobs /\ approved' = approved /\ blame' = blame
    BY <1>4 DEF Invalidate
  <2>3. Upset(p, Tail(op[p].i)) /\ file' \in FileType' /\ torn' \subseteq torn
        /\ Tail(op[p].i) \in SUBSET Scenes
    BY <1>0, <1>4, <2>1, InvalidateDoes, TailRuns
  <2>4. op' \in [Procs -> OpType']
    BY <1>0, <2>2, <2>3, UpsetDoes
  <2> QED
    BY <2>2, <2>3, <2>4, SameTypes DEF Types
<1>5. CASE Draft(p)
  <2>1. op[p].kind \in LateStages
    BY <1>0, <1>5 DEF OpFits, Draft
  <2> QED
    BY <1>0, <1>5, <2>1, DraftDoes, SameTypes DEF Draft, Types, Only
<1>6. CASE Route(p)
  BY <1>0, <1>6, RouteDoes, SameTypes DEF Route, Types, Only
<1>7. CASE SetRoute(p)
  BY <1>0, <1>7, SetRouteDoes, SameTypes DEF SetRoute, Types, Only
<1>8. CASE Rebuild(p)
  <2>1. nextId' = nextId /\ jobs' = jobs /\ approved' = approved /\ blame' = blame /\ torn' = torn
    BY <1>8 DEF Rebuild
  <2>2. Upset(p, {}) /\ file' \in FileType'
    BY <1>0, <1>8, RebuildDoes
  <2>3. op' \in [Procs -> OpType']
    BY <1>0, <2>1, <2>2, UpsetDoes
  <2> QED
    BY <2>1, <2>2, <2>3, SameTypes DEF Types
<1>9. ASSUME NEW i \in Scenes, Retry(p, i) PROVE Types'
  <2>1. op' \in [Procs -> OpType'] /\ jobs' \subseteq JobType'
    BY <1>0, <1>9, RetryDoes DEF Only
  <2>2. /\ nextId' = nextId /\ file' = file /\ approved' = approved /\ torn' = torn
        /\ blame' \subseteq blame \cup {"removed"}
    BY <1>9 DEF Retry
  <2> QED
    BY <2>1, <2>2, SameTypes DEF Types
<1>10. ASSUME NEW s \in LateStages, RetryStage(p, s) PROVE Types'
  BY <1>0, <1>10, RetryStageDoes, SameTypes DEF RetryStage, Types, Only
<1>11. ASSUME NEW j \in jobs, Cancel(p, j) PROVE Types'
  <2>1. blame' \subseteq blame \cup {"outran", "removed"}
    BY <1>11 DEF Cancel
  <2> QED
    BY <1>0, <1>11, <2>1, CancelDoes, SameTypes DEF Cancel, Types
<1> QED
  BY <1>1, <1>2, <1>3, <1>4, <1>5, <1>6, <1>7, <1>8, <1>9, <1>10, <1>11 DEF PageStep, LateStages

LEMMA WorkerTypes ==
  ASSUME Types, Fits, WorkerStep
  PROVE  Types'
<1>0. OpFits(Worker) /\ JobsFit /\ Whole(file)
  BY DEF Fits
<1>1. CASE Take
  <2>1. PICK j \in jobs : LET k == [j EXCEPT !.state = "running"] IN
          jobs' = (jobs \ {j}) \cup {k} /\ k \in JobType' /\ Only(Worker)
    BY <1>1, TakeDoes
  <2>2. blame' \subseteq blame \cup {"outran"} /\ nextId' = nextId
    BY <1>1 DEF Take
  <2>3. jobs' \subseteq JobType'
    BY <2>1, <2>2, SameTypes DEF Types
  <2> QED
    BY <1>1, <2>1, <2>2, <2>3, SameTypes DEF Take, Types, Only
<1>2. CASE Shoot
  <2>1. PICK j \in jobs : j.id = w.job
    BY <1>0, <1>2 DEF JobsFit, Shoot, Body, w
  <2>2. \A k \in jobs : k.id = w.job => k = j
    BY <1>0, <2>1 DEF JobsFit
  <2>3. Only(Worker) /\ jobs' \subseteq jobs
    BY <1>2, <2>1, <2>2, ShootDoes
  <2> QED
    BY <1>2, <2>3, SameTypes DEF Shoot, Types, Only
<1>3. CASE Check
  BY <1>3, CheckDoes, SameTypes DEF Check, Types, Only
<1>4. CASE Write
  <2>1. w.i \in Scenes /\ w.proj \in Shots
    BY <1>0, <1>4 DEF OpFits, Write, w
  <2>2. /\ nextId' = nextId /\ jobs' = jobs /\ approved' = approved
        /\ torn' \subseteq torn \cup {w.i} /\ blame' \subseteq blame \cup {"raced"}
    BY <1>4, ScarIs, WorkerIs DEF Write
  <2>3. op' \in [Procs -> OpType'] /\ file' \in FileType'
    BY <1>4, <2>1, WriteDoes DEF Only
  <2> QED
    BY <2>1, <2>2, <2>3, SameTypes DEF Types
<1>5. CASE NoCard
  BY <1>5, NoCardDoes, SameTypes DEF NoCard, Types, Only
<1>6. ASSUME In(Worker, ByWorker) PROVE w.job \in Takes
  BY <1>0, <1>6 DEF OpFits, w
<1>7. CASE Wanted
  BY <1>6, <1>7, WantedDoes, SameTypes DEF Wanted, Types, Only, ByWorker, Body, Upscaler, w
<1>8. CASE ReadTakes
  BY <1>8, ReadTakesDoes, SameTypes DEF ReadTakes, Types, Only
<1>9. CASE Part
  <2>1. w.i \in 0..(NScenes - 1) /\ w.proj \in [Scenes -> OptTakes]
    BY <1>0, <1>9 DEF OpFits, Part, w
  <2> QED
    BY <1>9, <2>1, PartDoes, SameTypes DEF Part, Types, Only
<1>10. CASE PartBroken
  BY <1>10, PartBrokenDoes, SameTypes DEF PartBroken, Types, Only
<1>11. CASE CloseUpscale
  BY <1>6, <1>11, CloseUpscaleDoes, SameTypes DEF CloseUpscale, Types, Only, ByWorker, Body, Upscaler, w
<1>12. CASE MarkUpscale
  BY <1>6, <1>12, MarkUpscaleDoes, SameTypes DEF MarkUpscale, Types, Only, ByWorker, Body, Upscaler, w
<1>13. CASE Gather
  BY <1>0, <1>13, GatherDoes, SameTypes DEF Gather, Types, Only
<1>14. CASE Joined
  <2>1. w.proj \in [Scenes -> Takes]
    BY <1>0, <1>14 DEF OpFits, Joined, w
  <2> QED
    BY <1>14, <2>1, JoinedDoes, SameTypes, ScarIs DEF Joined, Types, Only
<1>15. CASE Finished \/ Unjoined
  <2>1. w.job \in Takes
    BY <1>6, <1>15 DEF Finished, Unjoined, ByWorker, Body, Joiner, w
  <2>2. nextId' = nextId /\ jobs' = jobs /\ approved' = approved /\ Scar(Worker, {Final})
    BY <1>15 DEF Finished, Unjoined
  <2> QED
    BY <1>15, <2>1, <2>2, FinishedDoes, SameTypes, ScarIs DEF Types, Only
<1>16. CASE FileJob
  BY <1>16, FileJobDoes, SameTypes DEF FileJob, Types, Only
<1> QED
  BY <1>1, <1>2, <1>3, <1>4, <1>5, <1>7, <1>8, <1>9, <1>10, <1>11, <1>12, <1>13, <1>14,
     <1>15, <1>16 DEF WorkerStep

LEMMA TypesStep ==
  ASSUME Types, Fits, [Next]_vars
  PROVE  Types'
<1>1. ASSUME NEW p \in Procs, Die(p) PROVE Types'
  <2>1. op' \in [Procs -> OpType'] /\ jobs' \subseteq JobType'
    BY <1>1, DieDoes DEF Only
  <2>2. /\ nextId' = nextId /\ file' = file /\ approved' = approved /\ torn' = torn
        /\ blame' \subseteq blame \cup {"died"}
    BY <1>1 DEF Die
  <2> QED
    BY <2>1, <2>2, SameTypes DEF Types
<1>2. CASE UNCHANGED vars
  BY <1>2, SameTypes DEF vars, Types
<1> QED
  BY <1>1, <1>2, AdvanceTypes, PageTypes, WorkerTypes DEF Next

-----------------------------------------------------------------------------
(* What a process carries stays what its place calls for.                  *)

LEMMA Grows ==
  ASSUME Types, nextId' \in {nextId, nextId + 1}
  PROVE  /\ Takes \subseteq Takes' /\ OptTakes \subseteq OptTakes'
         /\ Shots \subseteq Shots' /\ FileType \subseteq FileType'
<1>1. CASE nextId' = nextId
  BY <1>1, SameTypes
<1>2. CASE nextId' = nextId + 1
  BY <1>2, MoreTypes DEF Types
<1> QED
  BY <1>1, <1>2

LEMMA StillFits ==
  ASSUME Types, nextId' \in {nextId, nextId + 1}, NEW q \in Procs, OpFits(q),
         op'[q].pc = op[q].pc, op'[q].i = op[q].i, op'[q].proj = op[q].proj,
         op'[q].kind = op[q].kind, op'[q].job = op[q].job, op'[q].fails = op[q].fails,
         op'[q].req = op[q].req
  PROVE  OpFits(q)'
<1>1. /\ Takes \subseteq Takes' /\ OptTakes \subseteq OptTakes'
      /\ Shots \subseteq Shots' /\ FileType \subseteq FileType'
  BY Grows
<1>2. [Scenes -> Takes] \subseteq [Scenes -> Takes'] /\ [Scenes -> OptTakes] \subseteq [Scenes -> OptTakes']
  BY <1>1
<1> QED
  BY <1>1, <1>2 DEF OpFits, Whole

LEMMA OthersFit ==
  ASSUME Types, Fits, nextId' \in {nextId, nextId + 1}, NEW p \in Procs, Only(p)
  PROVE  \A q \in Procs \ {p} : OpFits(q)'
  BY StillFits DEF Fits, Only

\* The worker's job is where it was, or it has none.
LEMMA SameJobs ==
  ASSUME JobsFit, jobs' = jobs,
         In(Worker, ByWorker)' => w'.pc = w.pc /\ w'.i = w.i /\ w'.job = w.job
  PROVE  JobsFit'
  BY DEF JobsFit, w, ByWorker, Body, Upscaler, Joiner

LEMMA WholeStays ==
  ASSUME Types, Whole(file), file'.scene = file.scene
  PROVE  Whole(file)'
  BY DEF Whole

LEMMA WholeSet ==
  ASSUME Types, Whole(file), NEW i \in Scenes, NEW v \in SceneStatuses \ {"done"},
         NEW job \in OptTakes \cup {Claiming}, file' = SceneSet(file, i, v, job)
  PROVE  Whole(file)'
<1>1. file \in FileType
  BY DEF Types
<1>2. \A k \in Scenes \ {i} : file'.scene[k] = file.scene[k]
  BY <1>1, SceneSetIs
<1>3. file'.scene[i].status = v
  BY <1>1, SceneSetIs
<1> QED
  BY <1>2, <1>3 DEF Whole

LEMMA IdleFits ==
  ASSUME Types, NEW p \in Procs, op'[p] = Idle
  PROVE  OpFits(p)' /\ ~In(p, ByWorker)'
  BY IdleIs DEF OpFits, OnScene, OnStage, Joiner, ByWorker, Body, Upscaler, ByPage

LEMMA EndedFits ==
  ASSUME Types, NEW p \in Procs, OpFits(p), op'[p] = Ended(p)
  PROVE  OpFits(p)' /\ ~In(p, ByWorker)'
<1>1. /\ Ended(p).i = 0 /\ Ended(p).req # "approve" /\ ~Ended(p).stale /\ ~Ended(p).fails
      /\ Ended(p).pc \in {"idle", "approve"}
      /\ Ended(p).pc = "approve" => op[p].req = "approve"
  BY IdleIs, NullIs
<1>2. op[p].req = "approve" => p # Worker
  BY DEF OpFits
<1> QED
  BY <1>1, <1>2 DEF OpFits, OnScene, OnStage, Joiner, ByWorker, Body, Upscaler, ByPage

LEMMA LookFits ==
  ASSUME Types, NEW p \in Procs, OpFits(p), op'[p].pc = "look", op'[p].i = 0,
         op'[p].fails => p = Worker, op'[p].req \in {op[p].req, Null}
  PROVE  OpFits(p)' /\ ~In(p, ByWorker)'
  BY NullIs DEF OpFits, OnScene, OnStage, Looking, Joiner, ByWorker, Body, Upscaler, ByPage

LEMMA MovedFits ==
  ASSUME Types, Fits, nextId' = nextId, jobs' = jobs, NEW p \in Procs, Only(p), OpFits(p)',
         p # Worker \/ ~In(p, ByWorker)', Whole(file)'
  PROVE  Fits'
<1>1. \A q \in Procs : OpFits(q)'
  BY OthersFit
<1>2. JobsFit'
  BY SameJobs, WorkerIs DEF Only, Fits, w
<1> QED
  BY <1>1, <1>2 DEF Fits

\* A job that nobody knows yet.
LEMMA PostedFits ==
  ASSUME Types, Fits, NEW p \in Procs, NEW kind \in {"scene", "upscale", "assembly"},
         NEW i \in Scenes \cup {0}, NEW from \in OptTakes, kind = "scene" <=> i \in Scenes,
         Post(NewJob(kind, i, from)), Only(p), OpFits(p)', p # Worker \/ ~In(p, ByWorker)',
         file' = file
  PROVE  Fits'
<1> DEFINE j == NewJob(kind, i, from)
<1>1. /\ nextId' = nextId + 1 /\ jobs' = jobs \cup {j}
      /\ j.id = nextId /\ j.kind = kind /\ j.scene = i /\ \A k \in jobs : k.id # nextId
  BY PostDoes
<1> HIDE DEF j
<1>2. \A q \in Procs : OpFits(q)'
  BY <1>1, OthersFit
<1>3. In(Worker, ByWorker)' => w' = w
  BY WorkerIs DEF Only, w
<1>4. In(Worker, ByWorker) => w.job # nextId
  <2>1. OpFits(Worker)
    BY DEF Fits
  <2> QED
    BY <2>1 DEF OpFits, Types, w
<1>5. JobsFit
  BY DEF Fits
<1>6. JobsFit'
  BY <1>1, <1>3, <1>4, <1>5 DEF JobsFit, w, ByWorker, Body, Upscaler, Joiner
<1> QED
  BY <1>2, <1>6 DEF Fits, Whole

LEMMA AdvanceFits ==
  ASSUME Types, Fits, NEW p \in Procs, AdvanceStep(p)
  PROVE  Fits'
<1>0. OpFits(p) /\ Whole(file) /\ file \in FileType
  BY DEF Fits, Types
<1>1. CASE Look(p)
  <2>1. Only(p) /\ nextId' = nextId /\ jobs' = jobs /\ Whole(file)'
    BY <1>0, <1>1, LookDoes DEF Look, Whole
  <2>2. CASE op'[p] = Ended(p)
    BY <1>0, <2>1, <2>2, EndedFits, MovedFits
  <2>3. CASE op'[p] # Ended(p)
    <3>1. op[p].i = 0 /\ Stays(p) /\ op[p].pc = "look"
      BY <1>0, <1>1, <2>3, LookDoes DEF OpFits, Look
    <3>2. Ready(file) \subseteq Scenes
      BY DEF Ready
    <3>3. \/ op'[p].pc = "claim" /\ op'[p].i \in Scenes
          \/ op'[p].pc \in {"halt", "scenesDone"} /\ op'[p].i = 0
          \/ op'[p].pc = "submitStage" /\ op'[p].kind \in LateStages /\ op'[p].i = 0
      BY <1>1, <2>3, <3>1, <3>2, LookDoes
    <3>4. OpFits(p)' /\ ~In(p, ByWorker)'
      BY <1>0, <3>1, <3>3 DEF OpFits, OnScene, OnStage, Looking, Joiner, ByWorker, Body, Upscaler, ByPage, Stays
    <3> QED
      BY <2>1, <3>4, MovedFits
  <2> QED
    BY <2>2, <2>3
<1>2. CASE Halt(p)
  BY <1>0, <1>2, HaltDoes, WholeStays, EndedFits, MovedFits DEF Halt
<1>3. CASE ScenesDone(p)
  <2>1. Only(p) /\ nextId' = nextId /\ jobs' = jobs /\ Whole(file)'
    BY <1>0, <1>3, ScenesDoneDoes, WholeStays DEF ScenesDone
  <2>2. CASE op'[p] = Ended(p)
    BY <1>0, <2>1, <2>2, EndedFits, MovedFits
  <2>3. CASE op'[p] # Ended(p)
    <3>1. op[p].i = 0 /\ op[p].pc = "scenesDone"
      BY <1>0, <1>3 DEF OpFits, ScenesDone
    <3>2. op'[p].pc = "submitStage" /\ op'[p].i = 0 /\ Stays(p) /\ op'[p].kind \in LateStages
      BY <1>3, <2>3, <3>1, ScenesDoneDoes
    <3>3. OpFits(p)' /\ ~In(p, ByWorker)'
      BY <1>0, <3>1, <3>2 DEF OpFits, OnScene, OnStage, Looking, Joiner, ByWorker, Body, Upscaler, ByPage, Stays
    <3> QED
      BY <2>1, <3>3, MovedFits
  <2> QED
    BY <2>2, <2>3
<1>4. CASE Claim(p)
  <2>1. op[p].i \in Scenes /\ op[p].pc = "claim" /\ nextId' = nextId /\ jobs' = jobs
    BY <1>0, <1>4 DEF OpFits, Claim
  <2>2. CASE op'[p] = Ended(p) /\ file' = file
    BY <1>0, <1>4, <2>1, <2>2, ClaimDoes, EndedFits, MovedFits, WholeStays
  <2>3. CASE /\ file' = SceneSet(file, op[p].i, "running", Claiming)
             /\ op'[p].pc \in {"stage", "submit"} /\ op'[p].i = op[p].i /\ Stays(p)
             /\ op'[p].proj = TakesOf(file)
    <3>1. Whole(file)'
      BY <1>0, <2>1, <2>3, WholeSet DEF SceneStatuses
    <3>2. TakesOf(file) \in [Scenes -> OptTakes] /\ OptTakes' = OptTakes
      BY <1>0, <2>1, TakesOfIs
    <3>3. OpFits(p)' /\ ~In(p, ByWorker)'
      BY <1>0, <2>1, <2>3, <3>2 DEF OpFits, OnScene, OnStage, Looking, Joiner, ByWorker, Body, Upscaler, ByPage, Stays
    <3> QED
      BY <1>4, <2>1, <3>1, <3>3, ClaimDoes, MovedFits
  <2> QED
    BY <1>4, <2>1, <2>2, <2>3, ClaimDoes
<1>5. CASE StageScenes(p)
  <2>1. op[p].i \in Scenes /\ op[p].pc = "stage" /\ nextId' = nextId /\ jobs' = jobs
    BY <1>0, <1>5 DEF OpFits, StageScenes, OnScene
  <2>2. /\ Only(p) /\ Stays(p) /\ Whole(file)'
        /\ op'[p].pc = "submit" /\ op'[p].i = op[p].i /\ op'[p].proj = TakesOf(file)
    BY <1>0, <1>5, StageScenesDoes, WholeStays
  <2>3. TakesOf(file) \in [Scenes -> OptTakes] /\ OptTakes' = OptTakes
    BY <1>0, <2>1, TakesOfIs
  <2>4. OpFits(p)' /\ ~In(p, ByWorker)'
    BY <1>0, <2>1, <2>2, <2>3 DEF OpFits, OnScene, OnStage, Looking, Joiner, ByWorker, Body, Upscaler, ByPage, Stays
  <2> QED
    BY <2>1, <2>2, <2>4, MovedFits
<1>6. CASE Submit(p)
  <2>1. op[p].i \in Scenes /\ op[p].proj \in [Scenes -> OptTakes] /\ op[p].pc = "submit" /\ file' = file
    BY <1>0, <1>6 DEF OpFits, Submit, OnScene
  <2>2. Only(p) /\ Stays(p) /\ op'[p].i = op[p].i
    BY <1>6, <2>1, SubmitDoes
  <2>3. ASSUME NEW from \in OptTakes, Post(NewJob("scene", op[p].i, from)), op'[p].pc = "record",
               op'[p].proj = nextId
        PROVE  Fits'
    <3>1. nextId \in Takes'
      BY <2>1, <2>3, PostDoes
    <3>2. OpFits(p)' /\ ~In(p, ByWorker)'
      BY <1>0, <2>1, <2>2, <2>3, <3>1 DEF OpFits, OnScene, OnStage, Looking, Joiner, ByWorker, Body, Upscaler, ByPage, Stays
    <3> QED
      BY <2>1, <2>2, <2>3, <3>2, PostedFits
  <2>4. CASE op'[p].pc = "rollback" /\ nextId' = nextId /\ jobs' = jobs
    <3>1. OpFits(p)' /\ ~In(p, ByWorker)'
      BY <1>0, <2>1, <2>2, <2>4 DEF OpFits, OnScene, OnStage, Looking, Joiner, ByWorker, Body, Upscaler, ByPage, Stays
    <3> QED
      BY <1>0, <2>1, <2>2, <2>4, <3>1, MovedFits, WholeStays
  <2> QED
    BY <1>6, <2>1, <2>3, <2>4, SubmitDoes
<1>7. CASE Record(p)
  <2>1. op[p].i \in Scenes /\ op[p].proj \in Takes /\ nextId' = nextId /\ jobs' = jobs
    BY <1>0, <1>7 DEF OpFits, Record, OnScene
  <2>2. Only(p) /\ op'[p] = Ended(p) /\ Whole(file)'
    BY <1>0, <1>7, <2>1, RecordDoes, WholeSet DEF SceneStatuses
  <2> QED
    BY <1>0, <2>1, <2>2, EndedFits, MovedFits
<1>8. CASE Rollback(p)
  <2>1. op[p].i \in Scenes /\ nextId' = nextId /\ jobs' = jobs /\ op[p].pc = "rollback"
    BY <1>0, <1>8 DEF OpFits, Rollback, OnScene
  <2>2. Only(p) /\ Whole(file)'
    BY <1>0, <1>8, <2>1, RollbackDoes, WholeSet DEF SceneStatuses
  <2>3. CASE op'[p].pc = "halt" /\ op'[p].i = op[p].i /\ Stays(p)
    <3>1. OpFits(p)' /\ ~In(p, ByWorker)'
      BY <1>0, <2>1, <2>3 DEF OpFits, OnScene, OnStage, Looking, Joiner, ByWorker, Body, Upscaler, ByPage, Stays
    <3> QED
      BY <2>1, <2>2, <3>1, MovedFits
  <2>4. CASE op'[p].pc = "unstage" /\ Stays(p)
    <3>1. OpFits(p)' /\ ~In(p, ByWorker)'
      BY <1>0, <2>1, <2>4 DEF OpFits, OnScene, OnStage, Looking, Joiner, ByWorker, Body, Upscaler, ByPage, Stays
    <3> QED
      BY <2>1, <2>2, <3>1, MovedFits
  <2>5. CASE op'[p] = Idle
    BY <2>1, <2>2, <2>5, IdleFits, MovedFits
  <2> QED
    BY <1>8, <2>1, <2>3, <2>4, <2>5, RollbackDoes
<1>9. CASE Unstage(p)
  BY <1>0, <1>9, UnstageDoes, WholeStays, IdleFits, MovedFits DEF Unstage
<1>10. CASE SubmitStage(p)
  <2>1. op[p].i = 0 /\ op[p].kind \in LateStages /\ op[p].pc = "submitStage" /\ file' = file
    BY <1>0, <1>10 DEF OpFits, SubmitStage, OnStage
  <2>2. Only(p) /\ Whole(file)'
    BY <1>0, <1>10, <2>1, SubmitStageDoes, WholeStays
  <2>3. CASE /\ op'[p].pc = "stageRuns" /\ op'[p].proj = nextId /\ op'[p].i = op[p].i
             /\ op'[p].kind = op[p].kind /\ Stays(p) /\ Post(NewJob(op[p].kind, 0, Null))
    <3>1. nextId \in Takes' /\ op[p].kind \in {"upscale", "assembly"} /\ 0 \notin Scenes
      BY <2>1, <2>3, PostDoes DEF LateStages
    <3>2. OpFits(p)' /\ ~In(p, ByWorker)'
      BY <1>0, <2>1, <2>3, <3>1 DEF OpFits, OnScene, OnStage, Looking, Joiner, ByWorker, Body, Upscaler, ByPage, Stays
    <3> QED
      BY <2>1, <2>2, <2>3, <3>1, <3>2, PostedFits
  <2>4. CASE /\ op'[p].pc = "stageFails" /\ op'[p].i = op[p].i
             /\ op'[p].kind = op[p].kind /\ Stays(p) /\ nextId' = nextId /\ jobs' = jobs
    <3>1. OpFits(p)' /\ ~In(p, ByWorker)'
      BY <1>0, <2>1, <2>4 DEF OpFits, OnScene, OnStage, Looking, Joiner, ByWorker, Body, Upscaler, ByPage, Stays
    <3> QED
      BY <2>2, <2>4, <3>1, MovedFits
  <2>5. CASE op'[p] = Idle /\ nextId' = nextId /\ jobs' = jobs
    BY <2>2, <2>5, IdleFits, MovedFits
  <2> QED
    BY <1>10, <2>1, <2>3, <2>4, <2>5, SubmitStageDoes
<1>11. CASE StageRuns(p)
  <2>1. op[p].kind \in LateStages /\ nextId' = nextId /\ jobs' = jobs
    BY <1>0, <1>11 DEF OpFits, StageRuns, OnStage
  <2> QED
    BY <1>0, <1>11, <2>1, StageRunsDoes, WholeStays, EndedFits, MovedFits
<1>12. CASE StageFails(p)
  <2>1. op[p].kind \in LateStages /\ nextId' = nextId /\ jobs' = jobs
    BY <1>0, <1>12 DEF OpFits, StageFails, OnStage
  <2> QED
    BY <1>0, <1>12, <2>1, StageFailsDoes, WholeStays, IdleFits, MovedFits
<1> QED
  BY <1>1, <1>2, <1>3, <1>4, <1>5, <1>6, <1>7, <1>8, <1>9, <1>10, <1>11, <1>12 DEF AdvanceStep

\* Jobs that stand for jobs that were there, the worker's among them.
LEMMA KeptJobs ==
  ASSUME JobsFit, \A j, k \in jobs' : j.id = k.id => j = k,
         \A j \in jobs' : \E k \in jobs : j.id = k.id /\ j.kind = k.kind /\ j.scene = k.scene,
         \A k \in jobs : In(Worker, Body)' /\ k.id = w.job /\ k.state = "running" =>
           \E j \in jobs' : j.id = k.id /\ j.kind = k.kind /\ j.scene = k.scene /\ j.state = k.state,
         In(Worker, ByWorker)' => w'.pc = w.pc /\ w'.i = w.i /\ w'.job = w.job
  PROVE  JobsFit'
<1>1. \A j \in jobs' : j.kind = "scene" <=> j.scene \in Scenes
  BY DEF JobsFit
<1>2. In(Worker, {"check", "write"})' => \A j \in jobs' : j.id # w'.job
  BY DEF JobsFit, w, ByWorker
<1>3. In(Worker, Body)' => In(Worker, Body) /\ w'.pc = w.pc /\ w'.i = w.i /\ w'.job = w.job
  BY DEF ByWorker, w
<1>4. ASSUME In(Worker, Body)'
      PROVE  \E j \in jobs' :
               /\ j.id = w'.job /\ j.state = "running"
               /\ In(Worker, {"shoot"})' <=> j.kind = "scene"
               /\ In(Worker, {"shoot"})' => j.scene = w'.i
               /\ In(Worker, Upscaler)' => j.kind = "upscale"
               /\ In(Worker, Joiner)' => j.kind = "assembly"
  <2>1. PICK k \in jobs :
          /\ k.id = w.job /\ k.state = "running"
          /\ In(Worker, {"shoot"}) <=> k.kind = "scene"
          /\ In(Worker, {"shoot"}) => k.scene = w.i
          /\ In(Worker, Upscaler) => k.kind = "upscale"
          /\ In(Worker, Joiner) => k.kind = "assembly"
    BY <1>3, <1>4 DEF JobsFit
  <2>2. PICK j \in jobs' : j.id = k.id /\ j.kind = k.kind /\ j.scene = k.scene /\ j.state = k.state
    BY <1>4, <2>1
  <2> QED
    BY <1>3, <1>4, <2>1, <2>2 DEF w
<1> QED
  BY <1>1, <1>2, <1>4 DEF JobsFit

\* A page that does not write, or writes no scene.
LEMMA PageMovedFits ==
  ASSUME Types, Fits, NEW p \in Pages, nextId' = nextId, jobs' = jobs, Only(p),
         file'.scene = file.scene, OpFits(p)'
  PROVE  Fits'
<1>1. p \in Procs /\ p # Worker
  BY ChainAssumption
<1>2. Whole(file)'
  BY WholeStays DEF Fits
<1> QED
  BY <1>1, <1>2, MovedFits

\* A page whose write makes what the others carry old.
LEMMA UpsetFits ==
  ASSUME Types, Fits, NEW p \in Pages, NEW reset \in SUBSET Scenes, Upset(p, reset),
         nextId' = nextId, jobs' = jobs, Whole(file)'
  PROVE  Fits'
<1>1. p \in Procs /\ p # Worker
  BY ChainAssumption
<1>2. /\ op'[p].pc = "look" /\ op'[p].i = 0 /\ ~op'[p].fails /\ op'[p].req = Null
      /\ \A q \in Procs \ {p} :
           /\ op'[q].pc = op[q].pc /\ op'[q].req = op[q].req /\ op'[q].kind = op[q].kind
           /\ op'[q].i = op[q].i /\ op'[q].job = op[q].job /\ op'[q].proj = op[q].proj
           /\ op'[q].fails = op[q].fails
  BY <1>1, UpsetDoes
<1>3. OpFits(p)'
  BY <1>1, <1>2, LookFits DEF Fits
<1>4. \A q \in Procs \ {p} : OpFits(q)'
  BY <1>1, <1>2, StillFits DEF Fits
<1>5. JobsFit'
  BY <1>1, <1>2, SameJobs, WorkerIs DEF Fits, w
<1> QED
  BY <1>3, <1>4, <1>5 DEF Fits

LEMMA PageFits ==
  ASSUME Types, Fits, NEW p \in Pages, PageStep(p)
  PROVE  Fits'
<1>0. p \in Procs /\ p # Worker /\ OpFits(p) /\ Whole(file) /\ file \in FileType
  BY ChainAssumption DEF Fits, Types
<1>1. CASE Approve(p)
  <2>1. nextId' = nextId /\ jobs' = jobs /\ file' = file
    BY <1>1 DEF Approve
  <2>2. Only(p) /\ op'[p].pc = "save" /\ op'[p].proj = file /\ op'[p].req = "approve"
        /\ op'[p].fails = op[p].fails /\ FileType' = FileType
    BY <1>0, <1>1, <2>1, ApproveDoes, SameTypes
  <2>3. OpFits(p)'
    BY <1>0, <2>2 DEF OpFits, Whole, OnScene, OnStage, Looking, Joiner, ByWorker, Body, Upscaler, ByPage
  <2> QED
    BY <2>1, <2>2, <2>3, PageMovedFits
<1>2. CASE Save(p)
  <2>1. op[p].proj \in FileType /\ Whole(op[p].proj) /\ nextId' = nextId /\ jobs' = jobs
    BY <1>0, <1>2 DEF OpFits, Save
  <2>2. /\ Only(p) /\ op'[p].pc = "look" /\ op'[p].i = 0 /\ ~op'[p].fails
        /\ op'[p].req = op[p].req /\ file' = op[p].proj
    BY <1>0, <1>2, SaveDoes
  <2>3. Whole(file)'
    BY <2>1, <2>2 DEF Whole
  <2> QED
    BY <1>0, <2>1, <2>2, <2>3, LookFits, MovedFits
<1>3. CASE Approved(p)
  BY <1>0, <1>3, ApprovedDoes, IdleFits, PageMovedFits DEF Approved
<1>4. CASE Invalidate(p)
  <2>1. op[p].i \in Scenes /\ nextId' = nextId /\ jobs' = jobs
    BY <1>0, <1>4 DEF OpFits, Invalidate
  <2>2. /\ Upset(p, Tail(op[p].i)) /\ Tail(op[p].i) \in SUBSET Scenes
        /\ \A k \in Tail(op[p].i) : file'.scene[k] = Blank
        /\ \A k \in Scenes \ Tail(op[p].i) : file'.scene[k] = file.scene[k]
    BY <1>0, <1>4, <2>1, InvalidateDoes, TailRuns
  <2>3. Whole(file)'
    BY <1>0, <2>2 DEF Whole, Blank
  <2> QED
    BY <2>1, <2>2, <2>3, UpsetFits
<1>5. CASE Draft(p)
  <2>1. op[p].kind \in LateStages /\ nextId' = nextId /\ jobs' = jobs
    BY <1>0, <1>5 DEF OpFits, Draft
  <2>2. /\ Only(p) /\ op'[p].pc = "look" /\ op'[p].i = 0 /\ ~op'[p].fails
        /\ op'[p].req = op[p].req /\ file'.scene = file.scene
    BY <1>0, <1>5, <2>1, DraftDoes
  <2> QED
    BY <1>0, <2>1, <2>2, LookFits, PageMovedFits
<1>6. CASE Route(p)
  <2>1. nextId' = nextId /\ jobs' = jobs /\ file' = file /\ op[p].pc = "idle"
    BY <1>6 DEF Route
  <2>2. Only(p) /\ op'[p].pc = "route" /\ Stays(p)
    BY <1>0, <1>6, RouteDoes
  <2>3. OpFits(p)'
    BY <1>0, <2>1, <2>2 DEF OpFits, Stays, OnScene, OnStage, Looking, Joiner, ByWorker, Body, Upscaler, ByPage
  <2> QED
    BY <2>1, <2>2, <2>3, PageMovedFits
<1>7. CASE SetRoute(p)
  <2>1. nextId' = nextId /\ jobs' = jobs /\ op[p].pc = "route"
    BY <1>7 DEF SetRoute
  <2>2. /\ Only(p) /\ op'[p].req = op[p].req /\ file'.scene = file.scene
        /\ \/ op'[p].pc = "rebuild" /\ op'[p].fails = op[p].fails
           \/ op'[p].pc = "look" /\ op'[p].i = 0 /\ ~op'[p].fails
    BY <1>0, <1>7, SetRouteDoes
  <2>3. OpFits(p)'
    BY <1>0, <2>1, <2>2 DEF OpFits, OnScene, OnStage, Looking, Joiner, ByWorker, Body, Upscaler, ByPage
  <2> QED
    BY <2>1, <2>2, <2>3, PageMovedFits
<1>8. CASE Rebuild(p)
  <2>1. nextId' = nextId /\ jobs' = jobs
    BY <1>8 DEF Rebuild
  <2>2. Upset(p, {}) /\ Whole(file)'
    BY <1>0, <1>8, RebuildDoes, WholeStays
  <2> QED
    BY <2>1, <2>2, UpsetFits
<1>9. ASSUME NEW i \in Scenes, Retry(p, i) PROVE Fits'
  <2>1. nextId' = nextId /\ file' = file /\ op[p].pc = "idle"
    BY <1>9 DEF Retry
  <2>2. Only(p) /\ op'[p].pc = "invalidate" /\ op'[p].i = i /\ Stays(p)
    BY <1>0, <1>9, RetryDoes
  <2>3. OpFits(p)'
    BY <1>0, <1>9, <2>1, <2>2 DEF OpFits, Stays, OnScene, OnStage, Looking, Joiner, ByWorker, Body, Upscaler, ByPage
  <2>4. \A q \in Procs : OpFits(q)'
    BY <1>0, <2>1, <2>2, <2>3, OthersFit
  <2>5. \A j \in jobs' : \E k \in jobs :
          j.id = k.id /\ j.kind = k.kind /\ j.scene = k.scene
    BY <1>0, <1>9, RetryDoes
  <2>6. \A k \in jobs : k.state = "running" =>
          \E j \in jobs' : j.id = k.id /\ j.kind = k.kind /\ j.scene = k.scene /\ j.state = k.state
    BY <1>0, <1>9, RetryDoes
  <2>7. JobsFit /\ w' = w
    BY <1>0, <2>2, WorkerIs DEF Fits, Only, w
  <2>8. \A j, k \in jobs' : j.id = k.id => j = k
    BY <1>0, <1>9, <2>7, RetryDoes DEF JobsFit
  <2>9. JobsFit'
    BY <2>5, <2>6, <2>7, <2>8, KeptJobs
  <2> QED
    BY <1>0, <2>1, <2>4, <2>9 DEF Fits, Whole
<1>10. ASSUME NEW s \in LateStages, RetryStage(p, s) PROVE Fits'
  <2>1. nextId' = nextId /\ jobs' = jobs /\ file' = file /\ op[p].pc = "idle"
    BY <1>10 DEF RetryStage
  <2>2. Only(p) /\ op'[p].pc = "draft" /\ op'[p].kind = s /\ Stays(p)
    BY <1>0, <1>10, RetryStageDoes
  <2>3. OpFits(p)'
    BY <1>0, <2>1, <2>2 DEF OpFits, Stays, OnScene, OnStage, Looking, Joiner, ByWorker, Body, Upscaler, ByPage
  <2> QED
    BY <2>1, <2>2, <2>3, PageMovedFits
<1>11. ASSUME NEW j \in jobs, Cancel(p, j) PROVE Fits'
  <2>1. nextId' = nextId /\ op' = op /\ jobs' = jobs \ {j} /\ j.state = "pending"
        /\ file'.scene = file.scene
    BY <1>0, <1>11, CancelDoes DEF Cancel
  <2>2. JobsFit /\ w' = w
    BY <2>1 DEF Fits, w
  <2>3. JobsFit'
    <3>1. \A i, k \in jobs' : i.id = k.id => i = k
      BY <2>1, <2>2 DEF JobsFit
    <3>2. \A i \in jobs' : \E k \in jobs : i.id = k.id /\ i.kind = k.kind /\ i.scene = k.scene
      BY <2>1
    <3>3. \A k \in jobs : k.state = "running" =>
            \E i \in jobs' : i.id = k.id /\ i.kind = k.kind /\ i.scene = k.scene /\ i.state = k.state
      BY <2>1
    <3> QED
      BY <2>2, <3>1, <3>2, <3>3, KeptJobs
  <2>4. \A q \in Procs : OpFits(q)'
    BY <2>1, StillFits DEF Fits
  <2> QED
    BY <1>0, <2>1, <2>3, <2>4, WholeStays DEF Fits
<1> QED
  BY <1>1, <1>2, <1>3, <1>4, <1>5, <1>6, <1>7, <1>8, <1>9, <1>10, <1>11 DEF PageStep, LateStages

\* The worker moves within the body of its job.
LEMMA BodyFits ==
  ASSUME Types, Fits, nextId' = nextId, jobs' = jobs, Only(Worker), Whole(file)',
         In(Worker, Body), w'.job = w.job, OpFits(Worker)',
         \/ In(Worker, Upscaler) /\ w'.pc \in Upscaler \cup {"file"}
         \/ In(Worker, Joiner) /\ w'.pc \in Joiner \cup {"file"}
  PROVE  Fits'
<1>1. \A q \in Procs : OpFits(q)'
  BY OthersFit, WorkerIs
<1>2. JobsFit'
  BY DEF Fits, JobsFit, w, ByWorker, Body, Upscaler, Joiner
<1> QED
  BY <1>1, <1>2 DEF Fits

\* The worker is through with its job.
LEMMA RestFits ==
  ASSUME Types, Fits, nextId' = nextId, jobs' \subseteq jobs, Only(Worker), Whole(file)',
         OpFits(Worker)', ~In(Worker, ByWorker)'
  PROVE  Fits'
<1>1. \A q \in Procs : OpFits(q)'
  BY OthersFit, WorkerIs
<1>2. JobsFit'
  BY DEF Fits, JobsFit, w, ByWorker, Body, Upscaler, Joiner
<1> QED
  BY <1>1, <1>2 DEF Fits

LEMMA TakeFits ==
  ASSUME Types, Fits, Take
  PROVE  Fits'
<1>0. /\ OpFits(Worker) /\ JobsFit /\ Whole(file) /\ nextId' = nextId /\ file' = file
      /\ w.pc = "idle"
  BY DEF Fits, Take
<1>1. PICK j \in jobs : LET k == [j EXCEPT !.state = "running"] IN
        /\ j.state = "pending" /\ jobs' = (jobs \ {j}) \cup {k}
        /\ k.id = j.id /\ k.kind = j.kind /\ k.scene = j.scene
        /\ k.state = "running"
        /\ Only(Worker) /\ Stays(Worker) /\ w'.job = j.id /\ w'.i = j.scene
        /\ j.kind = "scene" => w'.pc = "shoot"
        /\ j.kind = "upscale" => w'.pc = "wanted"
        /\ j.kind = "assembly" => w'.pc = "gather"
  BY TakeDoes
<1> DEFINE k == [j EXCEPT !.state = "running"]
<1>2. jobs' = (jobs \ {j}) \cup {k} /\ k.id = j.id /\ k.kind = j.kind /\ k.scene = j.scene
      /\ k.state = "running"
  BY <1>1
<1> HIDE DEF k
<1>3. j.kind \in {"scene", "upscale", "assembly"} /\ j.id \in Takes /\ j.scene \in Scenes \cup {0}
      /\ (j.kind = "scene" <=> j.scene \in Scenes)
  BY <1>0 DEF Types, JobType, JobsFit
<1>4. w.req # "approve"
  BY <1>0 DEF OpFits, w
<1>5. OpFits(Worker)'
  <2>1. op'[Worker].i = j.scene /\ op'[Worker].job = j.id /\ op'[Worker].req # "approve"
        /\ op'[Worker].fails = op[Worker].fails
        /\ \/ op'[Worker].pc = "shoot" /\ j.kind = "scene"
           \/ op'[Worker].pc \in {"wanted", "gather"} /\ j.kind # "scene"
    BY <1>1, <1>3, <1>4 DEF w, Stays
  <2> QED
    BY <1>0, <1>3, <2>1 DEF OpFits, OnScene, OnStage, Looking, Joiner, ByWorker, Body, Upscaler, ByPage
<1>6. \A q \in Procs : OpFits(q)'
  BY <1>0, <1>1, <1>5, OthersFit, WorkerIs
<1>7. /\ \A a, b \in jobs' : a.id = b.id => a = b
      /\ \A a \in jobs' : a.kind = "scene" <=> a.scene \in Scenes
  BY <1>0, <1>2 DEF JobsFit
<1>8. /\ k \in jobs' /\ k.id = w'.job /\ k.state = "running" /\ k.scene = w'.i
      /\ \/ w'.pc = "shoot" /\ k.kind = "scene"
         \/ w'.pc = "wanted" /\ k.kind = "upscale"
         \/ w'.pc = "gather" /\ k.kind = "assembly"
  BY <1>1, <1>2, <1>3
<1>9. JobsFit'
  BY <1>7, <1>8 DEF JobsFit, w, Body, Upscaler, Joiner
<1> QED
  BY <1>0, <1>6, <1>9 DEF Fits, Whole

LEMMA WorkerFits ==
  ASSUME Types, Fits, WorkerStep
  PROVE  Fits'
<1>0. OpFits(Worker) /\ JobsFit /\ Whole(file) /\ file \in FileType
  BY DEF Fits, Types
<1>1. ASSUME In(Worker, ByWorker) PROVE w.job \in Takes
  BY <1>0, <1>1 DEF OpFits, w
<1>2. CASE Shoot
  <2>1. PICK j \in jobs : j.id = w.job /\ j.kind = "scene" /\ j.scene = w.i
    BY <1>0, <1>2 DEF JobsFit, Shoot, Body, w
  <2>2. \A k \in jobs : k.id = w.job => k = j
    BY <1>0, <2>1 DEF JobsFit
  <2>3. /\ Only(Worker) /\ Stays(Worker) /\ w'.pc = "check" /\ w'.i = w.i /\ w'.job = w.job
        /\ w'.proj \in Shots' /\ w'.proj.take = w.job
        /\ jobs' = {k \in jobs : k.id # w.job}
    BY <1>2, <2>1, <2>2, ShootDoes
  <2>4. nextId' = nextId /\ file' = file /\ w.pc = "shoot" /\ w.i \in Scenes
    BY <1>0, <1>2 DEF Shoot, OpFits, w
  <2>5. OpFits(Worker)'
    BY <1>0, <1>1, <2>3, <2>4 DEF OpFits, Stays, w, OnScene, OnStage, Looking, Joiner, ByWorker, Body, Upscaler, ByPage
  <2>6. \A q \in Procs : OpFits(q)'
    BY <2>3, <2>4, <2>5, OthersFit, WorkerIs
  <2>7. JobsFit'
    BY <1>0, <2>3 DEF JobsFit, w, Body, Upscaler, Joiner
  <2> QED
    BY <1>0, <2>4, <2>6, <2>7 DEF Fits, Whole
<1>3. CASE Check
  <2>1. nextId' = nextId /\ jobs' = jobs /\ file' = file /\ w.pc = "check" /\ Only(Worker)
        /\ Whole(file)'
    BY <1>0, <1>3, CheckDoes DEF Check, Whole
  <2>2. CASE w' = Idle
    BY <2>1, <2>2, IdleFits, WorkerIs, RestFits DEF w
  <2>3. CASE /\ w'.pc = "write" /\ w'.i = w.i /\ w'.job = w.job /\ w'.proj = w.proj
             /\ Stays(Worker)
    <3>1. OpFits(Worker)'
      BY <1>0, <2>1, <2>3, SameTypes DEF OpFits, Stays, w, OnScene, OnStage, Looking, Joiner, ByWorker, Body, Upscaler, ByPage
    <3>2. \A q \in Procs : OpFits(q)'
      BY <2>1, <3>1, OthersFit, WorkerIs
    <3>3. JobsFit'
      BY <1>0, <2>1, <2>3 DEF JobsFit, w, Body, Upscaler, Joiner
    <3> QED
      BY <2>1, <3>2, <3>3 DEF Fits
  <2> QED
    BY <1>3, <2>2, <2>3, CheckDoes
<1>4. CASE Write
  <2>1. w.i \in Scenes /\ w.proj \in Shots /\ nextId' = nextId /\ jobs' = jobs /\ w.pc = "write"
    BY <1>0, <1>4 DEF OpFits, Write, w
  <2>2. /\ Only(Worker) /\ w'.pc = "look" /\ w'.i = 0 /\ w'.req = w.req
        /\ \A k \in Scenes \ {w.i} : file'.scene[k] = file.scene[k]
        /\ \/ file'.scene[w.i].clip = w.proj
           \/ file'.scene[w.i].status = "failed"
    BY <1>4, <2>1, WriteDoes
  <2>3. Whole(file)'
    BY <1>0, <2>1, <2>2, ChainAssumption DEF Whole, Shots, Types
  <2>4. OpFits(Worker)' /\ ~In(Worker, ByWorker)'
    BY <1>0, <2>2, LookFits, WorkerIs DEF w
  <2> QED
    BY <2>1, <2>2, <2>3, <2>4, RestFits
<1>5. CASE NoCard
  <2>1. nextId' = nextId /\ jobs' = jobs /\ file' = file /\ w.pc = "wanted" /\ Whole(file)'
    BY <1>0, <1>5 DEF NoCard, Whole
  <2>2. Only(Worker) /\ Stays(Worker) /\ w'.pc = "markUpscale" /\ w'.job = w.job
    BY <1>5, NoCardDoes
  <2>3. OpFits(Worker)'
    BY <1>0, <2>1, <2>2 DEF OpFits, Stays, w, OnScene, OnStage, Looking, Joiner, ByWorker, Body, Upscaler, ByPage
  <2> QED
    BY <2>1, <2>2, <2>3, BodyFits DEF Body, Upscaler, w
<1>6. CASE Wanted
  <2>1. nextId' = nextId /\ jobs' = jobs /\ file' = file /\ w.pc = "wanted" /\ Whole(file)'
        /\ w.job \in Takes
    BY <1>0, <1>1, <1>6 DEF Wanted, Whole, ByWorker, Body, Upscaler, w
  <2>2. /\ Only(Worker) /\ w'.job = w.job
        /\ \/ w'.pc = "takes" /\ Stays(Worker)
           \/ w'.pc = "file" /\ ~w'.fails /\ w'.req = Null
    BY <1>6, <2>1, WantedDoes
  <2>3. OpFits(Worker)'
    BY <1>0, <2>1, <2>2, NullIs DEF OpFits, Stays, w, OnScene, OnStage, Looking, Joiner, ByWorker, Body, Upscaler, ByPage
  <2> QED
    BY <2>1, <2>2, <2>3, BodyFits DEF Body, Upscaler, w
<1>7. CASE ReadTakes
  <2>1. nextId' = nextId /\ jobs' = jobs /\ file' = file /\ w.pc = "takes" /\ Whole(file)'
    BY <1>0, <1>7 DEF ReadTakes, Whole
  <2>2. /\ Only(Worker) /\ Stays(Worker) /\ w'.job = w.job
        /\ w'.i = 0 /\ w'.proj = TakesOf(file) /\ w'.pc \in {"part", "closeUpscale"}
        /\ TakesOf(file) \in [Scenes -> OptTakes]
    BY <1>0, <1>7, ReadTakesDoes, TakesOfIs
  <2>3. OpFits(Worker)'
    <3>1. 0 \in 0..(NScenes - 1)
      BY ChainAssumption
    <3> QED
      BY <1>0, <2>1, <2>2, <3>1 DEF OpFits, Stays, w, OnScene, OnStage, Looking, Joiner, ByWorker, Body, Upscaler, ByPage
  <2> QED
    BY <2>1, <2>2, <2>3, BodyFits DEF Body, Upscaler, w
<1>8. CASE Part
  <2>1. nextId' = nextId /\ jobs' = jobs /\ w.pc = "part"
        /\ w.i \in 0..(NScenes - 1) /\ w.proj \in [Scenes -> OptTakes]
    BY <1>0, <1>8 DEF Part, OpFits, w
  <2>2. LET n == w.i + 1 IN
        /\ n \in Scenes
        /\ Only(Worker) /\ Stays(Worker) /\ w'.job = w.job
        /\ w'.i = n /\ w'.proj = w.proj
        /\ \/ w'.pc = "part" /\ n < NScenes
           \/ w'.pc = "closeUpscale"
        /\ \A k \in Scenes \ {n} : file'.scene[k] = file.scene[k]
        /\ file'.scene[n].status = file.scene[n].status
        /\ file'.scene[n].clip = file.scene[n].clip
    BY <1>8, <2>1, PartDoes
  <2>3. Whole(file)'
    BY <1>0, <2>2 DEF Whole
  <2>4. OpFits(Worker)'
    <3>1. w'.pc = "part" => w'.i \in 0..(NScenes - 1) /\ w'.proj \in [Scenes -> OptTakes]
      BY <2>1, <2>2, ChainAssumption
    <3> QED
      BY <1>0, <2>1, <2>2, <3>1 DEF OpFits, Stays, w, OnScene, OnStage, Looking, Joiner, ByWorker, Body, Upscaler, ByPage
  <2> QED
    BY <2>1, <2>2, <2>3, <2>4, BodyFits DEF Body, Upscaler, w
<1>9. CASE PartBroken
  <2>1. nextId' = nextId /\ jobs' = jobs /\ file' = file /\ w.pc = "part" /\ Whole(file)'
    BY <1>0, <1>9 DEF PartBroken, Whole
  <2>2. Only(Worker) /\ Stays(Worker) /\ w'.pc = "closeUpscale" /\ w'.job = w.job
    BY <1>9, PartBrokenDoes
  <2>3. OpFits(Worker)'
    BY <1>0, <2>1, <2>2 DEF OpFits, Stays, w, OnScene, OnStage, Looking, Joiner, ByWorker, Body, Upscaler, ByPage
  <2> QED
    BY <2>1, <2>2, <2>3, BodyFits DEF Body, Upscaler, w
<1>10. CASE CloseUpscale
  <2>1. nextId' = nextId /\ jobs' = jobs /\ w.pc = "closeUpscale" /\ w.job \in Takes
    BY <1>0, <1>1, <1>10 DEF CloseUpscale, ByWorker, Body, Upscaler, w
  <2>2. /\ Only(Worker) /\ w'.job = w.job /\ file'.scene = file.scene
        /\ \/ w'.pc = "file" /\ ~w'.fails /\ w'.req = Null
           \/ w'.pc = "markUpscale" /\ Stays(Worker)
    BY <1>10, <2>1, CloseUpscaleDoes
  <2>3. OpFits(Worker)'
    BY <1>0, <2>1, <2>2, NullIs DEF OpFits, Stays, w, OnScene, OnStage, Looking, Joiner, ByWorker, Body, Upscaler, ByPage
  <2> QED
    BY <1>0, <2>1, <2>2, <2>3, WholeStays, BodyFits DEF Body, Upscaler, w
<1>11. CASE MarkUpscale
  <2>1. nextId' = nextId /\ jobs' = jobs /\ w.pc = "markUpscale" /\ w.job \in Takes
    BY <1>0, <1>1, <1>11 DEF MarkUpscale, ByWorker, Body, Upscaler, w
  <2>2. /\ Only(Worker) /\ w'.job = w.job /\ file'.scene = file.scene
        /\ w'.pc = "file" /\ ~w'.fails /\ w'.req = Null
    BY <1>11, <2>1, MarkUpscaleDoes
  <2>3. OpFits(Worker)'
    BY <1>0, <2>1, <2>2, NullIs DEF OpFits, w, OnScene, OnStage, Looking, Joiner, ByWorker, Body, Upscaler, ByPage
  <2> QED
    BY <1>0, <2>1, <2>2, <2>3, WholeStays, BodyFits DEF Body, Upscaler, w
<1>12. CASE Gather
  <2>1. nextId' = nextId /\ jobs' = jobs /\ file' = file /\ w.pc = "gather" /\ Whole(file)'
    BY <1>0, <1>12 DEF Gather, Whole
  <2>2. /\ Only(Worker) /\ Stays(Worker) /\ w'.job = w.job /\ w'.i = w.i
        /\ \/ w'.pc = "joined" /\ w'.proj \in [Scenes -> Takes]
           \/ w'.pc = "unjoined"
    BY <1>0, <1>12, GatherDoes
  <2>3. OpFits(Worker)'
    BY <1>0, <2>1, <2>2 DEF OpFits, Stays, w, OnScene, OnStage, Looking, Joiner, ByWorker, Body, Upscaler, ByPage
  <2> QED
    BY <2>1, <2>2, <2>3, BodyFits DEF Body, Joiner, w
<1>13. CASE Joined
  <2>1. nextId' = nextId /\ jobs' = jobs /\ w.pc = "joined" /\ w.proj \in [Scenes -> Takes]
    BY <1>0, <1>13 DEF Joined, OpFits, w
  <2>2. /\ Only(Worker) /\ Stays(Worker) /\ w'.job = w.job /\ w'.i = w.i
        /\ w'.pc = "finished" /\ w'.proj = w.proj /\ file'.scene = file.scene
    BY <1>13, <2>1, JoinedDoes
  <2>3. OpFits(Worker)'
    BY <1>0, <2>1, <2>2 DEF OpFits, Stays, w, OnScene, OnStage, Looking, Joiner, ByWorker, Body, Upscaler, ByPage
  <2> QED
    BY <1>0, <2>1, <2>2, <2>3, WholeStays, BodyFits DEF Body, Joiner, w
<1>14. CASE Finished \/ Unjoined
  <2>1. nextId' = nextId /\ jobs' = jobs /\ w.pc \in {"finished", "unjoined"} /\ w.job \in Takes
    BY <1>0, <1>1, <1>14 DEF Finished, Unjoined, ByWorker, Body, Joiner, w
  <2>2. /\ Only(Worker) /\ w'.job = w.job /\ file'.scene = file.scene
        /\ w'.pc = "file" /\ ~w'.fails /\ w'.req = Null
    BY <1>14, <2>1, FinishedDoes
  <2>3. OpFits(Worker)'
    BY <1>0, <2>1, <2>2, NullIs DEF OpFits, w, OnScene, OnStage, Looking, Joiner, ByWorker, Body, Upscaler, ByPage
  <2> QED
    BY <1>0, <2>1, <2>2, <2>3, WholeStays, BodyFits DEF Body, Joiner, w
<1>15. CASE FileJob
  <2>1. nextId' = nextId /\ file' = file
    BY <1>15 DEF FileJob
  <2>2. /\ Only(Worker) /\ w'.pc = "look" /\ w'.i = 0 /\ ~w'.fails /\ w'.req = w.req
        /\ jobs' \subseteq jobs
    BY <1>15, FileJobDoes
  <2>3. OpFits(Worker)' /\ ~In(Worker, ByWorker)'
    BY <1>0, <2>2, LookFits, WorkerIs DEF w
  <2> QED
    BY <1>0, <2>1, <2>2, <2>3, WholeStays, RestFits
<1> QED
  BY <1>2, <1>3, <1>4, <1>5, <1>6, <1>7, <1>8, <1>9, <1>10, <1>11, <1>12, <1>13, <1>14, <1>15,
     TakeFits DEF WorkerStep

LEMMA DieFits ==
  ASSUME Types, Fits, NEW p \in Procs, Die(p)
  PROVE  Fits'
<1>0. JobsFit /\ Whole(file) /\ nextId' = nextId /\ file' = file
  BY DEF Fits, Die
<1>1. /\ Only(p) /\ op'[p] = Idle
      /\ \A j, k \in jobs' : j.id = k.id => j = k
      /\ \A j \in jobs' : \E k \in jobs : j.id = k.id /\ j.kind = k.kind /\ j.scene = k.scene
      /\ \A k \in jobs : p # Worker => k \in jobs'
  BY <1>0, DieDoes DEF JobsFit
<1>2. OpFits(p)' /\ ~In(p, ByWorker)'
  BY <1>1, IdleFits
<1>3. \A q \in Procs : OpFits(q)'
  BY <1>0, <1>1, <1>2, OthersFit
<1>4. p # Worker => w' = w
  BY <1>1, WorkerIs DEF Only, w
<1>5. JobsFit'
  BY <1>0, <1>1, <1>2, <1>4, KeptJobs DEF w, ByWorker
<1> QED
  BY <1>0, <1>3, <1>5, WholeStays DEF Fits

LEMMA FitsStep ==
  ASSUME Types, Fits, [Next]_vars
  PROVE  Fits'
<1>1. CASE UNCHANGED vars
  <2>1. nextId' = nextId /\ jobs' = jobs /\ file' = file /\ op' = op
    BY <1>1 DEF vars
  <2>2. JobsFit'
    BY <2>1 DEF Fits, JobsFit, w
  <2>3. \A q \in Procs : OpFits(q)'
    BY <2>1, StillFits DEF Fits
  <2> QED
    BY <2>1, <2>2, <2>3 DEF Fits, Whole
<1> QED
  BY <1>1, AdvanceFits, PageFits, WorkerFits, DieFits DEF Next

\* Where nothing has happened yet.
LEMMA TypesInit == Init => Types /\ Fits
<1> SUFFICES ASSUME Init PROVE Types /\ Fits
  OBVIOUS
<1>1. nextId = 1 /\ jobs = {} /\ torn = {} /\ blame = {} /\ approved \in BOOLEAN
  BY DEF Init
<1>2. file \in FileType /\ Whole(file)
  BY DEF Init, FileType, SceneType, Blank, StageNames, SceneStatuses, StageStatuses, Whole
<1>3. Idle \in OpType
  BY DEF Idle, OpType, Places
<1>4. op = [p \in Procs |-> Idle]
  BY DEF Init
<1>5. Types
  BY <1>1, <1>2, <1>3, <1>4 DEF Types
<1>6. \A p \in Procs : OpFits(p) /\ op[p].pc = "idle"
  BY <1>4, <1>5, IdleIs DEF OpFits, OnScene, OnStage, Joiner, ByWorker, Body, Upscaler, ByPage
<1>7. JobsFit
  BY <1>1, <1>6, WorkerIs DEF JobsFit, w, Body, Upscaler, Joiner
<1> QED
  BY <1>2, <1>5, <1>6, <1>7 DEF Fits

\* Every scene, stage, job and process has its type: for any number of pages, scenes,
\* presses and faults, project.json never holds a status its schema has not.
THEOREM ProjectTypes == Spec => []TypeOK
<1>1. Types /\ Fits => TypeOK
  BY DEF Types, Fits, JobsFit, TypeOK, FileType, SceneType, Shots, StageNames
<1>2. Types /\ Fits /\ [Next]_vars => (Types /\ Fits)'
  BY TypesStep, FitsStep
<1> QED
  BY <1>1, <1>2, TypesInit, PTL DEF Spec

-----------------------------------------------------------------------------
(* Every step keeps the scenes nobody wrote over.                          *)

\* The scenes' jobs, and what the worker has shot, stem from the jobs that were there.
JobsFrom == \A j \in jobs' : j.kind = "scene" /\ j.id # nextId =>
  \E k \in jobs : k.kind = "scene" /\ k.id = j.id /\ k.scene = j.scene /\ k.from = j.from

WorkFrom == In(Worker, {"check", "write"})' =>
  \/ In(Worker, {"check", "write"}) /\ w'.i = w.i /\ w'.job = w.job /\ w'.proj = w.proj
  \/ \E j \in jobs : j.kind = "scene" /\ j.scene = w'.i /\ j.id = w'.job /\ j.from = w'.proj.from

\* What p carries for a scene it carried before.
Carried(p) == In(p, OnScene \cup {"write"})' /\ ~op'[p].stale =>
  /\ ~op[p].stale /\ op'[p].pc = op[p].pc /\ op'[p].i = op[p].i
  /\ op'[p].proj = op[p].proj /\ op'[p].job = op[p].job

\* Only the scenes in C change, and none of them is a take others were made from.
Touches(C) ==
  /\ \A k \in Scenes \ C : S(k)' = S(k)
  /\ \A i \in C : \/ i \in torn'
                  \/ S(i).status # "done"
                  \/ S(i)'.status = S(i).status /\ S(i)'.clip = S(i).clip

LEMMA SameTake ==
  ASSUME NEW i \in Scenes, S(i)'.clip = S(i).clip
  PROVE  T(i)' = T(i)
  BY DEF S, T, TakesOf

LEMMA BearsStay ==
  ASSUME JobsFrom, WorkFrom, NEW i \in Scenes, NEW id, id # nextId, Bears(i, id),
         Paired(i)' => Paired(i) /\ T(i - 1)' = T(i - 1)
  PROVE  Bears(i, id)'
<1>1. \A from : FromHere(i, from) => FromHere(i, from)'
  BY DEF FromHere
<1>2. ASSUME NEW j \in jobs', j.kind = "scene", j.scene = i, j.id = id
      PROVE  FromHere(i, j.from)'
  BY <1>1, <1>2 DEF JobsFrom, Bears
<1>3. ASSUME In(Worker, {"check", "write"})', w'.i = i, w'.job = id, NEW from, from = w'.proj.from
      PROVE  FromHere(i, from)'
  BY <1>1, <1>3 DEF WorkFrom, Bears, w
<1> QED
  BY <1>2, <1>3 DEF Bears, w

LEMMA SpentStays ==
  ASSUME JobsFrom, WorkFrom, NEW i \in Scenes, NEW id, id # nextId, Spent(i, id)
  PROVE  Spent(i, id)'
  BY DEF JobsFrom, WorkFrom, Spent

\* No scene bears the number of the next job.
LEMMA JobIs ==
  ASSUME Types, NEW i \in Scenes
  PROVE  S(i) \in SceneType /\ S(i).job # nextId
<1>1. S(i) \in SceneType /\ nextId \in Nat \ {0}
  BY DEF Types, FileType, S
<1>2. S(i).job \in 1..(nextId - 1) \cup {Null, 0}
  BY <1>1 DEF SceneType, Claiming
<1> QED
  BY <1>1, <1>2, ChainAssumption

\* A scene that is not changed, beside scenes that were torn or not done.
LEMMA SceneStays ==
  ASSUME Types, Shot, JobsFrom, WorkFrom, torn \subseteq torn', NEW C, Touches(C),
         NEW k \in Untorn', k \notin C
  PROVE  ShotScene(k)'
<1>1. k \in Scenes /\ k \in Untorn /\ ShotScene(k) /\ S(k)' = S(k)
  BY DEF Shot, Untorn, Touches
<1>2. T(k)' = T(k) /\ S(k).job # nextId
  BY <1>1, SameTake, JobIs
<1>3. CASE ~Paired(k)'
  <2>1. S(k).status = "running" /\ S(k).job # Claiming => Bears(k, S(k).job)'
    BY <1>1, <1>2, <1>3, BearsStay DEF ShotScene
  <2>2. S(k).status # "running" => Spent(k, S(k).job)'
    BY <1>1, <1>2, SpentStays DEF ShotScene
  <2> QED
    BY <1>1, <1>2, <1>3, <2>1, <2>2 DEF ShotScene, FromHere
<1>4. CASE Paired(k)' /\ (S(k - 1)'.status = S(k - 1).status /\ S(k - 1)'.clip = S(k - 1).clip)
  <2>1. k - 1 \in Scenes /\ Paired(k)
    BY <1>1, <1>4, ChainAssumption DEF Paired, Chained
  <2>2. T(k - 1)' = T(k - 1)
    BY <1>4, <2>1, SameTake
  <2>3. S(k).status = "running" /\ S(k).job # Claiming => Bears(k, S(k).job)'
    BY <1>1, <1>2, <2>1, <2>2, BearsStay DEF ShotScene
  <2>4. S(k).status # "running" => Spent(k, S(k).job)'
    BY <1>1, <1>2, SpentStays DEF ShotScene
  <2> QED
    BY <1>1, <1>2, <1>4, <2>1, <2>2, <2>3, <2>4 DEF ShotScene, FromHere
<1>5. CASE Paired(k)' /\ S(k - 1).status # "done"
  <2>1. S(k).status = "pending"
    BY <1>1, <1>5 DEF ShotScene, Paired
  <2>2. Spent(k, S(k).job)'
    BY <1>1, <1>2, <2>1, SpentStays DEF ShotScene
  <2> QED
    BY <1>1, <1>2, <2>1, <2>2 DEF ShotScene
<1>6. Paired(k)' => k - 1 \in Scenes \ torn'
  BY <1>1, ChainAssumption DEF Paired, Chained
<1> QED
  BY <1>3, <1>4, <1>5, <1>6 DEF Touches

\* A process that carries what it carried, for a scene whose status and job stay.
LEMMA OpKeeps ==
  ASSUME Types, Fits, Shot, JobsFrom, WorkFrom, torn \subseteq torn', NEW C, Touches(C),
         NEW p \in Procs, Carried(p),
         \A k \in Scenes : op'[p].i = k => S(k)'.status = S(k).status /\ S(k)'.job = S(k).job
  PROVE  ShotOp(p)'
<1>1. SUFFICES ASSUME NEW k \in Untorn', op'[p].i = k, ~op'[p].stale,
                      In(p, OnScene \cup {"write"})'
               PROVE  ShotOp(p)'
  BY DEF ShotOp, OnScene
<1>2. /\ ~op[p].stale /\ op'[p].pc = op[p].pc /\ op[p].i = k
      /\ op'[p].proj = op[p].proj /\ op'[p].job = op[p].job
  BY <1>1 DEF Carried
<1>3. k \in Scenes /\ k \in Untorn /\ S(k)'.status = S(k).status /\ S(k)'.job = S(k).job
  BY <1>1 DEF Untorn
<1>4. S(k).status = "running"
  BY <1>1, <1>2, <1>3 DEF Shot, ShotOp
<1>5. ShotScene(k)
  BY <1>3 DEF Shot
<1>6. Paired(k)' => Paired(k) /\ T(k - 1)' = T(k - 1)
  <2>1. SUFFICES ASSUME Paired(k)' PROVE Paired(k) /\ T(k - 1)' = T(k - 1)
    OBVIOUS
  <2>2. k - 1 \in Scenes /\ Paired(k) /\ k - 1 \notin torn'
    BY <1>3, <2>1, ChainAssumption DEF Paired, Chained
  <2>3. S(k - 1).status = "done"
    BY <1>4, <1>5, <2>2 DEF ShotScene
  <2>4. S(k - 1)'.clip = S(k - 1).clip
    BY <2>2, <2>3 DEF Touches
  <2> QED
    BY <2>2, <2>4, SameTake
<1>7. ASSUME In(p, {"record"}), NEW id, id = op[p].proj
      PROVE  Bears(k, id)'
  <2>1. Bears(k, id)
    BY <1>2, <1>3, <1>7 DEF Shot, ShotOp
  <2>2. id # nextId
    BY <1>7 DEF Fits, OpFits, Types
  <2> QED
    BY <1>3, <1>6, <2>1, <2>2, BearsStay
<1>8. /\ In(p, OnScene) => S(k).status = "running" /\ S(k).job = Claiming
      /\ In(p, {"submit"}) /\ Paired(k) => op[p].proj[k - 1] = T(k - 1)
      /\ In(p, {"write"}) => S(k).status = "running" /\ S(k).job = op[p].job
  BY <1>2, <1>3 DEF Shot, ShotOp
<1>9. (In(p, {"record"}) => Bears(op[p].i, op[p].proj))'
  BY <1>1, <1>2, <1>7
<1> QED
  BY <1>1, <1>2, <1>3, <1>6, <1>9, <1>8 DEF ShotOp

LEMMA OpStays ==
  ASSUME Types, Fits, Shot, JobsFrom, WorkFrom, torn \subseteq torn', NEW C, Touches(C),
         NEW p \in Procs, Carried(p), op'[p].i \notin C
  PROVE  ShotOp(p)'
<1>1. \A k \in Scenes : op'[p].i = k => S(k)'.status = S(k).status /\ S(k)'.job = S(k).job
  BY DEF Touches
<1> QED
  BY <1>1, OpKeeps

\* Nobody comes to hold a scene another holds.
LEMMA AloneStays ==
  ASSUME Shot, torn \subseteq torn',
         \A p \in Procs : \A i \in Untorn' : Holds(p, i)' => Holds(p, i)
  PROVE  Alone'
  BY DEF Shot, Alone, Untorn

LEMMA CarriedHolds ==
  ASSUME NEW p \in Procs, NEW i, Carried(p), Holds(p, i)'
  PROVE  Holds(p, i)
  BY DEF Carried, Holds

\* No scene is written, and nobody gets hold of one.
LEMMA ShotFrame ==
  ASSUME Types, Fits, Shot, file'.scene = file.scene, torn \subseteq torn', JobsFrom, WorkFrom,
         \A p \in Procs : Carried(p)
  PROVE  Shot'
<1>1. Touches({})
  BY DEF S, Touches
<1>2. \A k \in Untorn' : ShotScene(k)'
  BY <1>1, SceneStays
<1>3. \A p \in Procs : ShotOp(p)'
  BY <1>1, OpStays
<1>4. Alone'
  BY AloneStays, CarriedHolds
<1> QED
  BY <1>2, <1>3, <1>4 DEF Shot

\* A process moves, and neither takes up a scene nor writes one.
LEMMA ShotCalm ==
  ASSUME Types, Fits, Shot, file'.scene = file.scene, torn \subseteq torn', JobsFrom,
         NEW p \in Procs, Only(p), ~In(p, OnScene \cup {"check", "write"})'
  PROVE  Shot'
<1>1. WorkFrom
  BY WorkerIs DEF WorkFrom, Only, w
<1>2. \A q \in Procs : Carried(q)
  BY DEF Carried, Only
<1> QED
  BY <1>1, <1>2, ShotFrame

\* A process ends its turn by writing the scene it held.
LEMMA ShotWrites ==
  ASSUME Types, Fits, Shot, torn \subseteq torn', jobs' = jobs,
         NEW p \in Procs, Only(p), ~In(p, OnScene \cup {"check", "write"})',
         NEW i \in Scenes, \A k \in Scenes \ {i} : S(k)' = S(k),
         i \notin torn' => /\ S(i).status # "done" /\ ShotScene(i)'
                           /\ \A q \in Procs \ {p} :
                                op[q].i = i /\ ~op[q].stale => ~In(q, OnScene \cup {"write"})
  PROVE  Shot'
<1>1. WorkFrom
  BY WorkerIs DEF WorkFrom, Only, w
<1>2. \A q \in Procs : Carried(q)
  BY DEF Carried, Only
<1>3. JobsFrom
  BY DEF JobsFrom
<1>4. Touches({i})
  BY DEF Touches
<1>5. \A k \in Untorn' : ShotScene(k)'
  BY <1>1, <1>3, <1>4, SceneStays DEF Untorn
<1>6. ASSUME NEW q \in Procs PROVE ShotOp(q)'
  <2>1. CASE op'[q].i # i
    BY <1>1, <1>2, <1>3, <1>4, <2>1, OpStays
  <2>2. CASE op'[q].i = i
    BY <2>2 DEF ShotOp, Only, Untorn, OnScene
  <2> QED
    BY <2>1, <2>2
<1>7. Alone'
  BY <1>2, AloneStays, CarriedHolds
<1> QED
  BY <1>5, <1>6, <1>7 DEF Shot

\* Who writes the scene it holds, and holds it still, is alone with it.
LEMMA HolderIsAlone ==
  ASSUME Types, Fits, Shot, NEW p \in Procs, NEW i \in Untorn, Holds(p, i)
  PROVE  /\ S(i).status = "running" /\ S(i).job = Claiming
         /\ \A q \in Procs \ {p} :
              op[q].i = i /\ ~op[q].stale => ~In(q, OnScene \cup {"write"})
<1>1. S(i).status = "running" /\ S(i).job = Claiming
  BY DEF Shot, ShotOp, Holds
<1>2. ASSUME NEW q \in Procs \ {p}, op[q].i = i, ~op[q].stale, In(q, OnScene)
      PROVE  FALSE
  BY <1>2 DEF Shot, Alone, Holds
<1>3. ASSUME NEW q \in Procs \ {p}, op[q].i = i, ~op[q].stale, In(q, {"write"})
      PROVE  FALSE
  <2>1. S(i).job = op[q].job
    BY <1>3 DEF Shot, ShotOp
  <2>2. op[q].job \in Takes
    BY <1>3 DEF Fits, OpFits, ByWorker
  <2> QED
    BY <1>1, <2>1, <2>2 DEF Claiming
<1> QED
  BY <1>1, <1>2, <1>3

LEMMA ClaimedIs ==
  ASSUME NEW f \in FileType, NEW i \in Scenes
  PROVE  LET g == SceneSet(f, i, "running", Claiming) IN
         /\ \A k \in Scenes \ {i} : g.scene[k] = f.scene[k]
         /\ g.scene[i].status = "running" /\ g.scene[i].job = Claiming
         /\ g.scene[i].clip = f.scene[i].clip /\ g.scene[i].ltx = f.scene[i].ltx
<1>1. PICK c \in OptTakes \cup {Claiming} : c = Claiming
  OBVIOUS
<1>2. "running" \in SceneStatuses
  BY DEF SceneStatuses
<1>3. LET g == SceneSet(f, i, "running", c) IN
      /\ \A k \in Scenes \ {i} : g.scene[k] = f.scene[k]
      /\ g.scene[i].status = "running" /\ g.scene[i].job = c
      /\ g.scene[i].clip = f.scene[i].clip /\ g.scene[i].ltx = f.scene[i].ltx
  BY <1>2, SceneSetIs
<1> QED
  BY <1>1, <1>3

LEMMA ClaimShot ==
  ASSUME Types, Fits, Shot, NEW p \in Procs, Claim(p)
  PROVE  Shot'
<1>1. op[p].i \in Scenes /\ jobs' = jobs /\ torn' = torn
  BY DEF Fits, OpFits, Claim
<1>2. CASE op'[p] = Ended(p) /\ file' = file
  <2>1. JobsFrom
    BY <1>1 DEF JobsFrom
  <2>2. ~In(p, OnScene \cup {"check", "write"})'
    BY <1>2, IdleIs DEF OnScene
  <2> QED
    BY <1>1, <1>2, <2>1, <2>2, ClaimDoes, ShotCalm
<1>3. ASSUME NEW i \in Ready(file), op[p].i = i,
             file' = SceneSet(file, i, "running", Claiming),
             op'[p].pc \in {"stage", "submit"}, op'[p].i = i, ~op'[p].stale,
             op'[p].proj = TakesOf(file), Only(p)
      PROVE  Shot'
  <2>1. i \in Scenes /\ S(i).status = "pending" /\ \A k \in 1..(i - 1) : S(k).status = "done"
    BY <1>3 DEF Ready, S
  <2>2. /\ \A k \in Scenes \ {i} : S(k)' = S(k)
        /\ S(i)'.status = "running" /\ S(i)'.job = Claiming
        /\ S(i)'.clip = S(i).clip /\ S(i)'.ltx = S(i).ltx
    <3>1. file \in FileType
      BY DEF Types
    <3> QED
      BY <1>3, <2>1, <3>1, ClaimedIs DEF S
  <2>3. Touches({i})
    BY <2>1, <2>2 DEF Touches
  <2>4. WorkFrom /\ JobsFrom
    BY <1>1, <1>3, WorkerIs DEF WorkFrom, JobsFrom, Only, w
  <2>5. \A q \in Procs \ {p} : Carried(q)
    BY <1>3 DEF Carried, Only
  <2>6. i \in Untorn => ShotScene(i)
    BY DEF Shot
  <2>7. T(i)' = T(i)
    BY <2>1, <2>2, SameTake
  <2>8. i \in Untorn => ShotScene(i)'
    <3>1. Paired(i) => S(i - 1)'.status = "done"
      BY <2>1, <2>2, ChainAssumption DEF Paired, Chained
    <3> QED
      BY <1>1, <2>1, <2>2, <2>6, <2>7, <3>1 DEF ShotScene, Paired
  <2>9. \A k \in Untorn' : ShotScene(k)'
    BY <1>1, <2>3, <2>4, <2>8, SceneStays DEF Untorn
  <2>10. ASSUME NEW q \in Procs \ {p}, i \in Untorn, op[q].i = i, ~op[q].stale,
                In(q, OnScene \cup {"write"})
         PROVE  FALSE
    BY <2>1, <2>10 DEF Shot, ShotOp
  <2>11. ASSUME NEW q \in Procs \ {p} PROVE ShotOp(q)'
    <3>1. CASE op'[q].i # i
      BY <1>1, <2>3, <2>4, <2>5, <3>1, OpStays
    <3>2. CASE op'[q].i = i
      BY <1>1, <1>3, <2>10, <3>2 DEF ShotOp, Only, Untorn, OnScene
    <3> QED
      BY <3>1, <3>2
  <2>12. ShotOp(p)'
    <3>1. Paired(i) => T(i - 1)' = T(i - 1)
      BY <2>1, <2>2, SameTake, ChainAssumption DEF Paired, Chained
    <3> QED
      BY <1>1, <1>3, <2>2, <3>1 DEF ShotOp, Paired, T
  <2>13. Alone'
    <3>1. \A q \in Procs \ {p} : \A k \in Untorn' : Holds(q, k)' => Holds(q, k) /\ k # i
      BY <1>1, <1>3, <2>10 DEF Holds, Only, Untorn
    <3>2. \A k \in Untorn' : Holds(p, k)' => k = i
      BY <1>3 DEF Holds
    <3> QED
      BY <1>1, <3>1, <3>2 DEF Shot, Alone, Untorn
  <2> QED
    BY <2>9, <2>11, <2>12, <2>13 DEF Shot
<1> QED
  BY <1>1, <1>2, <1>3, ClaimDoes

LEMMA StageScenesShot ==
  ASSUME Types, Fits, Shot, NEW p \in Procs, StageScenes(p)
  PROVE  Shot'
<1>1. jobs' = jobs /\ torn' = torn /\ op[p].pc = "stage"
  BY DEF StageScenes
<1>2. /\ Only(p) /\ op'[p].stale = op[p].stale
      /\ op'[p].pc = "submit" /\ op'[p].i = op[p].i /\ op'[p].proj = TakesOf(file)
      /\ file'.scene = file.scene
  BY StageScenesDoes
<1>3. Touches({})
  BY <1>2 DEF S, Touches
<1>4. WorkFrom /\ JobsFrom
  BY <1>1, <1>2, WorkerIs DEF WorkFrom, JobsFrom, Only, w
<1>5. \A q \in Procs \ {p} : Carried(q)
  BY <1>2 DEF Carried, Only
<1>6. \A k \in Untorn' : ShotScene(k)'
  BY <1>1, <1>3, <1>4, SceneStays
<1>7. \A q \in Procs \ {p} : ShotOp(q)'
  BY <1>1, <1>3, <1>4, <1>5, OpStays
<1>8. ShotOp(p)'
  BY <1>1, <1>2 DEF ShotOp, Shot, Untorn, OnScene, S, T, TakesOf, Paired
<1>9. Alone'
  BY <1>1, <1>2 DEF Shot, Alone, Holds, Untorn, Only, OnScene
<1> QED
  BY <1>6, <1>7, <1>8, <1>9 DEF Shot

LEMMA SubmitShot ==
  ASSUME Types, Fits, Shot, NEW p \in Procs, Submit(p)
  PROVE  Shot'
<1>1. op[p].i \in Scenes /\ op[p].proj \in [Scenes -> OptTakes] /\ op[p].pc = "submit"
      /\ file' = file /\ torn' = torn
  BY DEF Fits, OpFits, Submit, OnScene
<1>2. Only(p) /\ op'[p].i = op[p].i /\ op'[p].stale = op[p].stale
  BY <1>1, SubmitDoes
<1>3. Touches({})
  BY <1>1 DEF S, Touches
<1>4. op'[p].pc \in {"record", "rollback"}
  BY <1>1, SubmitDoes
<1>5. WorkFrom
  BY <1>2, <1>4, WorkerIs DEF WorkFrom, Only, w
<1>6. JobsFrom
  <2>1. ASSUME NEW from \in OptTakes, Post(NewJob("scene", op[p].i, from)) PROVE JobsFrom
    BY <1>1, <2>1, PostDoes DEF JobsFrom
  <2>2. CASE jobs' = jobs
    BY <2>2 DEF JobsFrom
  <2> QED
    BY <1>1, <2>1, <2>2, SubmitDoes
<1>7. \A q \in Procs \ {p} : Carried(q)
  BY <1>2 DEF Carried, Only
<1>8. \A k \in Untorn' : ShotScene(k)'
  BY <1>1, <1>3, <1>5, <1>6, SceneStays
<1>9. \A q \in Procs \ {p} : ShotOp(q)'
  BY <1>1, <1>3, <1>5, <1>6, <1>7, OpStays
<1>10. ASSUME NEW i \in Untorn, op[p].i = i, ~op[p].stale
       PROVE  /\ S(i).status = "running" /\ S(i).job = Claiming
              /\ Paired(i) => op[p].proj[i - 1] = T(i - 1)
  BY <1>1, <1>10 DEF Shot, ShotOp, OnScene
<1>11. ASSUME NEW i \in Untorn, op[p].i = i, ~op[p].stale, op'[p].pc = "record",
              NEW id, id = nextId
       PROVE  Bears(i, id)'
  <2>1. PICK from \in OptTakes :
          /\ from = IF Chained(i) THEN op[p].proj[i - 1] ELSE Null
          /\ Post(NewJob("scene", i, from))
    BY <1>1, <1>11, SubmitDoes
  <2>2. FromHere(i, from)'
    BY <1>1, <1>10, <1>11, <2>1 DEF FromHere, Paired, T
  <2>3. \A j \in jobs' : j.id = id => j.from = from
    BY <1>1, <1>11, <2>1, PostDoes
  <2>4. ~(In(Worker, {"check", "write"})' /\ w'.job = id)
    <3>1. In(Worker, {"check", "write"}) => w.job \in Takes
      BY DEF Fits, OpFits, ByWorker, w
    <3> QED
      BY <1>2, <1>11, <3>1, WorkerIs DEF Only, w, Types
  <2>5. \A j \in jobs' : j.id = id => FromHere(i, j.from)'
    BY <2>2, <2>3
  <2> QED
    BY <2>4, <2>5 DEF Bears, w
<1>12. ShotOp(p)'
  <2>1. op'[p].pc = "record" => op'[p].proj = nextId
    BY <1>1, SubmitDoes
  <2>2. SUFFICES ASSUME NEW i \in Untorn, op'[p].i = i, ~op'[p].stale PROVE ShotOp(p)'
    BY <1>1 DEF ShotOp, Untorn
  <2>3. (In(p, {"record"}) => Bears(op[p].i, op[p].proj))'
    BY <1>2, <1>11, <2>1, <2>2
  <2>4. S(i)'.status = "running" /\ S(i)'.job = Claiming
    BY <1>1, <1>2, <1>10, <2>2 DEF S
  <2> QED
    BY <1>4, <2>2, <2>3, <2>4 DEF ShotOp, OnScene
<1>13. Alone'
  BY <1>1, <1>2, <1>4 DEF Shot, Alone, Holds, Untorn, Only, OnScene
<1> QED
  BY <1>8, <1>9, <1>12, <1>13 DEF Shot

LEMMA RecordShot ==
  ASSUME Types, Fits, Shot, NEW p \in Procs, Record(p)
  PROVE  Shot'
<1>1. PICK i \in Scenes : i = op[p].i /\ op[p].proj \in Takes
  BY DEF Fits, OpFits, Record, OnScene
<1>2. jobs' = jobs /\ torn \subseteq torn' /\ (op[p].stale => i \in torn')
      /\ op[p].pc = "record" /\ nextId' = nextId
  BY <1>1, ScarIs DEF Record
<1>3. Only(p) /\ op'[p] = Ended(p) /\ file' = SceneSet(file, i, "running", op[p].proj)
  BY <1>1, RecordDoes
<1>4. /\ \A k \in Scenes \ {i} : S(k)' = S(k)
      /\ S(i)'.status = "running" /\ S(i)'.job = op[p].proj
      /\ S(i)'.clip = S(i).clip /\ S(i)'.ltx = S(i).ltx
  <2>1. file \in FileType /\ "running" \in SceneStatuses
    BY DEF Types, SceneStatuses
  <2> QED
    BY <1>1, <1>3, <2>1, SceneSetIs DEF S
<1>5. ~In(p, OnScene \cup {"check", "write"})'
  BY <1>3, IdleIs DEF OnScene
<1>6. ASSUME i \notin torn'
      PROVE  /\ S(i).status # "done" /\ ShotScene(i)'
             /\ \A q \in Procs \ {p} :
                  op[q].i = i /\ ~op[q].stale => ~In(q, OnScene \cup {"write"})
  <2>1. i \in Untorn /\ ~op[p].stale /\ Holds(p, i)
    BY <1>1, <1>2, <1>6 DEF Untorn, Holds, OnScene
  <2>2. ShotScene(i) /\ S(i).status = "running" /\ T(i)' = T(i)
    BY <1>4, <2>1, HolderIsAlone, SameTake DEF Shot
  <2>3. Paired(i)' => Paired(i) /\ S(i - 1)' = S(i - 1) /\ T(i - 1)' = T(i - 1)
    BY <1>2, <1>4, SameTake, ChainAssumption DEF Paired, Chained
  <2>4. ASSUME NEW id, id = op[p].proj PROVE Bears(i, id)'
    <3>1. Bears(i, id) /\ id # nextId
      BY <1>1, <1>2, <2>1, <2>4 DEF Shot, ShotOp
    <3>2. WorkFrom /\ JobsFrom
      BY <1>2, <1>3, <1>5, WorkerIs DEF WorkFrom, JobsFrom, Only, w
    <3> QED
      BY <2>3, <3>1, <3>2, BearsStay
  <2>5. (S(i).status = "running" /\ S(i).job # Claiming => Bears(i, S(i).job))'
    BY <1>4, <2>4
  <2>6. ShotScene(i)'
    BY <1>4, <2>2, <2>3, <2>5 DEF ShotScene
  <2> QED
    BY <2>1, <2>2, <2>6, HolderIsAlone
<1> QED
  BY <1>2, <1>3, <1>4, <1>5, <1>6, ShotWrites

LEMMA RollbackShot ==
  ASSUME Types, Fits, Shot, NEW p \in Procs, Rollback(p)
  PROVE  Shot'
<1>1. PICK i \in Scenes : i = op[p].i
  BY DEF Fits, OpFits, Rollback, OnScene
<1>2. jobs' = jobs /\ torn \subseteq torn' /\ (op[p].stale => i \in torn')
      /\ op[p].pc = "rollback" /\ nextId' = nextId
  BY <1>1 DEF Rollback
<1>3. Only(p) /\ op'[p].pc \in {"halt", "unstage", "idle"}
  BY <1>1, RollbackDoes, IdleIs
<1>4. PICK v \in {"failed", "pending"} : file' = SceneSet(file, i, v, Null)
  BY <1>1 DEF Rollback
<1>5. /\ \A k \in Scenes \ {i} : S(k)' = S(k)
      /\ S(i)'.status = v /\ S(i)'.job = Null
      /\ S(i)'.clip = S(i).clip /\ S(i)'.ltx = S(i).ltx
  <2>1. file \in FileType /\ v \in SceneStatuses
    BY DEF Types, SceneStatuses
  <2>2. PICK c \in OptTakes \cup {Claiming} : c = Null
    OBVIOUS
  <2>3. file' = SceneSet(file, i, v, c)
    BY <1>4, <2>2
  <2>4. /\ \A k \in Scenes \ {i} : file'.scene[k] = file.scene[k]
        /\ file'.scene[i].status = v /\ file'.scene[i].job = c
        /\ file'.scene[i].clip = file.scene[i].clip /\ file'.scene[i].ltx = file.scene[i].ltx
    BY <2>1, <2>3, SceneSetIs
  <2> QED
    BY <2>2, <2>4 DEF S
<1>6. ~In(p, OnScene \cup {"check", "write"})'
  BY <1>3 DEF OnScene
<1>7. ASSUME i \notin torn'
      PROVE  /\ S(i).status # "done" /\ ShotScene(i)'
             /\ \A q \in Procs \ {p} :
                  op[q].i = i /\ ~op[q].stale => ~In(q, OnScene \cup {"write"})
  <2>1. i \in Untorn /\ ~op[p].stale /\ Holds(p, i)
    BY <1>1, <1>2, <1>7 DEF Untorn, Holds, OnScene
  <2>2. ShotScene(i) /\ S(i).status = "running" /\ T(i)' = T(i)
    BY <1>5, <2>1, HolderIsAlone, SameTake DEF Shot
  <2>3. Paired(i)' => Paired(i) /\ S(i - 1)' = S(i - 1)
    BY <1>2, <1>5, ChainAssumption DEF Paired, Chained
  <2>4. (Spent(i, S(i).job))'
    <3>1. \A j \in jobs : j.id # Null
      BY NullIs DEF Types, JobType
    <3>2. ~(In(Worker, {"check", "write"})' /\ w'.job = Null)
      <4>1. In(Worker, {"check", "write"}) => w.job \in Takes
        BY DEF Fits, OpFits, ByWorker, w
      <4> QED
        BY <1>3, <4>1, NullIs, WorkerIs DEF Only, w
    <3> QED
      BY <1>2, <1>5, <3>1, <3>2 DEF Spent, w
  <2>5. ShotScene(i)'
    BY <1>5, <2>2, <2>3, <2>4 DEF ShotScene
  <2> QED
    BY <2>1, <2>2, <2>5, HolderIsAlone
<1> QED
  BY <1>2, <1>3, <1>5, <1>6, <1>7, ShotWrites

LEMMA AdvanceShot ==
  ASSUME Types, Fits, Shot, NEW p \in Procs, AdvanceStep(p)
  PROVE  Shot'
<1>0. OpFits(p)
  BY DEF Fits
<1>1. CASE Look(p)
  <2>1. file' = file /\ jobs' = jobs /\ torn' = torn
    BY <1>1 DEF Look
  <2>2. Only(p) /\ ~In(p, OnScene \cup {"check", "write"})'
    BY <1>1, LookDoes, IdleIs DEF OnScene
  <2> QED
    BY <2>1, <2>2, ShotCalm DEF JobsFrom
<1>2. CASE Halt(p) \/ ScenesDone(p) \/ StageRuns(p) \/ StageFails(p)
  <2>0. op[p].kind \in LateStages \/ Halt(p) \/ ScenesDone(p)
    BY <1>0, <1>2 DEF OpFits, StageRuns, StageFails, OnStage
  <2>1. jobs' = jobs /\ torn \subseteq torn'
    BY <1>2, ScarIs DEF Halt, ScenesDone, StageRuns, StageFails
  <2>2. /\ Only(p) /\ file'.scene = file.scene
        /\ op'[p] = Ended(p) \/ op'[p] = Idle \/ op'[p].pc = "submitStage"
    BY <1>2, <2>0, HaltDoes, ScenesDoneDoes, StageRunsDoes, StageFailsDoes
  <2>3. ~In(p, OnScene \cup {"check", "write"})'
    BY <2>2, IdleIs DEF OnScene
  <2> QED
    BY <2>1, <2>2, <2>3, ShotCalm DEF JobsFrom
<1>3. CASE Unstage(p)
  <2>1. jobs' = jobs /\ torn' = torn
    BY <1>3 DEF Unstage
  <2>2. Only(p) /\ file'.scene = file.scene /\ ~In(p, OnScene \cup {"check", "write"})'
    BY <1>3, UnstageDoes, IdleIs DEF OnScene
  <2> QED
    BY <2>1, <2>2, ShotCalm DEF JobsFrom
<1>4. CASE SubmitStage(p)
  <2>1. op[p].kind \in LateStages /\ file' = file /\ torn' = torn
    BY <1>0, <1>4 DEF OpFits, SubmitStage, OnStage
  <2>2. Only(p) /\ ~In(p, OnScene \cup {"check", "write"})'
    BY <1>4, <2>1, SubmitStageDoes, IdleIs DEF OnScene
  <2>3. JobsFrom
    <3>1. CASE Post(NewJob(op[p].kind, 0, Null))
      <4>1. PICK kind \in {"scene", "upscale", "assembly"} : Post(NewJob(kind, 0, Null))
        BY <2>1, <3>1 DEF LateStages
      <4> DEFINE j == NewJob(kind, 0, Null)
      <4>4. jobs' = jobs \cup {j} /\ j.id = nextId
        BY <4>1 DEF Post, NewJob
      <4> HIDE DEF j
      <4>2. \A k \in jobs' : k \in jobs \/ k.id = nextId
        BY <4>4
      <4> QED
        BY <4>2 DEF JobsFrom
    <3>2. CASE jobs' = jobs
      BY <3>2 DEF JobsFrom
    <3> QED
      BY <1>4, <2>1, <3>1, <3>2, SubmitStageDoes
  <2> QED
    BY <2>1, <2>2, <2>3, ShotCalm
<1> QED
  BY <1>1, <1>2, <1>3, <1>4, ClaimShot, StageScenesShot, SubmitShot, RecordShot, RollbackShot
     DEF AdvanceStep

LEMMA InvalidateShot ==
  ASSUME Types, Fits, Shot, NEW p \in Procs, Invalidate(p)
  PROVE  Shot'
<1> DEFINE reset == Tail(op[p].i)
<1>1. op[p].i \in Scenes /\ nextId' = nextId /\ jobs' = jobs
  BY DEF Fits, OpFits, Invalidate
<1>2. /\ Upset(p, reset) /\ reset \in SUBSET Scenes
      /\ \A k \in reset : S(k)' = Blank
      /\ \A k \in Scenes \ reset : S(k)' = S(k)
      /\ torn' = torn \ (reset \cup {Final})
      /\ \A k \in Scenes : Chained(k) /\ k - 1 \in reset => k \in reset
  BY <1>1, InvalidateDoes, TailRuns DEF S
<1>3. PICK R \in SUBSET Scenes : R = reset
  BY <1>2
<1> HIDE DEF reset
<1>4. /\ op'[p].pc = "look"
      /\ \A q \in Procs \ {p} :
           /\ op'[q].pc = op[q].pc /\ op'[q].i = op[q].i
           /\ op'[q].job = op[q].job /\ op'[q].proj = op[q].proj
           /\ op[q].stale => op'[q].stale
           /\ op[q].pc \in Carrying /\ op[q].i \in R => op'[q].stale
  BY <1>1, <1>2, <1>3, UpsetDoes
<1>5. JobsFrom
  BY <1>1 DEF JobsFrom
<1>6. WorkFrom
  BY <1>4, WorkerIs DEF WorkFrom, w
<1>7. \A q \in Procs : Carried(q) /\ (In(q, OnScene \cup {"write"})' /\ op'[q].i \in R => op'[q].stale)
  BY <1>4 DEF Carried, Carrying, OnScene
<1>8. ASSUME NEW k \in R PROVE ShotScene(k)'
  <2>1. S(k)' = Blank /\ k \in Scenes
    BY <1>2, <1>3, <1>8
  <2>2. (Spent(k, S(k).job))'
    <3>1. \A j \in jobs : j.id # Null
      BY NullIs DEF Types, JobType
    <3>2. ~(In(Worker, {"check", "write"})' /\ w'.job = Null)
      <4>1. In(Worker, {"check", "write"}) => w.job \in Takes
        BY DEF Fits, OpFits, ByWorker, w
      <4> QED
        BY <1>4, <4>1, NullIs, WorkerIs DEF w
    <3> QED
      BY <1>1, <2>1, <3>1, <3>2 DEF Spent, Blank, w
  <2> QED
    BY <2>1, <2>2 DEF ShotScene, Blank
<1>9. ASSUME NEW k \in Untorn' \ R
      PROVE  /\ k \in Untorn /\ S(k)' = S(k)
             /\ Paired(k)' => Paired(k) /\ k - 1 \in Scenes /\ S(k - 1)' = S(k - 1)
  <2>1. k \in Scenes /\ k \notin torn /\ S(k)' = S(k)
    BY <1>2, <1>3, <1>9 DEF Untorn, Final
  <2>2. ASSUME Paired(k)' PROVE k - 1 \in Scenes \ R /\ k - 1 \notin torn
    <3>1. Chained(k) /\ k - 1 \in Scenes /\ k - 1 \notin torn'
      BY <2>1, <2>2, ChainAssumption DEF Paired, Chained
    <3> QED
      BY <1>2, <1>3, <1>9, <2>1, <3>1, ChainAssumption DEF Final
  <2> QED
    BY <1>2, <1>3, <2>1, <2>2 DEF Untorn, Paired
<1>10. ASSUME NEW k \in Untorn' \ R
       PROVE  /\ Paired(k)' => Paired(k) /\ T(k - 1)' = T(k - 1)
              /\ T(k)' = T(k)
  BY <1>9, <1>10, SameTake DEF Untorn
<1>11. ASSUME NEW k \in Untorn' \ R PROVE ShotScene(k)'
  <2>1. k \in Scenes /\ ShotScene(k) /\ S(k).job # nextId /\ S(k)' = S(k)
    BY <1>9, <1>11, JobIs DEF Shot, Untorn
  <2>2. S(k).status = "running" /\ S(k).job # Claiming => Bears(k, S(k).job)'
    BY <1>5, <1>6, <1>10, <1>11, <2>1, BearsStay DEF ShotScene
  <2>3. S(k).status # "running" => Spent(k, S(k).job)'
    BY <1>5, <1>6, <2>1, SpentStays DEF ShotScene
  <2> QED
    BY <1>9, <1>10, <1>11, <2>1, <2>2, <2>3 DEF ShotScene, FromHere
<1>12. ASSUME NEW q \in Procs PROVE ShotOp(q)'
  <2>1. SUFFICES ASSUME NEW k \in Untorn', op'[q].i = k, ~op'[q].stale,
                        In(q, OnScene \cup {"write"})'
                 PROVE  ShotOp(q)'
    BY DEF ShotOp, OnScene
  <2>2. k \in Untorn' \ R
    BY <1>7, <2>1
  <2>3. k \in Untorn /\ S(k)' = S(k)
    BY <1>9, <2>2
  <2>4. Paired(k)' => Paired(k) /\ T(k - 1)' = T(k - 1)
    BY <1>10, <2>2
  <2>5. /\ ~op[q].stale /\ op'[q].pc = op[q].pc /\ op[q].i = k
        /\ op'[q].proj = op[q].proj /\ op'[q].job = op[q].job
    BY <1>7, <2>1 DEF Carried
  <2>6. ASSUME In(q, {"record"}), NEW id, id = op[q].proj
        PROVE  Bears(k, id)'
    <3>1. Bears(k, id)
      BY <2>3, <2>5, <2>6 DEF Shot, ShotOp
    <3>2. id # nextId
      BY <2>6 DEF Fits, OpFits, Types
    <3> QED
      BY <1>5, <1>6, <2>3, <2>4, <3>1, <3>2, BearsStay DEF Untorn
  <2>7. /\ In(q, OnScene) => S(k).status = "running" /\ S(k).job = Claiming
        /\ In(q, {"submit"}) /\ Paired(k) => op[q].proj[k - 1] = T(k - 1)
        /\ In(q, {"write"}) => S(k).status = "running" /\ S(k).job = op[q].job
    BY <2>3, <2>5 DEF Shot, ShotOp
  <2>8. (In(q, {"record"}) => Bears(op[q].i, op[q].proj))'
    BY <2>1, <2>5, <2>6
  <2> QED
    BY <2>1, <2>3, <2>4, <2>5, <2>7, <2>8 DEF ShotOp
<1>13. Alone'
  <2>1. \A q \in Procs : \A k \in Untorn' : Holds(q, k)' => Holds(q, k) /\ k \in Untorn
    BY <1>7, <1>9 DEF Holds, Carried
  <2> QED
    BY <2>1 DEF Shot, Alone
<1> QED
  BY <1>8, <1>11, <1>12, <1>13 DEF Shot

LEMMA PageShot ==
  ASSUME Types, Fits, Shot, NEW p \in Pages, PageStep(p)
  PROVE  Shot'
<1>0. p \in Procs /\ OpFits(p)
  BY DEF Fits
<1>1. CASE Approve(p) \/ Approved(p) \/ Draft(p) \/ Route(p) \/ SetRoute(p)
  <2>1. op[p].kind \in LateStages \/ ~Draft(p)
    BY <1>0 DEF OpFits, Draft
  <2>2. jobs' = jobs /\ torn' = torn /\ (Draft(p) \/ SetRoute(p) \/ file' = file)
    BY <1>1 DEF Approve, Approved, Draft, Route, SetRoute
  <2>3. Only(p) /\ file'.scene = file.scene
        /\ (op'[p] = Idle \/ op'[p].pc \in {"save", "look", "route", "rebuild"})
    BY <1>0, <1>1, <2>1, <2>2, ApproveDoes, ApprovedDoes, DraftDoes, RouteDoes, SetRouteDoes
  <2>4. ~In(p, OnScene \cup {"check", "write"})'
    BY <2>3, IdleIs DEF OnScene
  <2> QED
    BY <1>0, <2>2, <2>3, <2>4, ShotCalm DEF JobsFrom
<1>2. CASE Save(p)
  <2>1. Only(p) /\ op'[p].pc = "look" /\ jobs' = jobs
    BY <1>0, <1>2, SaveDoes DEF Save
  <2>2. CASE file' = file /\ torn' = torn
    BY <1>0, <2>1, <2>2, ShotCalm DEF JobsFrom, OnScene
  <2>3. CASE torn' = torn \cup Scenes
    <3>1. Untorn' = {}
      BY <2>3 DEF Untorn
    <3> QED
      BY <3>1 DEF Shot, Alone, ShotOp
  <2> QED
    BY <1>0, <1>2, <2>2, <2>3, SaveDoes
<1>3. CASE Rebuild(p)
  <2>1. jobs' = jobs /\ torn' = torn /\ nextId' = nextId
    BY <1>3 DEF Rebuild
  <2>2. Upset(p, {}) /\ file'.scene = file.scene /\ {} \in SUBSET Scenes
    BY <1>0, <1>3, RebuildDoes
  <2>3. /\ op'[p].pc = "look"
        /\ \A q \in Procs \ {p} :
             /\ op'[q].pc = op[q].pc /\ op'[q].i = op[q].i
             /\ op'[q].job = op[q].job /\ op'[q].proj = op[q].proj
             /\ op[q].stale => op'[q].stale
    BY <1>0, <2>1, <2>2, UpsetDoes
  <2>4. \A q \in Procs : Carried(q)
    BY <2>3 DEF Carried, OnScene
  <2>5. WorkFrom
    BY <2>3, WorkerIs DEF WorkFrom, w
  <2> QED
    BY <2>1, <2>2, <2>4, <2>5, ShotFrame DEF JobsFrom
<1>4. ASSUME NEW i \in Scenes, Retry(p, i) PROVE Shot'
  <2>1. file' = file /\ torn' = torn
    BY <1>4 DEF Retry
  <2>2. Only(p) /\ op'[p].pc = "invalidate" /\ JobsFrom
    BY <1>0, <1>4, RetryDoes DEF JobsFrom
  <2> QED
    BY <1>0, <2>1, <2>2, ShotCalm DEF OnScene
<1>5. ASSUME NEW s \in LateStages, RetryStage(p, s) PROVE Shot'
  <2>1. file' = file /\ torn' = torn /\ jobs' = jobs
    BY <1>5 DEF RetryStage
  <2>2. Only(p) /\ op'[p].pc = "draft"
    BY <1>0, <1>5, RetryStageDoes
  <2> QED
    BY <1>0, <2>1, <2>2, ShotCalm DEF OnScene, JobsFrom
<1>6. ASSUME NEW j \in jobs, Cancel(p, j) PROVE Shot'
  <2>1. op' = op /\ jobs' = jobs \ {j} /\ file'.scene = file.scene /\ torn' = torn
    BY <1>0, <1>6, CancelDoes DEF Cancel
  <2>2. JobsFrom /\ WorkFrom /\ \A q \in Procs : Carried(q)
    BY <2>1 DEF JobsFrom, WorkFrom, Carried, w
  <2> QED
    BY <2>1, <2>2, ShotFrame
<1> QED
  BY <1>0, <1>1, <1>2, <1>3, <1>4, <1>5, <1>6, InvalidateShot DEF PageStep, LateStages

LEMMA TakeShot ==
  ASSUME Types, Fits, Shot, Take
  PROVE  Shot'
<1>1. file' = file /\ torn' = torn
  BY DEF Take
<1>2. PICK j \in jobs : LET k == [j EXCEPT !.state = "running"] IN
        /\ jobs' = (jobs \ {j}) \cup {k}
        /\ k.id = j.id /\ k.kind = j.kind /\ k.scene = j.scene /\ k.from = j.from
        /\ Only(Worker)
        /\ j.kind = "scene" => w'.pc = "shoot"
        /\ j.kind = "upscale" => w'.pc = "wanted"
        /\ j.kind = "assembly" => w'.pc = "gather"
  BY TakeDoes
<1>3. j.kind \in {"scene", "upscale", "assembly"}
  BY DEF Types, JobType
<1>4. ~In(Worker, OnScene \cup {"check", "write"})'
  BY <1>2, <1>3 DEF OnScene, w
<1>5. JobsFrom
  BY <1>2 DEF JobsFrom
<1> QED
  BY <1>1, <1>2, <1>4, <1>5, WorkerIs, ShotCalm

LEMMA ShootShot ==
  ASSUME Types, Fits, Shot, Shoot
  PROVE  Shot'
<1>1. file' = file /\ torn' = torn /\ w.pc = "shoot"
  BY DEF Shoot
<1>2. PICK j \in jobs : j.id = w.job /\ j.kind = "scene" /\ j.scene = w.i
  BY <1>1 DEF Fits, JobsFit, Body, w
<1>3. \A k \in jobs : k.id = w.job => k = j
  BY <1>2 DEF Fits, JobsFit
<1>4. /\ Only(Worker) /\ w'.pc = "check" /\ w'.i = w.i /\ w'.job = w.job
      /\ w'.proj.from = j.from /\ jobs' \subseteq jobs
  BY <1>2, <1>3, ShootDoes
<1>5. JobsFrom
  BY <1>4 DEF JobsFrom
<1>6. WorkFrom
  BY <1>2, <1>4 DEF WorkFrom
<1>7. \A q \in Procs : Carried(q)
  BY <1>4 DEF Carried, Only, OnScene, w
<1> QED
  BY <1>1, <1>5, <1>6, <1>7, ShotFrame

\* The scene that still names the job is still running.
LEMMA CheckShot ==
  ASSUME Types, Fits, Shot, Check
  PROVE  Shot'
<1>1. file' = file /\ torn' = torn /\ jobs' = jobs /\ w.pc = "check"
  BY DEF Check
<1>2. CASE w' = Idle
  <2>1. Only(Worker) /\ ~In(Worker, OnScene \cup {"check", "write"})'
    BY <1>2, CheckDoes, IdleIs, WorkerIs DEF OnScene, w
  <2> QED
    BY <1>1, <2>1, ShotCalm, WorkerIs DEF JobsFrom
<1>3. CASE /\ file.scene[w.i].job = w.job
           /\ w'.pc = "write" /\ w'.i = w.i /\ w'.job = w.job /\ w'.proj = w.proj
  <2>1. Only(Worker)
    BY CheckDoes
  <2>2. JobsFrom /\ WorkFrom /\ Touches({})
    BY <1>1, <1>3 DEF JobsFrom, WorkFrom, Touches, S, w
  <2>3. \A q \in Procs \ {Worker} : Carried(q)
    BY <2>1 DEF Carried, Only
  <2>4. \A k \in Untorn' : ShotScene(k)'
    BY <1>1, <2>2, SceneStays
  <2>5. \A q \in Procs \ {Worker} : ShotOp(q)'
    BY <1>1, <2>2, <2>3, OpStays
  <2>6. ASSUME NEW i \in Untorn, w.i = i
        PROVE  S(i).status = "running" /\ S(i).job = w.job
    <3>1. ShotScene(i) /\ S(i).job = w.job
      BY <1>3, <2>6 DEF Shot, S
    <3>2. ~Spent(i, S(i).job)
      BY <1>1, <2>6, <3>1 DEF Spent, w
    <3> QED
      BY <3>1, <3>2 DEF ShotScene
  <2>7. ShotOp(Worker)'
    BY <1>1, <1>3, <2>6 DEF ShotOp, Untorn, S, OnScene, w
  <2>8. Alone'
    BY <1>1, <1>3, <2>1 DEF Shot, Alone, Untorn, Holds, Only, OnScene, w
  <2> QED
    BY <2>4, <2>5, <2>7, <2>8 DEF Shot
<1> QED
  BY <1>2, <1>3, CheckDoes

LEMMA WriteShot ==
  ASSUME Types, Fits, Shot, Write
  PROVE  Shot'
<1>1. PICK i \in Scenes : i = w.i /\ w.proj \in Shots /\ w.job \in Takes
  BY DEF Fits, OpFits, Write, ByWorker, w
<1>2. jobs' = jobs /\ nextId' = nextId /\ w.pc = "write" /\ torn \subseteq torn'
      /\ (w.stale => i \in torn')
  BY <1>1, ScarIs, WorkerIs DEF Write, w
<1>3. /\ Only(Worker) /\ w'.pc = "look"
      /\ \A k \in Scenes \ {i} : S(k)' = S(k)
      /\ S(i)'.job = S(i).job /\ S(i)'.ltx = S(i).ltx
      /\ \/ S(i)'.status = "done" /\ S(i)'.clip = w.proj
         \/ S(i)'.status = "failed" /\ S(i)'.clip = S(i).clip
  BY <1>1, WriteDoes DEF S
<1>4. ~In(Worker, OnScene \cup {"check", "write"})'
  BY <1>3 DEF OnScene, w
<1>5. ASSUME i \notin torn'
      PROVE  /\ S(i).status # "done" /\ ShotScene(i)'
             /\ \A q \in Procs \ {Worker} :
                  op[q].i = i /\ ~op[q].stale => ~In(q, OnScene \cup {"write"})
  <2>1. i \in Untorn /\ ~w.stale
    BY <1>2, <1>5 DEF Untorn
  <2>2. S(i).status = "running" /\ S(i).job = w.job /\ ShotScene(i)
    BY <1>1, <1>2, <2>1, WorkerIs DEF Shot, ShotOp, w
  <2>3. S(i).job # Claiming
    BY <1>1, <2>2 DEF Claiming
  <2>4. FromHere(i, w.proj.from)
    BY <1>1, <1>2, <2>2, <2>3 DEF ShotScene, Bears, w
  <2>5. Paired(i)' => Paired(i) /\ S(i - 1)' = S(i - 1) /\ T(i - 1)' = T(i - 1)
    BY <1>2, <1>3, SameTake, ChainAssumption DEF Paired, Chained
  <2>6. Spent(i, S(i).job)'
    <3>1. \A j \in jobs : j.id # w.job
      BY <1>2 DEF Fits, JobsFit, w
    <3> QED
      BY <1>2, <1>3, <2>2, <3>1 DEF Spent, w
  <2>7. S(i)'.status = "failed" => S(i)'.clip = Null
    BY <1>3, <2>2 DEF ShotScene
  <2>8. ShotScene(i)'
    BY <1>3, <2>2, <2>4, <2>5, <2>6, <2>7 DEF ShotScene, FromHere
  <2>9. ASSUME NEW q \in Procs \ {Worker}, op[q].i = i, ~op[q].stale, In(q, OnScene \cup {"write"})
        PROVE  FALSE
    <3>1. ~In(q, {"write"})
      BY <2>9 DEF Fits, OpFits, ByWorker
    <3>2. S(i).job = Claiming
      BY <2>1, <2>9, <3>1 DEF Shot, ShotOp
    <3> QED
      BY <2>3, <3>2
  <2> QED
    BY <2>2, <2>8, <2>9
<1> QED
  BY <1>2, <1>3, <1>4, <1>5, ShotWrites, WorkerIs

LEMMA PartShot ==
  ASSUME Types, Fits, Shot, Part
  PROVE  Shot'
<1>1. w.i \in 0..(NScenes - 1) /\ w.proj \in [Scenes -> OptTakes] /\ jobs' = jobs /\ torn' = torn
      /\ nextId' = nextId
  BY DEF Fits, OpFits, Part, w
<1>2. PICK n \in Scenes : n = w.i + 1
  BY <1>1, PartDoes
<1>3. /\ Only(Worker) /\ w'.pc \in {"part", "closeUpscale"}
      /\ \A k \in Scenes \ {n} : S(k)' = S(k)
      /\ S(n)'.status = S(n).status /\ S(n)'.job = S(n).job /\ S(n)'.clip = S(n).clip
      /\ S(n)'.ltx \in {S(n).ltx, T(n)}
  BY <1>1, <1>2, PartDoes DEF S
<1>4. WorkFrom /\ JobsFrom
  BY <1>1, <1>3, WorkerIs DEF WorkFrom, JobsFrom, w
<1>5. \A q \in Procs : Carried(q)
  BY <1>3 DEF Carried, Only, OnScene, w
<1>6. Touches({n})
  BY <1>3 DEF Touches
<1>7. T(n)' = T(n)
  BY <1>2, <1>3, SameTake
<1>8. n \in Untorn => ShotScene(n)'
  <2> SUFFICES ASSUME n \in Untorn PROVE ShotScene(n)'
    OBVIOUS
  <2>1. ShotScene(n) /\ S(n).job # nextId
    BY JobIs DEF Shot
  <2>2. Paired(n)' => Paired(n) /\ S(n - 1)' = S(n - 1) /\ T(n - 1)' = T(n - 1)
    BY <1>1, <1>2, <1>3, SameTake, ChainAssumption DEF Paired, Chained
  <2>3. S(n).status = "running" /\ S(n).job # Claiming => (Bears(n, S(n).job))'
    <3>1. ASSUME NEW id, id = S(n).job, S(n).status = "running", id # Claiming PROVE Bears(n, id)'
      BY <1>2, <1>4, <2>1, <2>2, <3>1, BearsStay DEF ShotScene
    <3> QED
      BY <1>3, <3>1
  <2>4. S(n).status # "running" => (Spent(n, S(n).job))'
    <3>1. ASSUME NEW id, id = S(n).job, S(n).status # "running" PROVE Spent(n, id)'
      BY <1>2, <1>4, <2>1, <3>1, SpentStays DEF ShotScene
    <3> QED
      BY <1>3, <3>1
  <2>5. S(n).status # "done" => T(n) = Null
    BY <2>1 DEF ShotScene, T, S, TakesOf
  <2> QED
    BY <1>3, <1>7, <2>1, <2>2, <2>3, <2>4, <2>5 DEF ShotScene, FromHere
<1>9. \A k \in Untorn' : ShotScene(k)'
  BY <1>1, <1>4, <1>6, <1>8, SceneStays DEF Untorn
<1>10. \A k \in Scenes : S(k)'.status = S(k).status /\ S(k)'.job = S(k).job
  BY <1>3
<1>12. \A q \in Procs : ShotOp(q)'
  BY <1>1, <1>4, <1>5, <1>6, <1>10, OpKeeps
<1>11. Alone'
  BY <1>1, <1>5, AloneStays, CarriedHolds
<1> QED
  BY <1>9, <1>11, <1>12 DEF Shot

LEMMA WorkerShot ==
  ASSUME Types, Fits, Shot, WorkerStep
  PROVE  Shot'
<1>1. ASSUME In(Worker, ByWorker) PROVE w.job \in Takes
  BY <1>1 DEF Fits, OpFits, w
<1>2. CASE \/ NoCard \/ Wanted \/ ReadTakes \/ PartBroken \/ CloseUpscale \/ MarkUpscale
           \/ Gather \/ Joined \/ Finished \/ Unjoined
  <2>1. jobs' = jobs /\ torn \subseteq torn' /\ In(Worker, ByWorker)
    BY <1>2, ScarIs, WorkerIs DEF NoCard, Wanted, ReadTakes, PartBroken, CloseUpscale, MarkUpscale,
          Gather, Joined, Finished, Unjoined, ByWorker, Body, Upscaler, Joiner, w
  <2>2. w.job \in Takes
    BY <1>1, <2>1
  <2>3. CASE NoCard \/ ReadTakes \/ PartBroken \/ Gather \/ Wanted
    <3>1. file' = file /\ Whole(file)
      BY <2>3 DEF NoCard, Wanted, ReadTakes, PartBroken, Gather, Fits
    <3>2. Only(Worker) /\ w'.pc \in Upscaler \cup Joiner \cup {"file"}
      BY <2>2, <2>3, <3>1, NoCardDoes, WantedDoes, ReadTakesDoes, PartBrokenDoes, GatherDoes
         DEF Upscaler, Joiner
    <3>3. ~In(Worker, OnScene \cup {"check", "write"})'
      BY <3>2 DEF OnScene, Upscaler, Joiner, w
    <3> QED
      BY <2>1, <3>1, <3>2, <3>3, ShotCalm, WorkerIs DEF JobsFrom
  <2>4. CASE CloseUpscale \/ MarkUpscale \/ Finished \/ Unjoined \/ Joined
    <3>1. Joined => w.proj \in [Scenes -> Takes]
      BY DEF Joined, Fits, OpFits, w
    <3>2. Only(Worker) /\ file'.scene = file.scene /\ w'.pc \in {"markUpscale", "finished", "file"}
      BY <2>2, <2>4, <3>1, CloseUpscaleDoes, MarkUpscaleDoes, FinishedDoes, JoinedDoes
    <3>3. ~In(Worker, OnScene \cup {"check", "write"})'
      BY <3>2 DEF OnScene, w
    <3> QED
      BY <2>1, <3>2, <3>3, ShotCalm, WorkerIs DEF JobsFrom
  <2> QED
    BY <1>2, <2>3, <2>4
<1>3. CASE FileJob
  <2>1. file' = file /\ torn' = torn
    BY <1>3 DEF FileJob
  <2>2. Only(Worker) /\ w'.pc = "look" /\ JobsFrom
    BY <1>3, FileJobDoes DEF JobsFrom
  <2>3. ~In(Worker, OnScene \cup {"check", "write"})'
    BY <2>2 DEF OnScene, w
  <2> QED
    BY <2>1, <2>2, <2>3, ShotCalm, WorkerIs
<1> QED
  BY <1>2, <1>3, TakeShot, ShootShot, CheckShot, WriteShot, PartShot DEF WorkerStep

LEMMA ShotStep ==
  ASSUME Types, Fits, Shot, [Next]_vars
  PROVE  Shot'
<1>1. ASSUME NEW p \in Procs, Die(p) PROVE Shot'
  <2>1. file' = file /\ torn' = torn
    BY <1>1 DEF Die
  <2>2. Only(p) /\ op'[p] = Idle /\ JobsFrom
    BY <1>1, DieDoes DEF JobsFrom
  <2> QED
    BY <2>1, <2>2, IdleIs, ShotCalm DEF OnScene
<1>2. CASE UNCHANGED vars
  BY <1>2, ShotFrame DEF vars, JobsFrom, WorkFrom, Carried, w
<1> QED
  BY <1>1, <1>2, AdvanceShot, PageShot, WorkerShot DEF Next

LEMMA ShotInit == Init => Shot
<1> SUFFICES ASSUME Init PROVE Shot
  OBVIOUS
<1>1. Types
  BY TypesInit
<1>2. \A p \in Procs : op[p] = Idle
  BY DEF Init
<1>3. \A p \in Procs : ~In(p, OnScene \cup {"check", "write"})
  BY <1>1, <1>2, IdleIs DEF OnScene
<1>4. \A i \in Scenes : S(i) = Blank /\ T(i) = Null
  BY DEF Init, S, T, TakesOf, Blank
<1>5. jobs = {}
  BY DEF Init
<1>6. \A i \in Scenes : ShotScene(i)
  BY <1>3, <1>4, <1>5, WorkerIs DEF ShotScene, Blank, Spent
<1>7. (\A p \in Procs : ShotOp(p)) /\ Alone
  BY <1>3 DEF ShotOp, Alone, Holds, OnScene
<1> QED
  BY <1>6, <1>7 DEF Shot, Untorn

\* A chained scene that is done was shot from the take the scene before it has now,
\* for any number of scenes and of pages pressing buttons beside the worker: a stale job,
\* a late write of the worker and a retry never leave a pair that does not match, unless
\* somebody wrote over a reset it had not seen.
THEOREM ProjectChainIsFresh == Spec => []ChainIsFresh
<1>1. Types /\ Fits /\ Shot => ChainIsFresh
  <2> SUFFICES ASSUME Types, Fits, Shot, NEW i \in Scenes, Chained(i),
                      file.scene[i].status = "done", {i, i - 1} \cap torn = {}
               PROVE  /\ file.scene[i - 1].status = "done"
                      /\ file.scene[i].clip.from = file.scene[i - 1].clip.take
    BY DEF ChainIsFresh
  <2>1. i \in Untorn /\ Paired(i) /\ i - 1 \in Scenes
    BY ChainAssumption DEF Untorn, Paired, Chained
  <2>2. S(i - 1).status = "done" /\ S(i).clip.from = T(i - 1)
    BY <2>1 DEF Shot, ShotScene, FromHere, S
  <2>3. S(i - 1).clip # Null
    BY <2>1, <2>2 DEF Fits, Whole, S
  <2> QED
    BY <2>1, <2>2, <2>3 DEF S, T, TakesOf
<1>2. Types /\ Fits /\ Shot /\ [Next]_vars => (Types /\ Fits /\ Shot)'
  BY TypesStep, FitsStep, ShotStep
<1> QED
  BY <1>1, <1>2, TypesInit, ShotInit, PTL DEF Spec

-----------------------------------------------------------------------------
(* Every step keeps the assembly of the takes there are.                   *)

\* The worker joins takes nobody has reset since it read them.
Joins == In(Worker, {"joined", "finished"}) /\ ~w.stale
JoinsOn == Joins' => Joins /\ w'.pc = w.pc /\ w'.proj = w.proj

SameTakes == /\ file'.final = file.final
             /\ \A i \in Scenes : S(i)'.status = S(i).status /\ S(i)'.clip = S(i).clip

LEMMA ScenesSame ==
  ASSUME file' = file \/ (file'.scene = file.scene /\ file'.final = file.final)
  PROVE  SameTakes
  BY DEF SameTakes, S

LEMMA JoinsOnly ==
  ASSUME NEW p \in Procs, Only(p), p = Worker => ~In(Worker, {"joined", "finished"})'
  PROVE  JoinsOn
  BY WorkerIs DEF JoinsOn, Joins, Only, w

\* A step that neither joins nor sets aside an assembly changes no take of one.
LEMMA BuiltStays ==
  ASSUME Built, torn' = {} => torn = {} /\ (SameTakes \/ ~AllDone(file)), JoinsOn,
         file'.stage["assembly"] = "done" => file.stage["assembly"] = "done"
  PROVE  Built'
<1> SUFFICES ASSUME torn' = {} PROVE Built'
  BY DEF Built
<1>1. CASE SameTakes
  <2>1. TakesOf(file)' = TakesOf(file) /\ (AllDone(file) => AllDone(file)')
    BY <1>1 DEF SameTakes, S, TakesOf, AllDone
  <2>2. file'.final = file.final /\ torn = {}
    BY <1>1 DEF SameTakes
  <2>3. file'.stage["assembly"] = "done" => (file.final = TakesOf(file) /\ AllDone(file))'
    BY <2>1, <2>2 DEF Built
  <2>4. Joins' => (AllDone(file) /\ w.proj = TakesOf(file))'
    BY <2>1, <2>2 DEF Built, JoinsOn, Joins
  <2>5. Joins' /\ In(Worker, {"finished"})' => (file.final = w.proj)'
    BY <2>1, <2>2 DEF Built, JoinsOn, Joins, w
  <2> QED
    BY <2>3, <2>4, <2>5 DEF Built, Joins
<1>2. CASE ~AllDone(file)
  BY <1>2 DEF Built, JoinsOn, Joins
<1> QED
  BY <1>1, <1>2

LEMMA AdvanceBuilt ==
  ASSUME Types, Fits, Shot, Built, NEW p \in Procs, AdvanceStep(p)
  PROVE  Built'
<1>0. OpFits(p)
  BY DEF Fits
<1>1. CASE Look(p)
  <2>1. file' = file /\ torn' = torn
    BY <1>1 DEF Look
  <2>2. Only(p) /\ ~In(p, {"joined", "finished"})'
    BY <1>1, LookDoes, IdleIs
  <2> QED
    BY <2>1, <2>2, JoinsOnly, ScenesSame, BuiltStays
<1>2. CASE Halt(p) \/ ScenesDone(p) \/ StageRuns(p) \/ StageFails(p)
  <2>0. op[p].kind \in LateStages \/ Halt(p) \/ ScenesDone(p)
    BY <1>0, <1>2 DEF OpFits, StageRuns, StageFails, OnStage
  <2>1. torn \subseteq torn'
    BY <1>2, ScarIs DEF Halt, ScenesDone, StageRuns, StageFails
  <2>2. /\ Only(p) /\ file'.scene = file.scene /\ file'.final = file.final
        /\ op'[p] = Ended(p) \/ op'[p] = Idle \/ op'[p].pc = "submitStage"
        /\ file'.stage["assembly"] \in {file.stage["assembly"], "running", "failed"}
    BY <1>2, <2>0, HaltDoes, ScenesDoneDoes, StageRunsDoes, StageFailsDoes DEF LateStages
  <2>3. ~In(p, {"joined", "finished"})'
    BY <2>2, IdleIs
  <2>4. JoinsOn /\ SameTakes
    BY <2>2, <2>3, JoinsOnly, ScenesSame
  <2> QED
    BY <2>1, <2>2, <2>4, BuiltStays
<1>3. CASE Claim(p)
  <2>1. op[p].i \in Scenes /\ torn' = torn /\ file \in FileType
    BY <1>0, <1>3 DEF OpFits, Claim, Types
  <2>2. Only(p) /\ ~In(p, {"joined", "finished"})'
    BY <1>3, <2>1, ClaimDoes, IdleIs
  <2>3. JoinsOn
    BY <2>2, JoinsOnly
  <2>4. CASE file' = file
    BY <2>1, <2>3, <2>4, ScenesSame, BuiltStays
  <2>5. CASE op[p].i \in Ready(file) /\ file' = SceneSet(file, op[p].i, "running", Claiming)
    <3>1. ~AllDone(file)
      BY <2>1, <2>5 DEF AllDone, Ready
    <3>2. file'.stage = file.stage
      BY <2>1, <2>5 DEF SceneSet, FileType
    <3> QED
      BY <2>1, <2>3, <3>1, <3>2, BuiltStays
  <2> QED
    BY <1>3, <2>1, <2>4, <2>5, ClaimDoes
<1>4. CASE StageScenes(p) \/ Unstage(p)
  <2>1. torn' = torn
    BY <1>4 DEF StageScenes, Unstage
  <2>2. /\ Only(p) /\ ~In(p, {"joined", "finished"})'
        /\ file'.scene = file.scene /\ file'.final = file.final
        /\ file'.stage["assembly"] = file.stage["assembly"]
    BY <1>4, StageScenesDoes, UnstageDoes, IdleIs DEF LateStages
  <2>3. JoinsOn /\ SameTakes
    BY <2>2, JoinsOnly, ScenesSame
  <2> QED
    BY <2>1, <2>2, <2>3, BuiltStays
<1>5. CASE Submit(p)
  <2>1. op[p].i \in Scenes /\ op[p].proj \in [Scenes -> OptTakes] /\ file' = file /\ torn' = torn
    BY <1>0, <1>5 DEF OpFits, Submit, OnScene
  <2>2. Only(p) /\ ~In(p, {"joined", "finished"})'
    BY <1>5, <2>1, SubmitDoes
  <2> QED
    BY <2>1, <2>2, JoinsOnly, ScenesSame, BuiltStays
<1>6. CASE SubmitStage(p)
  <2>1. op[p].kind \in LateStages /\ file' = file /\ torn' = torn
    BY <1>0, <1>6 DEF OpFits, SubmitStage, OnStage
  <2>2. Only(p) /\ ~In(p, {"joined", "finished"})'
    BY <1>6, <2>1, SubmitStageDoes, IdleIs
  <2> QED
    BY <2>1, <2>2, JoinsOnly, ScenesSame, BuiltStays
<1>7. CASE Record(p) \/ Rollback(p)
  <2>1. op[p].i \in Scenes /\ (Record(p) => op[p].proj \in Takes) /\ In(p, OnScene)
    BY <1>0, <1>7 DEF OpFits, Record, Rollback, OnScene
  <2>2. /\ Only(p) /\ ~In(p, {"joined", "finished"})'
    BY <1>7, <2>1, RecordDoes, RollbackDoes, IdleIs
  <2>3. file'.stage = file.stage
    <3>1. PICK v \in {"running", "failed", "pending"} : \E job \in Takes \cup {Null} :
            file' = SceneSet(file, op[p].i, v, job)
      BY <1>7, <2>1, RecordDoes, RollbackDoes
    <3> QED
      BY <2>1, <3>1, SceneSetIs DEF Types, SceneStatuses
  <2>4. /\ torn \subseteq torn'
        /\ op[p].stale => op[p].i \in torn'
    BY <1>7, ScarIs DEF Record, Rollback
  <2>5. torn' = {} => torn = {} /\ ~AllDone(file)
    <3> SUFFICES ASSUME torn' = {} PROVE torn = {} /\ ~AllDone(file)
      OBVIOUS
    <3>1. torn = {} /\ ~op[p].stale
      BY <2>4
    <3>2. op[p].i \in Untorn
      BY <2>1, <3>1 DEF Untorn
    <3>3. S(op[p].i).status = "running"
      BY <2>1, <3>1, <3>2 DEF Shot, ShotOp
    <3> QED
      BY <2>1, <3>1, <3>3 DEF S, AllDone
  <2> QED
    BY <2>2, <2>3, <2>5, JoinsOnly, BuiltStays
<1> QED
  BY <1>1, <1>2, <1>3, <1>4, <1>5, <1>6, <1>7 DEF AdvanceStep

\* Who sets the assembly back tells the worker that what it joins is old.
LEMMA UpsetBuilt ==
  ASSUME Types, Fits, NEW p \in Pages, NEW reset \in SUBSET Scenes, Upset(p, reset),
         nextId' = nextId, file'.stage["assembly"] # "done"
  PROVE  Built'
<1>1. p \in Procs /\ Worker \in Procs \ {p}
  BY ChainAssumption
<1>2. w'.pc = w.pc /\ (w.pc \in Carrying /\ w.i \in reset \cup {0} => w'.stale)
  BY <1>1, UpsetDoes DEF w
<1>3. In(Worker, {"joined", "finished"}) => w.i = 0 /\ w.pc \in Carrying
  BY WorkerIs DEF Fits, OpFits, Joiner, Carrying, w
<1> QED
  BY <1>2, <1>3 DEF Built, w

LEMMA PageBuilt ==
  ASSUME Types, Fits, Built, NEW p \in Pages, PageStep(p)
  PROVE  Built'
<1>0. p \in Procs /\ OpFits(p) /\ p # Worker
  BY ChainAssumption DEF Fits
<1>1. CASE Approve(p) \/ Approved(p) \/ Draft(p) \/ Route(p) \/ SetRoute(p)
  <2>1. op[p].kind \in LateStages \/ ~Draft(p)
    BY <1>0 DEF OpFits, Draft
  <2>2. torn' = torn /\ (Draft(p) \/ SetRoute(p) \/ file' = file)
    BY <1>1 DEF Approve, Approved, Draft, Route, SetRoute
  <2>3. /\ Only(p) /\ file'.scene = file.scene /\ file'.final = file.final
        /\ file'.stage["assembly"] \in {file.stage["assembly"], "draft"}
    BY <1>0, <1>1, <2>1, <2>2, ApproveDoes, ApprovedDoes, DraftDoes, RouteDoes, SetRouteDoes
       DEF LateStages
  <2>4. JoinsOn /\ SameTakes
    BY <1>0, <2>3, JoinsOnly, ScenesSame
  <2> QED
    BY <2>2, <2>3, <2>4, BuiltStays
<1>2. CASE Save(p)
  <2>1. Only(p)
    BY <1>0, <1>2, SaveDoes
  <2>2. CASE file' = file /\ torn' = torn
    BY <1>0, <2>1, <2>2, JoinsOnly, ScenesSame, BuiltStays
  <2>3. CASE torn' = torn \cup Scenes
    BY <2>3, ChainAssumption DEF Built
  <2> QED
    BY <1>0, <1>2, <2>2, <2>3, SaveDoes
<1>3. CASE Rebuild(p)
  <2>1. {} \in SUBSET Scenes /\ nextId' = nextId
    BY <1>3 DEF Rebuild
  <2> QED
    BY <1>0, <1>3, <2>1, RebuildDoes, UpsetBuilt
<1>4. CASE Invalidate(p)
  <2>1. op[p].i \in Scenes /\ nextId' = nextId
    BY <1>0, <1>4 DEF OpFits, Invalidate
  <2>2. Tail(op[p].i) \in SUBSET Scenes
    BY <2>1, TailRuns
  <2> QED
    BY <1>0, <1>4, <2>1, <2>2, InvalidateDoes, UpsetBuilt DEF LateStages
<1>5. ASSUME NEW i \in Scenes, Retry(p, i) PROVE Built'
  <2>1. file' = file /\ torn' = torn /\ Only(p)
    BY <1>0, <1>5, RetryDoes DEF Retry
  <2> QED
    BY <1>0, <2>1, JoinsOnly, ScenesSame, BuiltStays
<1>6. ASSUME NEW s \in LateStages, RetryStage(p, s) PROVE Built'
  <2>1. file' = file /\ torn' = torn /\ Only(p)
    BY <1>0, <1>6, RetryStageDoes DEF RetryStage
  <2> QED
    BY <1>0, <2>1, JoinsOnly, ScenesSame, BuiltStays
<1>7. ASSUME NEW j \in jobs, Cancel(p, j) PROVE Built'
  <2>1. op' = op /\ file'.scene = file.scene /\ file'.final = file.final /\ torn' = torn
        /\ file'.stage["assembly"] = file.stage["assembly"]
    BY <1>0, <1>7, CancelDoes DEF Cancel
  <2>2. JoinsOn /\ SameTakes
    BY <2>1, ScenesSame DEF JoinsOn, Joins, w
  <2> QED
    BY <2>1, <2>2, BuiltStays
<1> QED
  BY <1>1, <1>2, <1>3, <1>4, <1>5, <1>6, <1>7 DEF PageStep, LateStages

LEMMA WorkerBuilt ==
  ASSUME Types, Fits, Shot, Built, WorkerStep
  PROVE  Built'
<1>1. ASSUME In(Worker, ByWorker) PROVE w.job \in Takes
  BY <1>1, WorkerIs DEF Fits, OpFits, w
<1>2. CASE \/ Take \/ Shoot \/ Check \/ NoCard \/ Wanted \/ ReadTakes \/ PartBroken \/ FileJob
  <2>1. file' = file /\ torn' = torn /\ (Wanted => In(Worker, ByWorker)) /\ (Shoot => In(Worker, Body))
    BY <1>2 DEF Take, Shoot, Check, NoCard, Wanted, ReadTakes, PartBroken, FileJob, ByWorker, Body,
                Upscaler, w
  <2>2. Shoot => \E j \in jobs : j.id = w.job /\ \A k \in jobs : k.id = w.job => k = j
    BY <2>1 DEF Fits, JobsFit
  <2>3. Only(Worker) /\ ~In(Worker, {"joined", "finished"})'
    <3>1. CASE Take
      BY <3>1, TakeDoes DEF w, Types, JobType
    <3>2. CASE Shoot \/ Check \/ FileJob
      BY <2>2, <3>2, ShootDoes, CheckDoes, FileJobDoes, IdleIs, WorkerIs DEF w
    <3>3. CASE NoCard \/ Wanted \/ ReadTakes \/ PartBroken
      BY <1>1, <2>1, <3>3, NoCardDoes, WantedDoes, ReadTakesDoes, PartBrokenDoes DEF w
    <3> QED
      BY <1>2, <3>1, <3>2, <3>3
  <2> QED
    BY <2>1, <2>3, WorkerIs, JoinsOnly, ScenesSame, BuiltStays
<1>3. CASE CloseUpscale \/ MarkUpscale
  <2>1. w.job \in Takes /\ torn' = torn
    BY <1>1, <1>3 DEF CloseUpscale, MarkUpscale, ByWorker, Body, Upscaler, w
  <2>2. /\ Only(Worker) /\ w'.pc \in {"markUpscale", "file"}
        /\ file'.scene = file.scene /\ file'.final = file.final
        /\ file'.stage["assembly"] = file.stage["assembly"]
    BY <1>3, <2>1, CloseUpscaleDoes, MarkUpscaleDoes
  <2>3. JoinsOn /\ SameTakes
    BY <2>2, WorkerIs, JoinsOnly, ScenesSame DEF w
  <2> QED
    BY <2>1, <2>2, <2>3, BuiltStays
<1>4. CASE Write
  <2>1. w.i \in Scenes /\ w.proj \in Shots /\ In(Worker, {"write"})
    BY <1>4, WorkerIs DEF Fits, OpFits, Write, w
  <2>2. Only(Worker) /\ ~In(Worker, {"joined", "finished"})' /\ file'.stage = file.stage
    BY <1>4, <2>1, WriteDoes DEF w
  <2>3. /\ torn \subseteq torn'
        /\ w.stale => w.i \in torn'
    BY <1>4, ScarIs, WorkerIs DEF Write, w
  <2>4. torn' = {} => torn = {} /\ ~AllDone(file)
    <3> SUFFICES ASSUME torn' = {} PROVE torn = {} /\ ~AllDone(file)
      OBVIOUS
    <3>1. torn = {} /\ ~w.stale
      BY <2>3
    <3>2. w.i \in Untorn
      BY <2>1, <3>1 DEF Untorn
    <3>3. S(w.i).status = "running"
      BY <2>1, <3>1, <3>2, WorkerIs DEF Shot, ShotOp, w
    <3> QED
      BY <2>1, <3>1, <3>3 DEF S, AllDone
  <2> QED
    BY <2>2, <2>4, WorkerIs, JoinsOnly, BuiltStays
<1>5. CASE Part
  <2>1. w.i \in 0..(NScenes - 1) /\ w.proj \in [Scenes -> OptTakes] /\ torn' = torn
    BY <1>5, WorkerIs DEF Fits, OpFits, Part, w
  <2>2. PICK n \in Scenes : n = w.i + 1
    BY <1>5, <2>1, PartDoes
  <2>3. /\ Only(Worker) /\ w'.pc \in {"part", "closeUpscale"}
        /\ file'.stage = file.stage /\ file'.final = file.final
        /\ \A k \in Scenes \ {n} : S(k)' = S(k)
        /\ S(n)'.status = S(n).status /\ S(n)'.clip = S(n).clip
    BY <1>5, <2>1, <2>2, PartDoes DEF S
  <2>4. JoinsOn /\ SameTakes
    BY <2>3, WorkerIs, JoinsOnly DEF SameTakes, w
  <2> QED
    BY <2>1, <2>3, <2>4, BuiltStays
<1>6. CASE Gather
  <2>1. file' = file /\ torn' = torn /\ Whole(file)
    BY <1>6 DEF Gather, Fits
  <2>2. w'.pc = "unjoined" \/ (w'.pc = "joined" /\ AllDone(file) /\ w'.proj = TakesOf(file))
    BY <1>6, <2>1, GatherDoes
  <2> QED
    BY <2>1, <2>2 DEF Built, w
<1>7. CASE Joined
  <2>1. w.proj \in [Scenes -> Takes] /\ In(Worker, {"joined"})
    BY <1>7, WorkerIs DEF Fits, OpFits, Joined, w
  <2>2. /\ w'.pc = "finished" /\ w'.proj = w.proj /\ w'.stale = w.stale
        /\ file'.scene = file.scene /\ file'.stage = file.stage /\ file'.final = w.proj
    BY <1>7, <2>1, JoinedDoes
  <2>3. torn \subseteq torn' /\ (w.stale => Final \in torn')
    BY <1>7, ScarIs, WorkerIs DEF Joined, w
  <2>4. TakesOf(file)' = TakesOf(file) /\ (AllDone(file))' = AllDone(file)
    BY <2>2 DEF TakesOf, AllDone
  <2> QED
    BY <2>1, <2>2, <2>3, <2>4 DEF Built, w
<1>8. CASE Finished \/ Unjoined
  <2>1. w.job \in Takes
    BY <1>1, <1>8 DEF Finished, Unjoined, ByWorker, Body, Joiner, w
  <2>2. /\ w'.pc = "file" /\ file'.scene = file.scene /\ file'.final = file.final
        /\ Unjoined => file'.stage["assembly"] = "failed"
    BY <1>8, <2>1, FinishedDoes
  <2>3. torn \subseteq torn' /\ (w.stale => Final \in torn')
    BY <1>8, ScarIs, WorkerIs DEF Finished, Unjoined, w
  <2>4. TakesOf(file)' = TakesOf(file) /\ (AllDone(file))' = AllDone(file)
    BY <2>2 DEF TakesOf, AllDone
  <2>5. Finished => In(Worker, {"finished"})
    BY DEF Finished, w
  <2> QED
    BY <1>8, <2>2, <2>3, <2>4, <2>5 DEF Built, w
<1> QED
  BY <1>2, <1>3, <1>4, <1>5, <1>6, <1>7, <1>8 DEF WorkerStep

LEMMA BuiltStep ==
  ASSUME Types, Fits, Shot, Built, [Next]_vars
  PROVE  Built'
<1>1. ASSUME NEW p \in Procs, Die(p) PROVE Built'
  <2>1. file' = file /\ torn' = torn
    BY <1>1 DEF Die
  <2>2. Only(p) /\ ~In(p, {"joined", "finished"})'
    BY <1>1, DieDoes, IdleIs
  <2> QED
    BY <2>1, <2>2, JoinsOnly, ScenesSame, BuiltStays
<1>2. CASE UNCHANGED vars
  BY <1>2 DEF vars, Built, w, TakesOf, AllDone
<1> QED
  BY <1>1, <1>2, AdvanceBuilt, PageBuilt, WorkerBuilt DEF Next

LEMMA BuiltInit == Init => Built
  BY WorkerIs DEF Init, Built, Idle, w

\* The final of a project whose assembly is done joins the takes the project has, and an
\* upscaled part belongs to its scene's take, for any number of scenes and of pages: an
\* upscale or an assembly that was overtaken by a retry or a change of route leaves
\* nothing of the old takes, unless it wrote what it had read before the reset (`torn`).
THEOREM ProjectFinalOfTakes == Spec => []FinalOfTakes
<1>1. Shot /\ Built => FinalOfTakes
  BY DEF Shot, ShotScene, Built, FinalOfTakes, Untorn, S, T
<1>2. Types /\ Fits /\ Shot /\ Built /\ [Next]_vars => (Types /\ Fits /\ Shot /\ Built)'
  BY TypesStep, FitsStep, ShotStep, BuiltStep
<1> QED
  BY <1>1, <1>2, TypesInit, ShotInit, BuiltInit, PTL DEF Spec

-----------------------------------------------------------------------------
(* Nothing hangs.                                                          *)

\* The scene's reset is under way; any reset is.
Resetting(i) == \E q \in Procs : In(q, {"invalidate"}) /\ i \in Tail(op[q].i)
AllReset     == \E q \in Procs : In(q, {"invalidate"})

\* The job a running scene names is queued, or the worker has its result.
Queued(i, id) == \E j \in jobs : j.kind = "scene" /\ j.scene = i /\ j.id = id
Writes(i)     == In(Worker, {"check", "write"}) /\ w.i = i /\ w.job = S(i).job

\* A running scene has somebody who ends its run.
Alive(i) ==
  \/ \E p \in Procs : Holds(p, i)
  \/ Queued(i, S(i).job)
  \/ Writes(i)
  \/ Resetting(i)
Living == \A i \in Scenes : S(i).status = "running" => Alive(i)

\* A job that is still to end its stage.
Ahead(s, j) == j.kind = s /\ ~(In(Worker, {"file"}) /\ w.job = j.id)
Ending == \A s \in LateStages :
  file.stage[s] = "running" => AllReset \/ \E j \in jobs : Ahead(s, j)

\* What a process is about to write is still so: the job it sent waits, every
\* scene is done.
Waits(kind, i, id) ==
  \E j \in jobs : j.kind = kind /\ j.scene = i /\ j.id = id /\ j.state = "pending"
OpGoes(p) ==
  ~op[p].stale =>
    /\ In(p, {"record"}) => Resetting(op[p].i) \/ Waits("scene", op[p].i, op[p].proj)
    /\ In(p, {"stageRuns"}) => AllReset \/ Waits(op[p].kind, 0, op[p].proj)
    /\ In(p, {"scenesDone"}) => AllDone(file)

\* A process that will look at the project again, or fail a stage.
Comers == {"save", "look", "scenesDone", "submitStage", "stageFails", "write",
           "invalidate", "draft", "route", "rebuild"}
Comes(p) == In(p, Comers) \/ (In(p, {"claim"}) /\ op[p].i \in Ready(file))

Stands ==
  \/ Failed(file)
  \/ \E s \in LateStages : file.stage[s] = "failed"
  \/ AllDone(file) /\ file.stage["assembly"] = "done"

\* From the first look of the approval on.
Begun == approved \/ \E p \in Procs : In(p, {"approve"}) \/ (op[p].req = "approve" /\ ~In(p, {"save"}))

Driven ==
  \/ \E p \in Procs : Comes(p)
  \/ \E j \in jobs : j.kind # "scene"
  \/ \E i \in Scenes : S(i).status = "running"
  \/ Stands

Goes == torn = {} /\ Living /\ Ending /\ (\A p \in Procs : OpGoes(p)) /\ (Begun => Driven)
Going == blame = {} => Goes

\* Only a body names a job.
Free == ~In(Worker, ByWorker) => w.job = Null

-----------------------------------------------------------------------------
(* A finite set of scenes has a first one.                                 *)

LEMMA FirstScene ==
  ASSUME NEW A, A \subseteq Scenes, A # {}
  PROVE  \E i \in A : \A k \in 1..(i - 1) : k \notin A
<1>1. A \subseteq Nat
  BY ChainAssumption
<1>2. PICK i \in A : \A k \in A : <<k, i>> \notin OpToRel(<, Nat)
  BY <1>1, NatLessThanWellFounded, WFMin
<1>3. ASSUME NEW k \in A, k < i PROVE FALSE
  <2>1. <<k, i>> \in Nat \X Nat /\ <<k, i>>[1] = k /\ <<k, i>>[2] = i
    BY <1>1
  <2>2. <<k, i>> \in OpToRel(<, Nat)
    BY <1>3, <2>1 DEF OpToRel
  <2> QED
    BY <1>2, <2>2
<1> QED
  BY <1>1, <1>3

\* Where no scene failed and none is in line, one runs.
LEMMA OneRuns ==
  ASSUME file \in FileType, ~Failed(file), ~AllDone(file), Ready(file) = {}
  PROVE  \E i \in Scenes : S(i).status = "running"
<1> DEFINE A == {i \in Scenes : file.scene[i].status # "done"}
<1>1. A \subseteq Scenes /\ A # {}
  BY DEF AllDone
<1>2. PICK i \in A : \A k \in 1..(i - 1) : k \notin A
  BY <1>1, FirstScene
<1>3. i \in Scenes /\ file.scene[i] \in SceneType
  BY <1>2 DEF FileType
<1>4. \A k \in 1..(i - 1) : k \in Scenes /\ file.scene[k].status = "done"
  BY <1>2, <1>3, ChainAssumption
<1>5. file.scene[i].status \notin {"pending", "failed", "done"}
  BY <1>2, <1>3, <1>4 DEF Ready, Failed
<1> QED
  BY <1>3, <1>5 DEF SceneType, SceneStatuses, S

-----------------------------------------------------------------------------
(* Frames.                                                                 *)

\* A step of p takes nothing from a scene.
Leaves(p, k) ==
  /\ S(k)'.status = S(k).status /\ S(k)'.job = S(k).job
  /\ Holds(p, k) => Holds(p, k)'
  /\ p = Worker /\ Writes(k) => Writes(k)'

LEMMA LivingStays ==
  ASSUME Living, NEW p \in Procs, Only(p), jobs \subseteq jobs', ~In(p, {"invalidate"}),
         \A k \in Scenes : Leaves(p, k) \/ S(k)'.status # "running" \/ Alive(k)'
  PROVE  Living'
<1> SUFFICES ASSUME NEW k \in Scenes, Leaves(p, k), S(k)'.status = "running" PROVE Alive(k)'
  BY DEF Living
<1>1. Alive(k)
  BY DEF Living, Leaves
<1>2. CASE \E q \in Procs : Holds(q, k)
  BY <1>2 DEF Alive, Holds, Only, Leaves
<1>3. CASE Queued(k, S(k).job)
  BY <1>3 DEF Alive, Queued, Leaves
<1>4. CASE Writes(k)
  BY <1>4, WorkerIs DEF Alive, Writes, Only, w, Leaves
<1>5. CASE Resetting(k)
  BY <1>5 DEF Alive, Resetting, Only
<1> QED
  BY <1>1, <1>2, <1>3, <1>4, <1>5 DEF Alive

\* A step of a process that neither holds a scene nor brings a result.
LEMMA LivingCalm ==
  ASSUME Living, NEW p \in Procs, Only(p), jobs \subseteq jobs',
         ~In(p, {"invalidate", "check", "write"} \cup OnScene),
         \A k \in Scenes : S(k)'.status = S(k).status /\ S(k)'.job = S(k).job
  PROVE  Living'
<1>1. \A k \in Scenes : Leaves(p, k)
  BY DEF Holds, Writes, OnScene, Leaves
<1>2. ~In(p, {"invalidate"})
  OBVIOUS
<1> QED
  BY <1>1, <1>2, LivingStays

LEMMA OpsGo ==
  ASSUME \A q \in Procs : OpGoes(q), NEW p \in Procs, Only(p), jobs \subseteq jobs',
         ~In(p, {"invalidate"}), OpGoes(p)', AllDone(file) => AllDone(file)'
  PROVE  \A q \in Procs : OpGoes(q)'
<1> SUFFICES ASSUME NEW q \in Procs \ {p} PROVE OpGoes(q)'
  OBVIOUS
<1>1. op'[q] = op[q] /\ OpGoes(q)
  BY DEF Only
<1>2. AllReset => AllReset'
  BY DEF AllReset, Only
<1>3. \A i : Resetting(i) => Resetting(i)'
  BY DEF Resetting, Only
<1>4. \A kind, i, id : Waits(kind, i, id) => Waits(kind, i, id)'
  BY DEF Waits
<1> QED
  BY <1>1, <1>2, <1>3, <1>4 DEF OpGoes

LEMMA OpGoesElsewhere ==
  ASSUME NEW p \in Procs, ~In(p, {"record", "stageRuns", "scenesDone"})'
  PROVE  OpGoes(p)'
  BY DEF OpGoes

LEMMA EndingStays ==
  ASSUME Ending, NEW p \in Procs, Only(p), jobs \subseteq jobs', ~In(p, {"invalidate"}),
         ~In(p, {"file"})',
         \A s \in LateStages : file'.stage[s] = "running" => file.stage[s] = "running"
  PROVE  Ending'
<1>1. AllReset => AllReset'
  BY DEF AllReset, Only
<1>2. \A s, j : Ahead(s, j) => Ahead(s, j)'
  BY WorkerIs DEF Ahead, Only, w
<1> QED
  BY <1>1, <1>2 DEF Ending

\* A body that has written how its stage ended.
LEMMA EndingFiles ==
  ASSUME Fits, Ending, Only(Worker), jobs' = jobs, In(Worker, Body), w'.job = w.job,
         NEW s \in LateStages, s = "upscale" => In(Worker, Upscaler),
         s = "assembly" => In(Worker, Joiner),
         file'.stage[s] # "running", \A t \in LateStages \ {s} : file'.stage[t] = file.stage[t]
  PROVE  Ending'
<1> SUFFICES ASSUME NEW t \in LateStages \ {s}, file'.stage[t] = "running"
             PROVE  AllReset' \/ \E j \in jobs' : Ahead(t, j)'
  BY DEF Ending
<1>1. file.stage[t] = "running"
  OBVIOUS
<1>2. CASE AllReset
  BY <1>2 DEF AllReset, Only, Body, Upscaler, Joiner
<1>3. ASSUME NEW j \in jobs, Ahead(t, j) PROVE Ahead(t, j)'
  <2>1. PICK k \in jobs : k.id = w.job /\ k.kind = s
    BY DEF Fits, JobsFit, LateStages
  <2>2. j.kind = t /\ j.id # w.job
    BY <1>3, <2>1 DEF Ahead, Fits, JobsFit
  <2> QED
    BY <2>2 DEF Ahead
<1> QED
  BY <1>1, <1>2, <1>3 DEF Ending

\* Only the approval's first look begins what a step must drive on.
LEMMA BegunStays ==
  ASSUME Types, NEW p \in Procs, Only(p), approved' = approved \/ In(p, {"approve"}),
         op'[p].req \in {op[p].req, Null}, ~In(p, {"save"}),
         In(p, {"approve"})' => op[p].req = "approve", Begun'
  PROVE  Begun
<1>1. Null # "approve"
  BY NullIs
<1> QED
  BY <1>1 DEF Begun, Only

LEMMA ComesDrives ==
  ASSUME NEW p \in Procs, In(p, Comers)'
  PROVE  Driven'
  BY DEF Driven, Comes

LEMMA DrivenStays ==
  ASSUME Driven, NEW p \in Procs, Only(p), jobs \subseteq jobs', ~Comes(p),
         \A i \in Scenes : S(i)'.status = S(i).status,
         \A s \in LateStages : file.stage[s] = "failed" => file'.stage[s] = "failed",
         file.stage["assembly"] = "done" => file'.stage["assembly"] = "done"
  PROVE  Driven'
<1>1. Ready(file)' = Ready(file) /\ (AllDone(file) => AllDone(file)')
      /\ (Failed(file) => Failed(file)')
  <2>1. \A i \in Scenes : file'.scene[i].status = file.scene[i].status
    BY DEF S
  <2>2. Ready(file)' = Ready(file)
    <3>1. \A i \in Scenes : \A k \in 1..(i - 1) : k \in Scenes
      BY ChainAssumption
    <3> QED
      BY <2>1, <3>1 DEF Ready
  <2> QED
    BY <2>1, <2>2 DEF AllDone, Failed
<1>2. CASE \E q \in Procs : Comes(q)
  BY <1>1, <1>2 DEF Driven, Comes, Only
<1>3. CASE Stands
  BY <1>1, <1>3 DEF Driven, Stands
<1> QED
  BY <1>2, <1>3 DEF Driven

\* Every scene is done and there is nothing to submit: a stage is over or on its way.
LEMMA NoNextDrives ==
  ASSUME AllDone(file)', NoNext(file)', Ending', file' \in FileType'
  PROVE  Driven'
<1>1. \A s \in LateStages : file'.stage[s] \in StageStatuses
  BY DEF FileType, LateStages, StageNames
<1>2. ASSUME NEW s \in LateStages, file'.stage[s] = "running" PROVE Driven'
  <2>1. CASE AllReset'
    BY <2>1 DEF AllReset, Driven, Comes, Comers
  <2>2. CASE \E j \in jobs' : Ahead(s, j)'
    BY <2>2 DEF Ahead, Driven, LateStages
  <2> QED
    BY <1>2, <2>1, <2>2 DEF Ending
<1>3. CASE file'.stage["assembly"] = "draft"
  <2>1. file'.stage["upscale"] \notin {"draft", "done"}
    BY <1>3 DEF NoNext
  <2>2. file'.stage["upscale"] \in {"running", "failed"}
    BY <1>1, <2>1 DEF LateStages, StageStatuses
  <2> QED
    BY <1>2, <2>2 DEF Driven, Stands, LateStages
<1>4. CASE file'.stage["assembly"] # "draft"
  BY <1>1, <1>2, <1>4 DEF Driven, Stands, LateStages, StageStatuses
<1> QED
  BY <1>3, <1>4

\* A body of a stage has a job, which drives the chain on when it is filed.
LEMMA BodyDrives ==
  ASSUME Fits, In(Worker, Upscaler \cup Joiner), jobs \subseteq jobs'
  PROVE  Driven'
<1>1. In(Worker, Body)
  BY DEF Body
<1>2. PICK j \in jobs : j.id = w.job /\ j.kind # "scene"
  BY <1>1 DEF Fits, JobsFit, Upscaler, Joiner
<1> QED
  BY <1>2 DEF Driven

\* What the frames leave to show.
LEMMA GoesStays ==
  ASSUME Types, Goes, NEW p \in Procs, Only(p), approved' = approved \/ In(p, {"approve"}),
         torn' = {}, op'[p].req \in {op[p].req, Null}, ~In(p, {"save"}),
         In(p, {"approve"})' => op[p].req = "approve",
         Living', Ending', \A q \in Procs : OpGoes(q)', Driven => Driven'
  PROVE  Goes'
  BY BegunStays DEF Goes

LEMMA EndedIs ==
  ASSUME Types, NEW p \in Procs, op'[p] = Ended(p)
  PROVE  /\ op'[p].req \in {op[p].req, Null} /\ op'[p].pc \in {"idle", "approve"}
         /\ In(p, {"approve"})' => op[p].req = "approve"
  BY IdleIs

-----------------------------------------------------------------------------
(* advance_project keeps a project going.                                  *)

\* A look, a halt and the like write no scene and end no run.
LEMMA LookingGoes ==
  ASSUME Types, Fits, Goes, NEW p \in Procs, Only(p), jobs' = jobs, torn' = {},
         approved' = approved,
         ~In(p, {"invalidate", "check", "write", "save", "approve"} \cup OnScene),
         ~In(p, {"file", "record", "stageRuns"})',
         op'[p].req \in {op[p].req, Null}, In(p, {"approve"})' => op[p].req = "approve",
         file'.scene = file.scene,
         \A s \in LateStages : file'.stage[s] = "running" => file.stage[s] = "running",
         In(p, {"scenesDone"})' => AllDone(file),
         Driven => Driven'
  PROVE  Goes'
<1>1. \A k \in Scenes : S(k)'.status = S(k).status /\ S(k)'.job = S(k).job
  BY DEF S
<1>2. jobs \subseteq jobs'
  OBVIOUS
<1>3. ~In(p, {"invalidate", "check", "write"} \cup OnScene)
  OBVIOUS
<1>4. Living'
  BY <1>1, <1>2, <1>3, LivingCalm DEF Goes
<1>5. ~In(p, {"file"})' /\ ~In(p, {"invalidate"}) /\ ~In(p, {"save"})
  OBVIOUS
<1>6. Ending'
  BY <1>2, <1>5, EndingStays DEF Goes
<1>7. AllDone(file) => AllDone(file)'
  BY DEF AllDone
<1>8. OpGoes(p)'
  BY <1>7 DEF OpGoes
<1>9. \A q \in Procs : OpGoes(q)'
  BY <1>2, <1>5, <1>7, <1>8, OpsGo DEF Goes
<1> QED
  BY <1>4, <1>5, <1>6, <1>9, GoesStays

LEMMA LookGoes ==
  ASSUME Types, Fits, Goes, NEW p \in Procs, Look(p)
  PROVE  Goes'
<1>1. /\ file' = file /\ jobs' = jobs /\ torn' = {} /\ approved' = approved /\ In(p, {"look"})
      /\ nextId' = nextId
  BY DEF Look, Goes
<1>2. Only(p)
  BY LookDoes
<1>3. CASE op'[p] = Ended(p)
  <2>1. op'[p].req \in {op[p].req, Null} /\ op'[p].pc \in {"idle", "approve"}
        /\ (In(p, {"approve"})' => op[p].req = "approve")
    BY <1>3, EndedIs
  <2>2. jobs \subseteq jobs' /\ ~In(p, {"file"})' /\ ~In(p, {"invalidate"})
    BY <1>1, <2>1
  <2>3. \A s \in LateStages : file'.stage[s] = "running" => file.stage[s] = "running"
    BY <1>1
  <2>4. Ending'
    BY <1>2, <2>2, <2>3, EndingStays DEF Goes
  <2>5. Driven'
    <3>1. CASE Failed(file)
      BY <1>1, <3>1 DEF Driven, Stands
    <3>2. CASE ~Failed(file) /\ ~AllDone(file) /\ Ready(file) = {}
      BY <1>1, <3>2, OneRuns DEF Driven, S, Types
    <3>3. CASE AllDone(file) /\ NoNext(file)
      <4>1. file' \in FileType'
        BY <1>1, SameTypes DEF Types
      <4> QED
        BY <1>1, <2>4, <3>3, <4>1, NoNextDrives
    <3>4. ~(op'[p].pc \in {"claim", "halt", "scenesDone", "submitStage"})
      BY <2>1
    <3> QED
      BY <3>1, <3>2, <3>3, <3>4, LookDoes
  <2> QED
    BY <1>1, <1>2, <2>1, <2>3, <2>5, LookingGoes DEF OnScene
<1>4. CASE op'[p] # Ended(p)
  <2>1. /\ Stays(p) /\ ~op'[p].stale
        /\ \/ op'[p].pc = "claim" /\ op'[p].i \in Ready(file)
           \/ op'[p].pc = "halt" /\ Failed(file)
           \/ op'[p].pc = "scenesDone" /\ AllDone(file)
           \/ op'[p].pc = "submitStage"
    BY <1>4, LookDoes
  <2>2. Driven'
    BY <1>1, <2>1 DEF Driven, Comes, Comers, Stands
  <2> QED
    BY <1>1, <1>2, <2>1, <2>2, LookingGoes DEF OnScene, Stays
<1> QED
  BY <1>3, <1>4

\* Somebody at a place from which nothing is expected leaves it.
LEMMA HaltGoes ==
  ASSUME Types, Fits, Goes, NEW p \in Procs, Halt(p) \/ Unstage(p), blame' = {}
  PROVE  Goes'
<1>1. /\ jobs' = jobs /\ approved' = approved /\ In(p, {"halt", "unstage"})
      /\ torn' = {}
  BY ScarIs DEF Halt, Unstage, Goes
<1>2. /\ Only(p) /\ (op'[p] = Ended(p) \/ op'[p] = Idle) /\ file'.scene = file.scene
      /\ \A s \in LateStages : file'.stage[s] = file.stage[s]
  BY HaltDoes, UnstageDoes
<1>3. op'[p].req \in {op[p].req, Null} /\ op'[p].pc \in {"idle", "approve"}
      /\ (In(p, {"approve"})' => op[p].req = "approve")
  BY <1>2, EndedIs DEF Idle
<1>4. ~Comes(p) /\ \A i \in Scenes : S(i)'.status = S(i).status
  BY <1>1, <1>2 DEF Comes, Comers, S
<1>5. Driven => Driven'
  BY <1>1, <1>2, <1>4, DrivenStays DEF LateStages
<1> QED
  BY <1>1, <1>2, <1>3, <1>5, LookingGoes DEF OnScene

LEMMA ScenesDoneGoes ==
  ASSUME Types, Fits, Goes, NEW p \in Procs, ScenesDone(p), blame' = {}
  PROVE  Goes'
<1>1. /\ jobs' = jobs /\ approved' = approved /\ In(p, {"scenesDone"}) /\ nextId' = nextId
      /\ ~op[p].stale /\ torn' = {}
  BY ScarIs DEF ScenesDone, Goes
<1>2. /\ Only(p) /\ file' \in FileType' /\ file'.scene = file.scene
      /\ \A s \in LateStages : file'.stage[s] = file.stage[s]
      /\ \/ op'[p] = Ended(p) /\ NoNext(file')
         \/ op'[p].pc = "submitStage" /\ Stays(p)
  BY ScenesDoneDoes
<1>3. AllDone(file) /\ AllDone(file)'
  BY <1>1, <1>2 DEF Goes, OpGoes, AllDone
<1>4. /\ op'[p].req \in {op[p].req, Null} /\ op'[p].pc \in {"idle", "approve", "submitStage"}
      /\ (In(p, {"approve"})' => op[p].req = "approve")
  BY <1>2, EndedIs DEF Stays
<1>5. Ending'
  BY <1>1, <1>2, <1>4, EndingStays DEF Goes
<1>6. Driven'
  <2>1. CASE NoNext(file')
    BY <1>2, <1>3, <1>5, <2>1, NoNextDrives
  <2>2. CASE op'[p].pc = "submitStage"
    BY <2>2, ComesDrives DEF Comers
  <2> QED
    BY <1>2, <2>1, <2>2
<1> QED
  BY <1>1, <1>2, <1>4, <1>6, LookingGoes DEF OnScene

LEMMA ClaimGoes ==
  ASSUME Types, Fits, Goes, NEW p \in Procs, Claim(p)
  PROVE  Goes'
<1>1. /\ jobs' = jobs /\ approved' = approved /\ In(p, {"claim"}) /\ nextId' = nextId /\ torn' = {}
      /\ op[p].i \in Scenes
  BY DEF Claim, Goes, Fits, OpFits
<1>2. CASE op'[p] = Ended(p) /\ op[p].i \notin Ready(file) /\ file' = file
  <2>1. /\ op'[p].req \in {op[p].req, Null} /\ op'[p].pc \in {"idle", "approve"}
        /\ (In(p, {"approve"})' => op[p].req = "approve")
    BY <1>2, EndedIs
  <2>2. Only(p) /\ ~Comes(p) /\ \A i \in Scenes : S(i)'.status = S(i).status
    BY <1>1, <1>2, ClaimDoes DEF Comes, Comers, S
  <2>3. Driven => Driven'
    BY <1>1, <1>2, <2>2, DrivenStays
  <2> QED
    BY <1>1, <1>2, <2>1, <2>2, <2>3, LookingGoes DEF OnScene
<1>3. CASE op[p].i \in Ready(file)
  <2>0. PICK i \in Scenes : i = op[p].i
    BY <1>1
  <2>1. /\ Only(p) /\ file' = SceneSet(file, i, "running", Claiming)
        /\ op'[p].pc \in {"stage", "submit"} /\ op'[p].i = i /\ Stays(p) /\ ~op'[p].stale
    BY <1>1, <1>3, <2>0, ClaimDoes
  <2>2. /\ \A k \in Scenes \ {i} : S(k)' = S(k)
        /\ S(i)'.status = "running" /\ file'.stage = file.stage
    BY <2>1, ClaimedIs DEF Types, S, SceneSet
  <2>3. ~AllDone(file)
    BY <1>3 DEF AllDone, Ready
  <2>4. Holds(p, i)' /\ Alive(i)'
    BY <2>1 DEF Holds, Alive, OnScene
  <2>5. Driven'
    BY <2>0, <2>2 DEF Driven
  <2>6. Living'
    <3>1. \A k \in Scenes : ~Holds(p, k) /\ ~(p = Worker /\ Writes(k))
      BY <1>1 DEF Holds, Writes, OnScene
    <3>2. \A k \in Scenes \ {i} : Leaves(p, k)
      BY <2>2, <3>1 DEF Leaves
    <3> QED
      BY <1>1, <2>1, <2>4, <3>2, LivingStays DEF Goes
  <2>7. Ending'
    BY <1>1, <2>1, <2>2, EndingStays DEF Goes
  <2>8. \A q \in Procs : OpGoes(q)'
    BY <1>1, <2>1, <2>3, OpsGo, OpGoesElsewhere DEF Goes
  <2> QED
    BY <1>1, <2>1, <2>5, <2>6, <2>7, <2>8, GoesStays DEF Stays
<1> QED
  BY <1>1, <1>2, <1>3, ClaimDoes

\* The scene stays its holder's until it names the job.
LEMMA HolderGoes ==
  ASSUME Types, Fits, Goes, NEW p \in Procs, StageScenes(p) \/ Submit(p)
  PROVE  Goes'
<1>1. /\ approved' = approved /\ In(p, {"stage", "submit"}) /\ torn' = {} /\ file'.scene = file.scene
      /\ op[p].i \in Scenes
      /\ In(p, {"submit"}) => op[p].proj \in [Scenes -> OptTakes]
      /\ Submit(p) => In(p, {"submit"}) /\ file' = file
      /\ StageScenes(p) => jobs' = jobs
  <2>1. file'.scene = file.scene
    BY StageScenesDoes DEF Submit
  <2> QED
    BY <2>1 DEF StageScenes, Submit, Goes, Fits, OpFits, OnScene
<1>2. /\ Only(p) /\ op'[p].i = op[p].i /\ op'[p].stale = op[p].stale /\ Stays(p)
      /\ op'[p].pc \in {"submit", "record", "rollback"}
      /\ jobs \subseteq jobs'
      /\ In(p, {"record"})' => \E j \in jobs' :
           j.kind = "scene" /\ j.scene = op[p].i /\ j.id = op'[p].proj /\ j.state = "pending"
  <2>1. CASE StageScenes(p)
    BY <1>1, <2>1, StageScenesDoes
  <2>2. CASE Submit(p)
    <3>0. PICK i \in Scenes : i = op[p].i
      BY <1>1
    <3> DEFINE from == IF Chained(i) THEN op[p].proj[i - 1] ELSE Null
               j == NewJob("scene", i, from)
    <3>1. /\ Only(p) /\ Stays(p) /\ op'[p].i = i /\ op'[p].stale = op[p].stale
          /\ \/ /\ op'[p].pc = "record" /\ op'[p].proj = nextId /\ Post(j) /\ from \in OptTakes
             \/ op'[p].pc = "rollback" /\ jobs' = jobs
      BY <1>1, <2>2, <3>0, SubmitDoes
    <3>2. CASE op'[p].pc = "record" /\ op'[p].proj = nextId /\ Post(j) /\ from \in OptTakes
      <4>1. PICK g \in OptTakes : g = from
        BY <3>2
      <4>2. i \in Scenes \cup {0} /\ "scene" \in {"scene", "upscale", "assembly"}
            /\ Post(NewJob("scene", i, g))
        BY <3>2, <4>1
      <4> HIDE DEF from
      <4>3. LET k == NewJob("scene", i, g) IN
            jobs' = jobs \cup {k} /\ k.id = nextId /\ k.kind = "scene" /\ k.scene = i
            /\ k.state = "pending"
        BY <4>2, PostDoes
      <4> QED
        BY <3>0, <3>1, <3>2, <4>3
    <3> QED
      BY <3>0, <3>1, <3>2
  <2> QED
    BY <2>1, <2>2
<1>3. \A s \in LateStages : file'.stage[s] = file.stage[s]
  BY <1>1, StageScenesDoes
<1>4. \A k \in Scenes : Leaves(p, k)
  BY <1>1, <1>2 DEF S, Holds, OnScene, Writes, Leaves
<1>5. Living'
  BY <1>1, <1>2, <1>4, LivingStays DEF Goes
<1>6. Ending'
  BY <1>1, <1>2, <1>3, EndingStays DEF Goes
<1>7. OpGoes(p)'
  BY <1>2 DEF OpGoes, Waits
<1>8. AllDone(file) => AllDone(file)'
  BY <1>1 DEF AllDone
<1>9. \A q \in Procs : OpGoes(q)'
  BY <1>1, <1>2, <1>7, <1>8, OpsGo DEF Goes
<1>10. Driven => Driven'
  BY <1>1, <1>2, <1>3, <1>4, DrivenStays DEF Comes, Comers, LateStages, Leaves
<1> QED
  BY <1>1, <1>2, <1>5, <1>6, <1>9, <1>10, GoesStays DEF Stays

\* Who writes a scene nobody wrote over finds it running.
LEMMA RecordGoes ==
  ASSUME Types, Fits, Shot, Goes, NEW p \in Procs, Record(p), blame' = {}
  PROVE  Goes'
<1>0. PICK i \in Scenes : i = op[p].i
  BY DEF Record, Fits, OpFits, OnScene
<1>1. /\ jobs' = jobs /\ approved' = approved /\ In(p, {"record"}) /\ ~op[p].stale /\ torn' = {}
      /\ i \in Scenes /\ op[p].proj \in Takes
  BY <1>0, ScarIs DEF Record, Goes, Fits, OpFits, OnScene
<1>2. S(i).status = "running"
  BY <1>0, <1>1 DEF Shot, ShotOp, Untorn, Goes, OnScene
<1>3. Only(p) /\ op'[p] = Ended(p) /\ file' = SceneSet(file, i, "running", op[p].proj)
  BY <1>0, <1>1, RecordDoes
<1>4. /\ \A k \in Scenes \ {i} : S(k)' = S(k)
      /\ S(i)'.status = "running" /\ S(i)'.job = op[p].proj /\ file'.stage = file.stage
  BY <1>0, <1>1, <1>3, SceneSetIs DEF Types, SceneStatuses, S
<1>5. /\ op'[p].req \in {op[p].req, Null} /\ op'[p].pc \in {"idle", "approve"}
      /\ (In(p, {"approve"})' => op[p].req = "approve")
  BY <1>3, EndedIs
<1>6. Alive(i)'
  <2>1. Resetting(i) \/ Waits("scene", i, op[p].proj)
    BY <1>0, <1>1 DEF Goes, OpGoes
  <2>2. Resetting(i) => Resetting(i)'
    BY <1>0, <1>1, <1>3 DEF Resetting, Only
  <2>3. Waits("scene", i, op[p].proj) => Queued(i, S(i).job)'
    BY <1>0, <1>1, <1>4 DEF Waits, Queued
  <2> QED
    BY <2>1, <2>2, <2>3 DEF Alive
<1>7. Living'
  <2>1. \A k \in Scenes \ {i} : Leaves(p, k)
    BY <1>0, <1>1, <1>4 DEF Holds, Writes, Leaves
  <2> QED
    BY <1>0, <1>1, <1>3, <1>6, <2>1, LivingStays DEF Goes
<1>8. Ending'
  BY <1>0, <1>1, <1>3, <1>4, <1>5, EndingStays DEF Goes
<1>9. \A q \in Procs : OpGoes(q)'
  <2>1. ~AllDone(file)
    BY <1>0, <1>1, <1>2 DEF AllDone, S
  <2> QED
    BY <1>0, <1>1, <1>3, <1>5, <2>1, OpsGo, OpGoesElsewhere DEF Goes
<1>10. Driven'
  BY <1>0, <1>1, <1>4 DEF Driven
<1> QED
  BY <1>0, <1>1, <1>3, <1>5, <1>7, <1>8, <1>9, <1>10, GoesStays

LEMMA RollbackGoes ==
  ASSUME Types, Fits, Shot, Goes, NEW p \in Procs, Rollback(p), blame' = {}
  PROVE  Goes'
<1>0. PICK i \in Scenes : i = op[p].i
  BY DEF Rollback, Fits, OpFits, OnScene
<1>1. /\ jobs' = jobs /\ approved' = approved /\ In(p, {"rollback"})
  BY DEF Rollback, Fits, OpFits, OnScene
<1>2. ~op[p].stale /\ torn' = {} /\ op[p].fails
  BY DEF Rollback, Goes
<1>3. S(i).status = "running"
  BY <1>0, <1>1, <1>2 DEF Shot, ShotOp, Untorn, Goes, OnScene
<1>4. /\ Only(p) /\ op'[p].pc = "halt" /\ Stays(p) /\ file' = SceneSet(file, i, "failed", Null)
  BY <1>0, <1>1, <1>2, RollbackDoes
<1>5. /\ \A k \in Scenes \ {i} : S(k)' = S(k)
      /\ S(i)'.status = "failed" /\ file'.stage = file.stage
  BY <1>0, <1>1, <1>4, SceneSetIs DEF Types, SceneStatuses, S
<1>6. Living'
  <2>1. \A k \in Scenes \ {i} : Leaves(p, k)
    BY <1>0, <1>1, <1>5 DEF Holds, Writes, Leaves
  <2> QED
    BY <1>1, <1>4, <1>5, <2>1, LivingStays DEF Goes
<1>7. Ending'
  BY <1>0, <1>1, <1>4, <1>5, EndingStays DEF Goes
<1>8. \A q \in Procs : OpGoes(q)'
  <2>1. ~AllDone(file)
    BY <1>0, <1>1, <1>3 DEF AllDone, S
  <2> QED
    BY <1>0, <1>1, <1>4, <2>1, OpsGo, OpGoesElsewhere DEF Goes
<1>9. Driven'
  BY <1>0, <1>1, <1>5 DEF Driven, Stands, Failed, S
<1> QED
  BY <1>0, <1>1, <1>2, <1>4, <1>6, <1>7, <1>8, <1>9, GoesStays DEF Stays

LEMMA SubmitStageGoes ==
  ASSUME Types, Fits, Goes, NEW p \in Procs, SubmitStage(p), blame' = {}
  PROVE  Goes'
<1>1. /\ file' = file /\ approved' = approved /\ In(p, {"submitStage"}) /\ torn' = {}
      /\ op[p].kind \in LateStages
  BY DEF SubmitStage, Goes, Fits, OpFits, OnStage
<1>2. /\ Only(p) /\ Stays(p) /\ op'[p].stale = op[p].stale /\ op'[p].kind = op[p].kind
      /\ \/ op'[p].pc = "stageRuns" /\ op'[p].proj = nextId /\ Post(NewJob(op[p].kind, 0, Null))
         \/ op'[p].pc = "stageFails" /\ jobs' = jobs
  BY <1>1, SubmitStageDoes
<1>3. /\ jobs \subseteq jobs' /\ Driven'
      /\ In(p, {"stageRuns"})' => Waits(op[p].kind, 0, op[p].proj)'
  <2>1. CASE op'[p].pc = "stageFails" /\ jobs' = jobs
    BY <2>1, ComesDrives DEF Comers
  <2>2. CASE op'[p].pc = "stageRuns" /\ op'[p].proj = nextId /\ Post(NewJob(op[p].kind, 0, Null))
    <3>1. PICK kind \in {"scene", "upscale", "assembly"} : kind = op[p].kind /\ kind # "scene"
      BY <1>1 DEF LateStages
    <3> DEFINE j == NewJob(kind, 0, Null)
    <3>2. /\ jobs' = jobs \cup {j} /\ j.id = nextId /\ j.kind = kind /\ j.scene = 0
          /\ j.state = "pending"
      BY <2>2, <3>1 DEF Post, NewJob
    <3> HIDE DEF j
    <3> QED
      BY <1>2, <2>2, <3>1, <3>2 DEF Driven, Waits
  <2> QED
    BY <1>2, <2>1, <2>2
<1>4. Living'
  BY <1>1, <1>2, <1>3, LivingCalm DEF Goes, OnScene, S
<1>5. Ending'
  BY <1>1, <1>2, <1>3, EndingStays DEF Goes
<1>6. OpGoes(p)'
  BY <1>2, <1>3 DEF OpGoes
<1>7. \A q \in Procs : OpGoes(q)'
  BY <1>1, <1>2, <1>3, <1>6, OpsGo DEF Goes
<1> QED
  BY <1>1, <1>2, <1>3, <1>4, <1>5, <1>7, GoesStays DEF Stays

\* The stage that is said to run has the job that was sent for it.
LEMMA StageRunsGoes ==
  ASSUME Types, Fits, Goes, NEW p \in Procs, StageRuns(p), blame' = {}
  PROVE  Goes'
<1>1. /\ jobs' = jobs /\ approved' = approved /\ In(p, {"stageRuns"}) /\ torn' = {} /\ ~op[p].stale
      /\ op[p].kind \in LateStages
  BY ScarIs DEF StageRuns, Goes, Fits, OpFits, OnStage
<1>2. /\ Only(p) /\ op'[p] = Ended(p) /\ file'.scene = file.scene
      /\ \A s \in LateStages \ {op[p].kind} : file'.stage[s] = file.stage[s]
  BY <1>1, StageRunsDoes
<1>3. /\ op'[p].req \in {op[p].req, Null} /\ op'[p].pc \in {"idle", "approve"}
      /\ (In(p, {"approve"})' => op[p].req = "approve")
  BY <1>2, EndedIs
<1>4. AllReset => AllReset'
  BY <1>1, <1>2 DEF AllReset, Only
<1>5. AllReset \/ Waits(op[p].kind, 0, op[p].proj)
  BY <1>1 DEF Goes, OpGoes
<1>6. Driven'
  <2>1. CASE AllReset
    BY <1>4, <2>1 DEF AllReset, Driven, Comes, Comers
  <2>2. CASE Waits(op[p].kind, 0, op[p].proj)
    BY <1>1, <2>2 DEF Waits, Driven, LateStages
  <2> QED
    BY <1>5, <2>1, <2>2
<1>7. \A s, j : Ahead(s, j) => Ahead(s, j)'
  BY <1>1, <1>2, <1>3, WorkerIs DEF Ahead, Only, w
<1>8. Ending'
  <2>1. ASSUME Waits(op[p].kind, 0, op[p].proj) PROVE \E j \in jobs : Ahead(op[p].kind, j)
    <3>1. PICK j \in jobs : j.kind = op[p].kind /\ j.state = "pending"
      BY <2>1 DEF Waits
    <3>2. In(Worker, {"file"}) => w.job # j.id
      <4>1. ASSUME In(Worker, {"file"}) PROVE \E k \in jobs : k.id = w.job /\ k.state = "running"
        BY <4>1 DEF Fits, JobsFit, Body
      <4> QED
        BY <3>1, <4>1 DEF Fits, JobsFit
    <3> QED
      BY <3>1, <3>2 DEF Ahead
  <2>2. ASSUME NEW s \in LateStages, file'.stage[s] = "running"
        PROVE  AllReset \/ \E j \in jobs : Ahead(s, j)
    <3>1. CASE s = op[p].kind
      BY <1>5, <2>1, <3>1
    <3>2. CASE s # op[p].kind
      BY <1>2, <2>2, <3>2 DEF Goes, Ending
    <3> QED
      BY <3>1, <3>2
  <2> QED
    BY <1>1, <1>4, <1>7, <2>2 DEF Ending
<1>9. Living'
  BY <1>1, <1>2, LivingCalm DEF Goes, OnScene, S
<1>10. \A q \in Procs : OpGoes(q)'
  BY <1>1, <1>2, <1>3, OpsGo, OpGoesElsewhere DEF Goes, AllDone
<1> QED
  BY <1>1, <1>2, <1>3, <1>6, <1>8, <1>9, <1>10, GoesStays

LEMMA StageFailsGoes ==
  ASSUME Types, Fits, Goes, NEW p \in Procs, StageFails(p), blame' = {}
  PROVE  Goes'
<1>1. /\ jobs' = jobs /\ approved' = approved /\ In(p, {"stageFails"}) /\ torn' = {}
      /\ op[p].kind \in LateStages
  BY ScarIs DEF StageFails, Goes, Fits, OpFits, OnStage
<1>2. /\ Only(p) /\ op'[p] = Idle /\ file'.scene = file.scene
      /\ file'.stage[op[p].kind] = "failed"
      /\ \A s \in LateStages \ {op[p].kind} : file'.stage[s] = file.stage[s]
  BY <1>1, StageFailsDoes
<1>3. op'[p].pc = "idle" /\ op'[p].req = Null
  BY <1>2 DEF Idle
<1>4. Driven'
  BY <1>1, <1>2 DEF Driven, Stands
<1>5. \A s \in LateStages : file'.stage[s] = "running" => file.stage[s] = "running"
  BY <1>2
<1> QED
  BY <1>1, <1>2, <1>3, <1>4, <1>5, LookingGoes DEF OnScene

LEMMA AdvanceGoes ==
  ASSUME Types, Fits, Shot, Goes, NEW p \in Procs, AdvanceStep(p), blame' = {}
  PROVE  Goes'
  BY LookGoes, HaltGoes, ScenesDoneGoes, ClaimGoes, HolderGoes, RecordGoes, RollbackGoes,
     SubmitStageGoes, StageRunsGoes, StageFailsGoes DEF AdvanceStep

-----------------------------------------------------------------------------
(* The pages' buttons keep a project going.                                *)

\* Somebody the others wait for nothing from goes to look at the project again.
LEMMA TurnGoes ==
  ASSUME Types, Fits, Goes, NEW p \in Procs, Only(p), jobs' = jobs, torn' = {},
         approved' = approved, ~In(p, {"invalidate", "check", "write", "save", "approve"} \cup OnScene),
         op'[p].pc \in {"look", "draft", "route", "rebuild"}, op'[p].req \in {op[p].req, Null},
         file'.scene = file.scene,
         \A s \in LateStages : file'.stage[s] = "running" => file.stage[s] = "running"
  PROVE  Goes'
<1>1. Driven'
  BY ComesDrives DEF Comers
<1> QED
  BY <1>1, LookingGoes

\* A request begins or ends an approval.
LEMMA ApprovalGoes ==
  ASSUME Types, Fits, Goes, NEW p \in Pages, Approve(p) \/ Save(p) \/ Approved(p), blame' = {}
  PROVE  Goes'
<1>0. p \in Procs /\ op[p].kind = op[p].kind
  OBVIOUS
<1>1. /\ jobs' = jobs /\ In(p, {"idle", "save", "approve"})
      /\ Approve(p) \/ Save(p) => approved' = approved
      /\ Approved(p) => In(p, {"approve"})
      /\ Save(p) => In(p, {"save"})
  BY DEF Approve, Save, Approved
<1>2. Only(p) /\ file' = file /\ torn' = {}
  <2>1. Only(p)
    BY <1>0, ApproveDoes, SaveDoes, ApprovedDoes
  <2>2. CASE Save(p)
    BY <1>0, <2>2, SaveDoes DEF Goes
  <2>3. CASE Approve(p) \/ Approved(p)
    BY <2>1, <2>3 DEF Approve, Approved, Goes
  <2> QED
    BY <2>1, <2>2, <2>3
<1>3. op'[p].pc \in {"save", "look", "idle"}
  BY <1>0, ApproveDoes, SaveDoes, ApprovedDoes DEF Idle
<1>4. Living'
  BY <1>0, <1>1, <1>2, LivingCalm DEF Goes, OnScene, S
<1>5. Ending'
  BY <1>0, <1>1, <1>2, <1>3, EndingStays DEF Goes
<1>6. \A q \in Procs : OpGoes(q)'
  BY <1>0, <1>1, <1>2, <1>3, OpsGo, OpGoesElsewhere DEF Goes
<1>7. Begun' => Driven'
  <2>1. CASE Approve(p) \/ Save(p)
    <3>1. In(p, Comers)'
      BY <1>0, <2>1, ApproveDoes, SaveDoes DEF Comers
    <3> QED
      BY <1>0, <3>1, ComesDrives
  <2>2. CASE Approved(p)
    <3>1. Begun
      BY <1>0, <1>1, <2>2 DEF Begun
    <3>2. ~Comes(p)
      BY <1>1, <2>2 DEF Comes, Comers
    <3> QED
      BY <1>0, <1>1, <1>2, <3>1, <3>2, DrivenStays DEF Goes, S
  <2> QED
    BY <2>1, <2>2
<1> QED
  BY <1>2, <1>4, <1>5, <1>6, <1>7 DEF Goes

\* A reset, or a change of route, makes stale what it has to and nothing else.
LEMMA UpsetSpares ==
  ASSUME NEW p \in Procs, NEW reset, Upset(p, reset), NEW q \in Procs \ {p},
         Types, op[q].i \notin reset \cup {0}
  PROVE  op'[q].stale = op[q].stale
<1>1. op[q] \in OpType
  BY DEF Types
<1>2. op'[q] = [op[q] EXCEPT !.stale = @ \/ /\ op[q].pc \in Carrying
                                            /\ op[q].i \in reset \cup {0}]
  BY DEF Upset
<1>3. op[q].stale \in BOOLEAN
  BY <1>1 DEF OpType
<1> HIDE DEF Procs, In
<1>4. op'[q] = [op[q] EXCEPT !.stale = op[q].stale]
  BY <1>2, <1>3
<1> QED
  BY <1>1, <1>4 DEF OpType

LEMMA UpsetGoes ==
  ASSUME Types, Fits, Goes, NEW p \in Pages, NEW reset \in SUBSET Scenes, Upset(p, reset),
         nextId' = nextId, jobs' = jobs, torn' = {},
         \A k \in reset : S(k)'.status # "running",
         \A k \in Scenes \ reset : S(k)' = S(k),
         In(p, {"invalidate", "rebuild"}),
         In(p, {"invalidate"}) => /\ reset = Tail(op[p].i)
                                  /\ \A s \in LateStages : file'.stage[s] = "draft",
         \A s \in LateStages : file'.stage[s] = "running" => file.stage[s] = "running"
  PROVE  Goes'
<1>0. p \in Procs /\ p # Worker
  BY ChainAssumption
<1>1. /\ op'[p].pc = "look"
      /\ \A q \in Procs \ {p} :
           /\ op'[q].pc = op[q].pc /\ op'[q].kind = op[q].kind
           /\ op'[q].i = op[q].i /\ op'[q].job = op[q].job /\ op'[q].proj = op[q].proj
           /\ op[q].stale => op'[q].stale
           /\ op[q].pc \in Carrying /\ op[q].i \in reset \cup {0} => op'[q].stale
  BY <1>0, UpsetDoes
<1>2. \A q \in Procs \ {p} : op[q].i \notin reset \cup {0} => op'[q].stale = op[q].stale
  BY <1>0, UpsetSpares
<1>3. \A k \in Scenes \ reset : Resetting(k) => Resetting(k)'
  BY <1>1 DEF Resetting
<1>4. ASSUME NEW k \in Scenes, S(k)'.status = "running" PROVE Alive(k)'
  <2>1. k \in Scenes \ reset /\ S(k)' = S(k) /\ Alive(k)
    BY <1>4 DEF Goes, Living
  <2>2. ASSUME NEW q \in Procs, Holds(q, k) PROVE Holds(q, k)'
    <3>1. q # p /\ op[q].i = k /\ k \notin reset \cup {0}
      BY <2>1, <2>2, ChainAssumption DEF Holds, OnScene
    <3> QED
      BY <1>1, <1>2, <2>2, <3>1 DEF Holds
  <2>3. Queued(k, S(k).job) => Queued(k, S(k).job)'
    BY <2>1 DEF Queued
  <2>4. Writes(k) => Writes(k)'
    BY <1>0, <1>1, <2>1, WorkerIs DEF Writes, w
  <2> QED
    BY <1>3, <2>1, <2>2, <2>3, <2>4 DEF Alive
<1>5. Ending'
  <2>1. CASE In(p, {"invalidate"})
    BY <2>1 DEF Ending
  <2>2. CASE ~In(p, {"invalidate"})
    <3>1. AllReset => AllReset'
      BY <1>1, <2>2 DEF AllReset
    <3>2. \A s, j : Ahead(s, j) => Ahead(s, j)'
      BY <1>0, <1>1, WorkerIs DEF Ahead, w
    <3> QED
      BY <3>1, <3>2 DEF Goes, Ending
  <2> QED
    BY <2>1, <2>2
<1>6. ASSUME NEW q \in Procs PROVE OpGoes(q)'
  <2> SUFFICES ASSUME q # p, ~op'[q].stale, In(q, {"record", "stageRuns", "scenesDone"})
               PROVE  OpGoes(q)'
    BY <1>1 DEF OpGoes
  <2>1. ~op[q].stale /\ op[q].i \notin reset \cup {0} /\ OpFits(q)
    BY <1>1 DEF Carrying, Fits
  <2>2. In(q, {"record"}) /\ op[q].i \in Scenes \ reset
    BY <2>1 DEF OpFits, OnStage, OnScene
  <2>3. Resetting(op[q].i) \/ Waits("scene", op[q].i, op[q].proj)
    BY <2>1, <2>2 DEF Goes, OpGoes
  <2> QED
    BY <1>1, <1>3, <2>2, <2>3 DEF OpGoes, Waits, Resetting
<1>7. Driven'
  BY <1>0, <1>1, ComesDrives DEF Comers
<1> QED
  BY <1>4, <1>5, <1>6, <1>7 DEF Goes, Living

\* What is taken off the queue belongs to scenes that are reset next.
LEMMA RetryGoes ==
  ASSUME Types, Fits, Goes, blame = {}, NEW p \in Pages, NEW i \in Scenes, Retry(p, i), blame' = {}
  PROVE  Goes'
<1>1. p \in Procs /\ file' = file /\ torn' = {} /\ In(p, {"idle"})
  BY DEF Retry, Goes
<1>2. /\ Only(p) /\ op'[p].pc = "invalidate" /\ op'[p].i = i
      /\ \A k \in jobs : k.state # "pending" \/ k.kind = "assembly" \/ (k.kind = "scene" /\ k.scene < i) =>
              \E j \in jobs' :
                /\ j.id = k.id /\ j.kind = k.kind /\ j.scene = k.scene /\ j.from = k.from
                /\ j.state = k.state
      /\ \A k \in jobs : k.kind = "scene" /\ k.scene >= i /\ k.state = "pending" => k.scene \in Tail(i)
  BY <1>1, RetryDoes
<1>3. AllReset' /\ \A k \in Tail(i) : Resetting(k)'
  BY <1>1, <1>2 DEF AllReset, Resetting
<1>4. \A k : Resetting(k) => Resetting(k)'
  BY <1>1, <1>2 DEF Resetting, Only
<1>5. ASSUME NEW k \in jobs, k.kind = "scene"
      PROVE  \/ Resetting(k.scene)'
             \/ \E j \in jobs' : /\ j.id = k.id /\ j.kind = k.kind /\ j.scene = k.scene
                                 /\ j.state = k.state
  <2>1. k.scene \in Nat
    BY <1>5, ChainAssumption DEF Fits, JobsFit
  <2>2. CASE k.state # "pending" \/ k.scene < i
    BY <1>2, <1>5, <2>2
  <2>3. CASE k.state = "pending" /\ ~(k.scene < i)
    BY <1>2, <1>3, <1>5, <2>1, <2>3, ChainAssumption
  <2> QED
    BY <2>2, <2>3
<1>6. ASSUME NEW k \in Scenes, S(k)'.status = "running" PROVE Alive(k)'
  <2>1. Alive(k) /\ S(k)' = S(k)
    BY <1>1, <1>6 DEF Goes, Living, S
  <2>2. \A q \in Procs : Holds(q, k) => Holds(q, k)'
    BY <1>1, <1>2 DEF Holds, OnScene, Only
  <2>3. Queued(k, S(k).job) => Queued(k, S(k).job)' \/ Resetting(k)'
    BY <1>5, <2>1 DEF Queued
  <2>4. Writes(k) => Writes(k)'
    BY <1>1, <1>2, <2>1, WorkerIs DEF Writes, w, Only
  <2> QED
    BY <1>4, <2>1, <2>2, <2>3, <2>4 DEF Alive
<1>7. Ending'
  BY <1>3 DEF Ending
<1>8. ASSUME NEW q \in Procs PROVE OpGoes(q)'
  <2> SUFFICES ASSUME q # p, ~op'[q].stale, In(q, {"record", "stageRuns", "scenesDone"})
               PROVE  OpGoes(q)'
    BY <1>2 DEF OpGoes, Only
  <2>1. op'[q] = op[q]
    BY <1>2 DEF Only
  <2>2. CASE In(q, {"record"})
    <3>1. Resetting(op[q].i) \/ Waits("scene", op[q].i, op[q].proj)
      BY <2>1, <2>2 DEF Goes, OpGoes
    <3>2. Waits("scene", op[q].i, op[q].proj) =>
            Resetting(op[q].i)' \/ Waits("scene", op[q].i, op[q].proj)'
      BY <1>5, <2>1 DEF Waits
    <3> QED
      BY <1>4, <2>1, <2>2, <3>1, <3>2 DEF OpGoes
  <2>3. CASE In(q, {"stageRuns"})
    BY <1>3, <2>1, <2>3 DEF OpGoes
  <2>4. CASE In(q, {"scenesDone"})
    BY <1>1, <2>1, <2>4 DEF Goes, OpGoes
  <2> QED
    BY <2>2, <2>3, <2>4
<1>9. Driven'
  BY <1>1, <1>2, ComesDrives DEF Comers
<1> QED
  BY <1>1, <1>6, <1>7, <1>8, <1>9 DEF Goes, Living

\* A cancel of the queue page that is no reason of its own has told the project.
LEMMA CancelGoes ==
  ASSUME Types, Fits, Goes, NEW p \in Pages, NEW j \in jobs, Cancel(p, j), blame' = {}
  PROVE  Goes'
<1>1. p \in Procs /\ torn' = {} /\ approved' = approved
  BY DEF Cancel, Goes
<1>2. /\ op' = op /\ jobs' = jobs \ {j} /\ j.kind = "upscale" /\ file'.scene = file.scene
      /\ file'.stage["assembly"] = file.stage["assembly"] /\ file'.stage["upscale"] = "failed"
  BY <1>1, CancelDoes
<1>3. \A q \in Procs : op[q].pc \in {"record", "stageRuns"} => op[q].proj # j.id
  BY <1>2 DEF Cancel, Unrecorded
<1>4. \A k : Resetting(k) => Resetting(k)'
  BY <1>2 DEF Resetting
<1>5. AllReset => AllReset'
  BY <1>2 DEF AllReset
<1>6. ASSUME NEW k \in Scenes, S(k)'.status = "running" PROVE Alive(k)'
  <2>1. Alive(k) /\ S(k)' = S(k)
    BY <1>2, <1>6 DEF Goes, Living, S
  <2>2. Queued(k, S(k).job) => Queued(k, S(k).job)'
    BY <1>2, <2>1 DEF Queued
  <2>3. (Writes(k) => Writes(k)') /\ \A q \in Procs : Holds(q, k) => Holds(q, k)'
    BY <1>2, <2>1 DEF Writes, w, Holds
  <2> QED
    BY <1>4, <2>1, <2>2, <2>3 DEF Alive
<1>7. Ending'
  <2>1. \A k : Ahead("assembly", k) => Ahead("assembly", k)' /\ k # j
    BY <1>2 DEF Ahead, w
  <2> QED
    BY <1>2, <1>5, <2>1 DEF Goes, Ending, LateStages
<1>8. ASSUME NEW q \in Procs PROVE OpGoes(q)'
  <2>1. op'[q] = op[q] /\ (AllDone(file) => AllDone(file)')
    BY <1>2 DEF AllDone
  <2>2. \A kind, i : op[q].pc \in {"record", "stageRuns"} /\ Waits(kind, i, op[q].proj) =>
          \E k \in jobs' : k.kind = kind /\ k.scene = i /\ k.id = op[q].proj /\ k.state = "pending"
    BY <1>2, <1>3 DEF Waits
  <2>3. CASE op[q].pc \in {"record", "stageRuns"}
    BY <1>4, <1>5, <2>1, <2>2, <2>3 DEF Goes, OpGoes, Waits
  <2>4. CASE op[q].pc \notin {"record", "stageRuns"}
    BY <2>1, <2>4 DEF Goes, OpGoes
  <2> QED
    BY <2>3, <2>4
<1>9. Driven'
  BY <1>2 DEF Driven, Stands, LateStages
<1> QED
  BY <1>1, <1>6, <1>7, <1>8, <1>9 DEF Goes, Living

LEMMA PageGoes ==
  ASSUME Types, Fits, Goes, blame = {}, NEW p \in Pages, PageStep(p), blame' = {}
  PROVE  Goes'
<1>0. p \in Procs /\ OpFits(p)
  BY DEF Fits
<1>1. CASE Draft(p) \/ Route(p) \/ SetRoute(p)
  <2>1. op[p].kind \in LateStages \/ ~Draft(p)
    BY <1>0 DEF OpFits, Draft
  <2>2. /\ jobs' = jobs /\ torn' = {} /\ approved' = approved /\ In(p, {"draft", "idle", "route"})
        /\ Route(p) => file' = file
    BY <1>1 DEF Draft, Route, SetRoute, Goes
  <2>3. /\ Only(p) /\ op'[p].pc \in {"look", "route", "rebuild"} /\ file'.scene = file.scene
        /\ op'[p].req = op[p].req
        /\ \A s \in LateStages : file'.stage[s] = "running" => file.stage[s] = "running"
    BY <1>0, <1>1, <2>1, <2>2, DraftDoes, RouteDoes, SetRouteDoes DEF Stays
  <2> QED
    BY <1>0, <2>2, <2>3, TurnGoes DEF OnScene
<1>2. ASSUME NEW s \in LateStages, RetryStage(p, s) PROVE Goes'
  <2>1. jobs' = jobs /\ torn' = {} /\ approved' = approved /\ In(p, {"idle"}) /\ file' = file
    BY <1>2 DEF RetryStage, Goes
  <2>2. Only(p) /\ op'[p].pc = "draft" /\ op'[p].req = op[p].req
    BY <1>0, <1>2, RetryStageDoes DEF Stays
  <2> QED
    BY <1>0, <2>1, <2>2, TurnGoes DEF OnScene
<1>3. CASE Rebuild(p)
  <2>1. /\ {} \in SUBSET Scenes /\ nextId' = nextId /\ jobs' = jobs /\ torn' = {}
        /\ In(p, {"rebuild"})
    BY <1>3 DEF Rebuild, Goes
  <2>2. /\ Upset(p, {}) /\ \A k \in Scenes : S(k)' = S(k)
        /\ \A s \in LateStages : file'.stage[s] = "running" => file.stage[s] = "running"
    BY <1>0, <1>3, RebuildDoes DEF S, LateStages
  <2> QED
    BY <2>1, <2>2, UpsetGoes
<1>4. CASE Invalidate(p)
  <2>1. /\ op[p].i \in Scenes /\ nextId' = nextId /\ jobs' = jobs /\ In(p, {"invalidate"})
    BY <1>0, <1>4 DEF OpFits, Invalidate
  <2>2. PICK reset \in SUBSET Scenes : reset = Tail(op[p].i)
    BY <2>1, TailRuns
  <2>3. /\ Upset(p, reset) /\ \A k \in Scenes \ reset : S(k)' = S(k)
        /\ \A k \in reset : S(k)'.status # "running"
        /\ \A s \in LateStages : file'.stage[s] = "draft"
        /\ torn' = {}
    BY <1>0, <1>4, <2>1, <2>2, InvalidateDoes DEF S, Goes, Blank
  <2> QED
    BY <2>1, <2>2, <2>3, UpsetGoes
<1> QED
  BY <1>1, <1>2, <1>3, <1>4, ApprovalGoes, RetryGoes, CancelGoes DEF PageStep, LateStages

-----------------------------------------------------------------------------
(* The worker keeps a project going.                                       *)

\* The job it takes is one its project has heard of.
LEMMA TakeGoes ==
  ASSUME Types, Fits, Goes, Take, blame' = {}
  PROVE  Goes'
<1>1. /\ file' = file /\ torn' = {} /\ approved' = approved /\ In(Worker, {"idle"})
  BY DEF Take, Goes, w
<1>2. PICK j \in jobs : LET m == [j EXCEPT !.state = "running"] IN
        /\ j.state = "pending" /\ jobs' = (jobs \ {j}) \cup {m}
        /\ m.id = j.id /\ m.kind = j.kind /\ m.scene = j.scene
        /\ Only(Worker) /\ Stays(Worker)
        /\ j.kind = "scene" => w'.pc = "shoot"
        /\ j.kind = "upscale" => w'.pc = "wanted"
        /\ j.kind = "assembly" => w'.pc = "gather"
        /\ blame' = {} => ~Unrecorded(j)
  BY TakeDoes
<1>3. /\ Only(Worker) /\ op'[Worker].req = op[Worker].req
      /\ op'[Worker].pc \in {"shoot", "wanted", "gather"}
  BY <1>2 DEF Types, JobType, Stays, w
<1>4. \A k \in jobs : \E m \in jobs' : /\ m.id = k.id /\ m.kind = k.kind /\ m.scene = k.scene
                                       /\ k # j => m = k
  BY <1>2
<1>5. \A k : Resetting(k) => Resetting(k)'
  BY <1>1, <1>3 DEF Resetting, Only
<1>6. AllReset => AllReset'
  BY <1>1, <1>3 DEF AllReset, Only
<1>7. ASSUME NEW k \in Scenes, S(k)'.status = "running" PROVE Alive(k)'
  <2>1. Alive(k) /\ S(k)' = S(k)
    BY <1>1, <1>7 DEF Goes, Living, S
  <2>2. \A q \in Procs : Holds(q, k) => Holds(q, k)'
    BY <1>1, <1>3 DEF Holds, OnScene, Only
  <2>3. Queued(k, S(k).job) => Queued(k, S(k).job)'
    BY <1>4, <2>1 DEF Queued
  <2>4. ~Writes(k)
    BY <1>1 DEF Writes
  <2> QED
    BY <1>5, <2>1, <2>2, <2>3, <2>4 DEF Alive
<1>8. Ending'
  <2>1. \A s, k : k \in jobs /\ Ahead(s, k) => \E m \in jobs' : Ahead(s, m)'
    BY <1>3, <1>4 DEF Ahead, w
  <2> QED
    BY <1>1, <1>6, <2>1 DEF Goes, Ending
<1>9. ASSUME NEW q \in Procs PROVE OpGoes(q)'
  <2>1. CASE q = Worker
    BY <1>3, <2>1 DEF OpGoes
  <2>2. CASE q # Worker
    <3>1. op'[q] = op[q] /\ (AllDone(file) => AllDone(file)')
      BY <1>1, <1>3, <2>2 DEF Only
    <3>2. In(q, {"record", "stageRuns"}) => op[q].proj # j.id
      BY <1>2 DEF Unrecorded
    <3>3. \A kind, i : In(q, {"record", "stageRuns"}) /\ Waits(kind, i, op[q].proj) =>
            \E m \in jobs' : m.kind = kind /\ m.scene = i /\ m.id = op[q].proj /\ m.state = "pending"
      BY <1>4, <3>2 DEF Waits
    <3>4. CASE In(q, {"record", "stageRuns"})
      BY <1>5, <1>6, <3>1, <3>3, <3>4 DEF Goes, OpGoes, Waits
    <3>5. CASE ~In(q, {"record", "stageRuns"})
      BY <3>1, <3>5 DEF Goes, OpGoes
    <3> QED
      BY <3>4, <3>5
  <2> QED
    BY <2>1, <2>2
<1>10. Driven => Driven'
  <2>1. \A q \in Procs : Comes(q) => Comes(q)'
    BY <1>1, <1>3 DEF Comes, Comers, Only
  <2>2. Stands => Stands'
    BY <1>1 DEF Stands
  <2>3. \A i \in Scenes : S(i)' = S(i)
    BY <1>1 DEF S
  <2> QED
    BY <1>4, <2>1, <2>2, <2>3 DEF Driven
<1> QED
  BY <1>1, <1>3, <1>7, <1>8, <1>9, <1>10, WorkerIs, GoesStays DEF Living

\* A scene's job is filed by the one who has its result.
LEMMA ShootGoes ==
  ASSUME Types, Fits, Goes, Shoot
  PROVE  Goes'
<1>1. file' = file /\ torn' = {} /\ approved' = approved /\ In(Worker, {"shoot"})
  BY DEF Shoot, Goes, w
<1>2. PICK j \in jobs : /\ j.id = w.job /\ j.kind = "scene" /\ j.scene = w.i
                        /\ j.state = "running" /\ \A k \in jobs : k.id = w.job => k = j
  BY <1>1 DEF Fits, JobsFit, Body
<1>3. /\ Only(Worker) /\ Stays(Worker) /\ w'.pc = "check" /\ w'.i = w.i /\ w'.job = w.job
      /\ jobs' = {k \in jobs : k.id # w.job}
  BY <1>2, ShootDoes
<1>4. \A k \in jobs : k # j => k \in jobs'
  BY <1>2, <1>3
<1>5. \A k : Resetting(k) => Resetting(k)'
  BY <1>1, <1>3 DEF Resetting, Only
<1>6. AllReset => AllReset'
  BY <1>1, <1>3 DEF AllReset, Only
<1>7. ASSUME NEW k \in Scenes, S(k)'.status = "running" PROVE Alive(k)'
  <2>1. Alive(k) /\ S(k)' = S(k)
    BY <1>1, <1>7 DEF Goes, Living, S
  <2>2. \A q \in Procs : Holds(q, k) => Holds(q, k)'
    BY <1>1, <1>3 DEF Holds, OnScene, Only
  <2>3. ASSUME NEW m \in jobs, m.kind = "scene", m.scene = k, m.id = S(k).job
        PROVE  Queued(k, S(k).job)' \/ Writes(k)'
    <3>1. CASE m = j
      BY <1>2, <1>3, <2>1, <2>3, <3>1 DEF Writes, w
    <3>2. CASE m # j
      BY <1>4, <2>1, <2>3, <3>2 DEF Queued
    <3> QED
      BY <3>1, <3>2
  <2>4. ~Writes(k)
    BY <1>1 DEF Writes
  <2> QED
    BY <1>5, <2>1, <2>2, <2>3, <2>4 DEF Alive, Queued
<1>8. Ending'
  <2>1. \A s \in LateStages : \A k \in jobs : Ahead(s, k) => k \in jobs' /\ Ahead(s, k)'
    BY <1>2, <1>3, <1>4 DEF Ahead, LateStages, w
  <2> QED
    BY <1>1, <1>6, <2>1 DEF Goes, Ending
<1>9. ASSUME NEW q \in Procs PROVE OpGoes(q)'
  <2>1. CASE q = Worker
    BY <1>3, <2>1 DEF OpGoes, w
  <2>2. CASE q # Worker
    <3>1. op'[q] = op[q] /\ (AllDone(file) => AllDone(file)')
      BY <1>1, <1>3, <2>2 DEF Only
    <3>2. \A kind, i, id : Waits(kind, i, id) => Waits(kind, i, id)'
      BY <1>2, <1>4 DEF Waits
    <3> QED
      BY <1>5, <1>6, <3>1, <3>2 DEF Goes, OpGoes
  <2> QED
    BY <2>1, <2>2
<1>10. Driven => Driven'
  <2>1. \A q \in Procs : Comes(q) => Comes(q)'
    BY <1>1, <1>3 DEF Comes, Comers, Only
  <2>2. Stands => Stands'
    BY <1>1 DEF Stands
  <2>3. \A i \in Scenes : S(i)' = S(i)
    BY <1>1 DEF S
  <2> QED
    BY <1>2, <1>4, <2>1, <2>2, <2>3 DEF Driven
<1>11. op'[Worker].req = op[Worker].req /\ ~In(Worker, {"approve"})'
  BY <1>3 DEF Stays, w
<1> QED
  BY <1>1, <1>3, <1>7, <1>8, <1>9, <1>10, <1>11, WorkerIs, GoesStays DEF Living

\* A result nobody asked for any more is no running scene's.
LEMMA CheckGoes ==
  ASSUME Types, Fits, Goes, Check
  PROVE  Goes'
<1>1. file' = file /\ torn' = {} /\ approved' = approved /\ jobs' = jobs /\ In(Worker, {"check"})
  BY DEF Check, Goes, w
<1>2. /\ Only(Worker) /\ op'[Worker].req \in {op[Worker].req, Null}
      /\ op'[Worker].pc \in {"write", "idle"}
      /\ \/ /\ S(w.i).job = w.job
            /\ w'.pc = "write" /\ w'.i = w.i /\ w'.job = w.job
         \/ S(w.i).job # w.job /\ w' = Idle
  BY CheckDoes DEF Stays, w, S, Idle
<1>3. \A k \in Scenes : Leaves(Worker, k)
  BY <1>1, <1>2 DEF Leaves, Holds, OnScene, Writes, S, w
<1>4. Living'
  BY <1>1, <1>2, <1>3, WorkerIs, LivingStays DEF Goes
<1>5. Ending'
  BY <1>1, <1>2, WorkerIs, EndingStays DEF Goes
<1>6. \A q \in Procs : OpGoes(q)'
  BY <1>1, <1>2, WorkerIs, OpsGo, OpGoesElsewhere DEF Goes
<1>7. Driven => Driven'
  BY <1>1, WorkerIs, <1>2, DrivenStays DEF Comes, Comers, S
<1> QED
  BY <1>1, <1>2, <1>4, <1>5, <1>6, <1>7, WorkerIs, GoesStays

\* The worker writes the end of a scene that runs, and looks again.
LEMMA WriteGoes ==
  ASSUME Types, Fits, Shot, Goes, Write, blame' = {}
  PROVE  Goes'
<1>0. PICK i \in Scenes : i = w.i /\ w.proj \in Shots
  BY DEF Fits, OpFits, Write, w
<1>1. /\ jobs' = jobs /\ approved' = approved /\ In(Worker, {"write"}) /\ ~w.stale /\ torn' = {}
  BY ScarIs, WorkerIs DEF Write, Goes, w
<1>2. S(i).status = "running"
  BY <1>0, <1>1, WorkerIs DEF Shot, ShotOp, Untorn, Goes, w
<1>3. /\ Only(Worker) /\ op'[Worker].pc = "look" /\ op'[Worker].req = op[Worker].req
      /\ \A k \in Scenes \ {i} : S(k)' = S(k)
      /\ S(i)'.status # "running" /\ file'.stage = file.stage
  BY <1>0, WriteDoes DEF S, w
<1>4. Living'
  <2>1. \A k \in Scenes \ {i} : Leaves(Worker, k)
    BY <1>0, <1>1, <1>3 DEF Holds, Writes, OnScene, Leaves
  <2> QED
    BY <1>1, <1>3, <2>1, WorkerIs, LivingStays DEF Goes
<1>5. Ending'
  BY <1>1, <1>3, WorkerIs, EndingStays DEF Goes
<1>6. \A q \in Procs : OpGoes(q)'
  <2>1. ~AllDone(file)
    BY <1>2 DEF AllDone, S
  <2> QED
    BY <1>1, <1>3, <2>1, WorkerIs, OpsGo, OpGoesElsewhere DEF Goes
<1>7. Driven'
  BY <1>3, WorkerIs, ComesDrives DEF Comers
<1> QED
  BY <1>1, <1>3, <1>4, <1>5, <1>6, <1>7, WorkerIs, GoesStays

\* A step of an upscale or of an assembly.
LEMMA BodyGoes ==
  ASSUME Types, Fits, Goes, Only(Worker), jobs' = jobs, approved' = approved, torn' = {},
         In(Worker, Upscaler \cup Joiner), w'.pc \in Upscaler \cup Joiner \cup {"file"},
         w'.req \in {w.req, Null},
         \A k \in Scenes : S(k)'.status = S(k).status /\ S(k)'.job = S(k).job,
         Ending'
  PROVE  Goes'
<1>1. jobs \subseteq jobs' /\ op'[Worker].req \in {op[Worker].req, Null}
  BY DEF w
<1>2. /\ ~In(Worker, {"invalidate", "check", "write", "save"} \cup OnScene)
      /\ ~In(Worker, {"approve", "record", "stageRuns", "scenesDone"})'
  BY DEF Upscaler, Joiner, OnScene, w
<1>3. Living'
  BY <1>1, <1>2, WorkerIs, LivingCalm DEF Goes
<1>4. AllDone(file) => AllDone(file)'
  BY DEF AllDone, S
<1>5. \A q \in Procs : OpGoes(q)'
  BY <1>1, <1>2, <1>4, WorkerIs, OpsGo, OpGoesElsewhere DEF Goes
<1>6. Driven'
  BY <1>1, BodyDrives
<1> QED
  BY <1>1, <1>2, <1>3, <1>5, <1>6, WorkerIs, GoesStays

LEMMA UpscaleGoes ==
  ASSUME Types, Fits, Goes,
         NoCard \/ Wanted \/ ReadTakes \/ Part \/ PartBroken \/ CloseUpscale \/ MarkUpscale
  PROVE  Goes'
<1>1. /\ jobs' = jobs /\ approved' = approved /\ torn' = {} /\ In(Worker, Upscaler)
      /\ nextId' = nextId
  BY DEF NoCard, Wanted, ReadTakes, Part, PartBroken, CloseUpscale, MarkUpscale, Goes, Upscaler, w
<1>2. In(Worker, Body) /\ w.job \in Takes
  BY <1>1, WorkerIs DEF Body, Fits, OpFits, ByWorker, w
<1>3. CASE NoCard \/ ReadTakes \/ Part \/ PartBroken
  <2>1. Part => w.i \in 0..(NScenes - 1) /\ w.proj \in [Scenes -> OptTakes]
    BY WorkerIs DEF Part, Fits, OpFits, w
  <2>2. /\ Only(Worker) /\ w'.pc \in Upscaler /\ w'.req = w.req /\ file'.stage = file.stage
        /\ \A k \in Scenes : S(k)'.status = S(k).status /\ S(k)'.job = S(k).job
    <3>1. CASE NoCard \/ ReadTakes \/ PartBroken
      <4>1. file' = file
        BY <3>1 DEF NoCard, ReadTakes, PartBroken
      <4> QED
        BY <3>1, <4>1, NoCardDoes, ReadTakesDoes, PartBrokenDoes DEF Stays, Upscaler, S, w
    <3>2. CASE Part
      <4>1. PICK n \in Scenes : n = w.i + 1
        BY <2>1, <3>2, ChainAssumption
      <4>2. /\ Only(Worker) /\ Stays(Worker) /\ file'.stage = file.stage
            /\ w'.pc \in {"part", "closeUpscale"}
            /\ \A k \in Scenes \ {n} : file'.scene[k] = file.scene[k]
            /\ file'.scene[n].status = file.scene[n].status
            /\ file'.scene[n].job = file.scene[n].job
        BY <2>1, <3>2, <4>1, PartDoes
      <4> QED
        BY <4>1, <4>2 DEF Stays, Upscaler, S, w
    <3> QED
      BY <1>3, <3>1, <3>2
  <2>3. ~In(Worker, {"file"})' /\ ~In(Worker, {"invalidate"})
    BY <1>1, <2>2 DEF Upscaler, w
  <2>4. Ending'
    BY <1>1, <2>2, <2>3, WorkerIs, EndingStays DEF Goes
  <2> QED
    BY <1>1, <2>2, <2>4, BodyGoes
<1>4. CASE Wanted /\ file.stage["upscale"] = "running"
  <2>1. /\ Only(Worker) /\ w'.pc = "takes" /\ w'.req = w.req /\ file' = file
    BY <1>2, <1>4, WantedDoes DEF Wanted, Stays, w
  <2>2. ~In(Worker, {"file"})' /\ ~In(Worker, {"invalidate"})
    BY <1>1, <2>1 DEF Upscaler, w
  <2>3. Ending'
    BY <1>1, <2>1, <2>2, WorkerIs, EndingStays DEF Goes
  <2>4. w'.pc \in Upscaler
    BY <2>1 DEF Upscaler
  <2> QED
    BY <1>1, <2>1, <2>3, <2>4, BodyGoes DEF S
<1>5. CASE (Wanted /\ file.stage["upscale"] # "running") \/ CloseUpscale \/ MarkUpscale
  <2>1. /\ Only(Worker) /\ w'.job = w.job /\ w'.req \in {w.req, Null}
        /\ w'.pc \in {"markUpscale", "file"} /\ file'.scene = file.scene
        /\ file'.stage["upscale"] # "running"
        /\ file'.stage["assembly"] = file.stage["assembly"]
    <3>1. CASE Wanted /\ file.stage["upscale"] # "running"
      BY <1>2, <3>1, WantedDoes DEF Wanted
    <3>2. CASE CloseUpscale \/ MarkUpscale
      BY <1>2, <3>2, CloseUpscaleDoes, MarkUpscaleDoes DEF Stays, w
    <3> QED
      BY <1>5, <3>1, <3>2
  <2>2. Ending'
    <3>1. \A s \in LateStages \ {"upscale"} : file'.stage[s] = file.stage[s]
      BY <2>1 DEF LateStages
    <3>2. "upscale" \in LateStages /\ "upscale" # "assembly"
      BY DEF LateStages
    <3> QED
      BY <1>1, <1>2, <2>1, <3>1, <3>2, EndingFiles DEF Goes
  <2>3. w'.pc \in Upscaler \cup {"file"}
    BY <2>1 DEF Upscaler
  <2> QED
    BY <1>1, <2>1, <2>2, <2>3, BodyGoes DEF S
<1> QED
  BY <1>3, <1>4, <1>5

LEMMA AssemblyGoes ==
  ASSUME Types, Fits, Goes, Gather \/ Joined \/ Finished \/ Unjoined, blame' = {}
  PROVE  Goes'
<1>1. jobs' = jobs /\ approved' = approved /\ torn' = {} /\ In(Worker, Joiner)
  BY ScarIs, WorkerIs DEF Gather, Joined, Finished, Unjoined, Goes, Joiner, w
<1>2. In(Worker, Body) /\ w.job \in Takes
  BY <1>1, WorkerIs DEF Body, Fits, OpFits, ByWorker, w
<1>3. CASE Gather \/ Joined
  <2>1. Joined => w.proj \in [Scenes -> Takes]
    BY WorkerIs DEF Joined, Fits, OpFits, w
  <2>2. /\ Only(Worker) /\ w'.pc \in Joiner /\ w'.req = w.req /\ file'.stage = file.stage
        /\ file'.scene = file.scene
    BY <1>3, <2>1, GatherDoes, JoinedDoes DEF Gather, Fits, Stays, Joiner, w
  <2>3. ~In(Worker, {"file"})' /\ ~In(Worker, {"invalidate"})
    BY <1>1, <2>2 DEF Joiner, w
  <2>4. Ending'
    BY <1>1, <2>2, <2>3, WorkerIs, EndingStays DEF Goes
  <2> QED
    BY <1>1, <2>2, <2>4, BodyGoes DEF S
<1>4. CASE Finished \/ Unjoined
  <2>1. /\ Only(Worker) /\ w'.job = w.job /\ w'.req = Null /\ w'.pc = "file"
        /\ file'.scene = file.scene /\ file'.stage["upscale"] = file.stage["upscale"]
        /\ file'.stage["assembly"] # "running"
    BY <1>2, <1>4, FinishedDoes
  <2>2. Ending'
    <3>1. \A s \in LateStages \ {"assembly"} : file'.stage[s] = file.stage[s]
      BY <2>1 DEF LateStages
    <3>2. "assembly" \in LateStages /\ "upscale" # "assembly"
      BY DEF LateStages
    <3> QED
      BY <1>1, <1>2, <2>1, <3>1, <3>2, EndingFiles DEF Goes
  <2> QED
    BY <1>1, <2>1, <2>2, BodyGoes DEF S
<1> QED
  BY <1>3, <1>4

\* Who files a stage's job looks at the project next.
LEMMA FileJobGoes ==
  ASSUME Types, Fits, Goes, FileJob
  PROVE  Goes'
<1>1. file' = file /\ torn' = {} /\ approved' = approved /\ In(Worker, {"file"})
  BY DEF FileJob, Goes, w
<1>2. PICK j \in jobs : /\ j.id = w.job /\ j.kind # "scene" /\ j.state = "running"
                        /\ \A k \in jobs : k.id = w.job => k = j
  BY <1>1 DEF Fits, JobsFit, Body
<1>3. /\ Only(Worker) /\ op'[Worker].pc = "look" /\ op'[Worker].req = op[Worker].req
      /\ jobs' = {k \in jobs : k.id # w.job}
  BY FileJobDoes DEF w
<1>4. \A k \in jobs : k # j => k \in jobs'
  BY <1>2, <1>3
<1>5. \A k : Resetting(k) => Resetting(k)'
  BY <1>1, <1>3 DEF Resetting, Only
<1>6. AllReset => AllReset'
  BY <1>1, <1>3 DEF AllReset, Only
<1>7. ASSUME NEW k \in Scenes, S(k)'.status = "running" PROVE Alive(k)'
  <2>1. Alive(k) /\ S(k)' = S(k)
    BY <1>1, <1>7 DEF Goes, Living, S
  <2>2. \A q \in Procs : Holds(q, k) => Holds(q, k)'
    BY <1>1, <1>3 DEF Holds, OnScene, Only
  <2>3. Queued(k, S(k).job) => Queued(k, S(k).job)'
    BY <1>2, <1>4, <2>1 DEF Queued
  <2>4. ~Writes(k)
    BY <1>1 DEF Writes
  <2> QED
    BY <1>5, <2>1, <2>2, <2>3, <2>4 DEF Alive
<1>8. Ending'
  <2>1. \A s \in LateStages : \A k \in jobs : Ahead(s, k) => k \in jobs' /\ Ahead(s, k)'
    BY <1>1, <1>3 DEF Ahead, w
  <2> QED
    BY <1>1, <1>6, <2>1 DEF Goes, Ending
<1>9. ASSUME NEW q \in Procs PROVE OpGoes(q)'
  <2>1. CASE q = Worker
    BY <1>3, <2>1 DEF OpGoes
  <2>2. CASE q # Worker
    <3>1. op'[q] = op[q] /\ (AllDone(file) => AllDone(file)')
      BY <1>1, <1>3, <2>2 DEF Only
    <3>2. \A kind, i, id : Waits(kind, i, id) => Waits(kind, i, id)'
      BY <1>2, <1>4 DEF Waits
    <3> QED
      BY <1>5, <1>6, <3>1, <3>2 DEF Goes, OpGoes
  <2> QED
    BY <2>1, <2>2
<1>10. Driven'
  BY <1>3, WorkerIs, ComesDrives DEF Comers
<1> QED
  BY <1>1, <1>3, <1>7, <1>8, <1>9, <1>10, WorkerIs, GoesStays DEF Living

LEMMA WorkerGoes ==
  ASSUME Types, Fits, Shot, Goes, WorkerStep, blame' = {}
  PROVE  Goes'
  BY TakeGoes, ShootGoes, CheckGoes, WriteGoes, UpscaleGoes, AssemblyGoes, FileJobGoes DEF WorkerStep

\* A death that is no reason of its own leaves the job of the dead to be taken again.
LEMMA DieGoes ==
  ASSUME Types, Fits, Goes, Free, NEW p \in Procs, Die(p), blame' = {}
  PROVE  Goes'
<1>1. file' = file /\ torn' = {} /\ approved' = approved
  BY DEF Die, Goes
<1>2. /\ p = Worker /\ Only(Worker) /\ op'[Worker] = Idle
      /\ \E k \in jobs : k.id = w.job
      /\ \A k \in jobs : \E j \in jobs' : /\ j.id = k.id /\ j.kind = k.kind /\ j.scene = k.scene
                                          /\ k.state = "pending" => j = k
  BY DieDoes
<1>3. /\ op'[Worker].pc = "idle" /\ op'[Worker].req = Null
  BY <1>2 DEF Idle
<1>4. In(Worker, Body)
  <2>1. w.job # Null
    BY <1>2, NullIs DEF Types, JobType
  <2>2. In(Worker, ByWorker) /\ ~In(Worker, {"check", "write"})
    BY <1>2, <2>1 DEF Free, Fits, JobsFit
  <2> QED
    BY <2>2 DEF ByWorker
<1>5. ~In(Worker, {"invalidate", "check", "write", "save"} \cup OnScene) /\ ~Comes(Worker)
  BY <1>4 DEF Body, Upscaler, Joiner, OnScene, Comes, Comers
<1>6. \A k : Resetting(k) => Resetting(k)'
  BY <1>2, <1>5 DEF Resetting, Only
<1>7. AllReset => AllReset'
  BY <1>2, <1>5 DEF AllReset, Only
<1>8. ASSUME NEW k \in Scenes, S(k)'.status = "running" PROVE Alive(k)'
  <2>1. Alive(k) /\ S(k)' = S(k)
    BY <1>1, <1>8 DEF Goes, Living, S
  <2>2. \A q \in Procs : Holds(q, k) => Holds(q, k)'
    BY <1>2, <1>5 DEF Holds, Only
  <2>3. Queued(k, S(k).job) => Queued(k, S(k).job)'
    BY <1>2, <2>1 DEF Queued
  <2>4. ~Writes(k)
    BY <1>5 DEF Writes
  <2> QED
    BY <1>6, <2>1, <2>2, <2>3, <2>4 DEF Alive
<1>9. Ending'
  <2>1. \A s : \A k \in jobs : Ahead(s, k) => \E j \in jobs' : Ahead(s, j)'
    BY <1>2, <1>3 DEF Ahead
  <2> QED
    BY <1>1, <1>7, <2>1 DEF Goes, Ending
<1>10. ASSUME NEW q \in Procs PROVE OpGoes(q)'
  <2>1. CASE q = Worker
    BY <1>3, <2>1 DEF OpGoes
  <2>2. CASE q # Worker
    <3>1. op'[q] = op[q] /\ (AllDone(file) => AllDone(file)')
      BY <1>1, <1>2, <2>2 DEF Only
    <3>2. \A kind, i, id : Waits(kind, i, id) => Waits(kind, i, id)'
      BY <1>2 DEF Waits
    <3> QED
      BY <1>6, <1>7, <3>1, <3>2 DEF Goes, OpGoes
  <2> QED
    BY <2>1, <2>2
<1>11. Driven => Driven'
  <2>1. \A q \in Procs : Comes(q) => Comes(q)'
    BY <1>1, <1>2, <1>5 DEF Comes, Comers, Only
  <2>2. Stands => Stands'
    BY <1>1 DEF Stands
  <2>3. \A i \in Scenes : S(i)' = S(i)
    BY <1>1 DEF S
  <2>4. (\E k \in jobs : k.kind # "scene") => \E j \in jobs' : j.kind # "scene"
    BY <1>2
  <2> QED
    BY <2>1, <2>2, <2>3, <2>4 DEF Driven
<1> QED
  BY <1>1, <1>2, <1>3, <1>5, <1>8, <1>9, <1>10, <1>11, WorkerIs, GoesStays DEF Living

-----------------------------------------------------------------------------
(* NothingHangs.                                                           *)

\* A reason once given stays.
LEMMA BlameGrows ==
  ASSUME [Next]_vars
  PROVE  blame \subseteq blame'
<1>1. ASSUME NEW p \in Procs, AdvanceStep(p) PROVE blame \subseteq blame'
  BY <1>1 DEF AdvanceStep, Look, Halt, ScenesDone, Claim, StageScenes, Submit, Record, Rollback,
     Unstage, SubmitStage, StageRuns, StageFails, Scar
<1>2. ASSUME NEW p \in Pages, PageStep(p) PROVE blame \subseteq blame'
  BY <1>2 DEF PageStep, Approve, Save, Approved, Retry, Invalidate, RetryStage, Draft, Route,
     SetRoute, Rebuild, Cancel
<1>3. CASE WorkerStep
  BY <1>3 DEF WorkerStep, Take, Shoot, Check, Write, NoCard, Wanted, ReadTakes, Part, PartBroken,
     CloseUpscale, MarkUpscale, Gather, Joined, Finished, Unjoined, FileJob, Scar
<1>4. ASSUME NEW p \in Procs, Die(p) PROVE blame \subseteq blame'
  BY <1>4 DEF Die
<1> QED
  BY <1>1, <1>2, <1>3, <1>4 DEF Next, vars

\* A process that advances the project names no job it did not name.
LEMMA AdvanceNames ==
  ASSUME Types, AdvanceStep(Worker)
  PROVE  w'.job \in {w.job, Null}
<1>1. w \in OpType /\ op \in [Procs -> OpType] /\ Idle.job = Null
  BY WorkerIs DEF Types, w, Idle
<1>2. Ended(Worker).job = Null
  BY DEF Ended, Idle
<1>3. ASSUME Ended(Worker) = w' PROVE w'.job = Null
  BY <1>2, <1>3
<1>4. CASE Look(Worker) \/ ScenesDone(Worker)
  <2>1. ASSUME NEW f, Stages(Worker, f) PROVE w'.job \in {w.job, Null}
    <3>1. \/ End(Worker)
          \/ \E n : op' = [op EXCEPT ![Worker].pc = "submitStage", ![Worker].kind = n,
                                      ![Worker].stale = FALSE]
      BY <2>1 DEF Stages
    <3>2. CASE End(Worker)
      BY <1>1, <1>2, <3>2, WorkerIs DEF End, w
    <3>3. ASSUME NEW n, op' = [op EXCEPT ![Worker].pc = "submitStage", ![Worker].kind = n,
                                         ![Worker].stale = FALSE]
          PROVE  w'.job = w.job
      BY <1>1, <3>3, WorkerIs DEF OpType, w
    <3> QED
      BY <3>1, <3>2, <3>3
  <2>2. CASE Look(Worker)
    <3>1. \/ End(Worker) \/ Stages(Worker, file)
          \/ \E pc : op' = [op EXCEPT ![Worker].pc = pc, ![Worker].stale = FALSE]
          \/ \E i : op' = [op EXCEPT ![Worker].pc = "claim", ![Worker].i = i,
                                      ![Worker].stale = FALSE]
      BY <2>2 DEF Look
    <3>2. CASE End(Worker)
      BY <1>1, <1>2, <3>2, WorkerIs DEF End, w
    <3>3. ASSUME NEW pc, op' = [op EXCEPT ![Worker].pc = pc, ![Worker].stale = FALSE]
          PROVE  w'.job = w.job
      BY <1>1, <3>3, WorkerIs DEF OpType, w
    <3>4. ASSUME NEW i, op' = [op EXCEPT ![Worker].pc = "claim", ![Worker].i = i,
                                         ![Worker].stale = FALSE]
          PROVE  w'.job = w.job
      BY <1>1, <3>4, WorkerIs DEF OpType, w
    <3> QED
      BY <2>1, <3>1, <3>2, <3>3, <3>4
  <2>3. CASE ScenesDone(Worker)
    BY <2>1, <2>3 DEF ScenesDone
  <2> QED
    BY <1>4, <2>2, <2>3
<1>5. CASE Halt(Worker) \/ Record(Worker) \/ StageRuns(Worker) \/ Unstage(Worker) \/ StageFails(Worker)
  BY <1>1, <1>2, <1>5, WorkerIs DEF Halt, Record, StageRuns, Unstage, StageFails, End, OpType, w
<1>6. CASE Claim(Worker) \/ StageScenes(Worker) \/ Submit(Worker)
  BY <1>1, <1>2, <1>6, WorkerIs DEF Claim, StageScenes, Submit, Goto, End, OpType, w
<1>7. CASE Rollback(Worker) \/ SubmitStage(Worker)
  BY <1>1, <1>2, <1>7, WorkerIs DEF Rollback, SubmitStage, Goto, End, OpType, w
<1> QED
  BY <1>4, <1>5, <1>6, <1>7 DEF AdvanceStep

LEMMA FreeStep ==
  ASSUME Types, Fits, Free, [Next]_vars
  PROVE  Free'
<1>0. w \in OpType /\ op \in [Procs -> OpType] /\ Idle.job = Null /\ \A p \in Pages : p # Worker
  BY WorkerIs, ChainAssumption DEF Types, w, Idle
<1>1. ASSUME NEW p \in Procs \ {Worker}, AdvanceStep(p) PROVE w' = w
  <2>1. CASE Look(p) \/ ScenesDone(p)
    BY <1>0, <2>1, WorkerIs DEF Look, ScenesDone, Stages, End, w
  <2>2. CASE Halt(p) \/ Record(p) \/ StageRuns(p) \/ Unstage(p) \/ StageFails(p)
    BY <1>0, <2>2, WorkerIs DEF Halt, Record, StageRuns, Unstage, StageFails, End, w
  <2>3. CASE Claim(p) \/ StageScenes(p) \/ Submit(p) \/ Rollback(p) \/ SubmitStage(p)
    BY <1>0, <2>3, WorkerIs DEF Claim, StageScenes, Submit, Rollback, SubmitStage, Goto, End, w
  <2> QED
    BY <1>1, <2>1, <2>2, <2>3 DEF AdvanceStep
<1>2. ASSUME AdvanceStep(Worker) PROVE Free'
  <2>1. ~In(Worker, ByWorker)
    BY <1>2 DEF AdvanceStep, Look, Halt, ScenesDone, Claim, StageScenes, Submit, Record, Rollback,
       Unstage, SubmitStage, StageRuns, StageFails, ByWorker, Body, Upscaler, Joiner
  <2> QED
    BY <1>2, <2>1, AdvanceNames DEF Free
<1>3. ASSUME NEW p \in Pages, PageStep(p) PROVE w'.pc = w.pc /\ w'.job = w.job
  <2>1. CASE Invalidate(p) \/ Rebuild(p)
    <3>1. PICK reset : Upset(p, reset)
      BY <2>1 DEF Invalidate, Rebuild
    <3>2. w' = [w EXCEPT !.stale = @ \/ (w.pc \in Carrying /\ w.i \in reset \cup {0})]
      BY <1>0, <3>1, WorkerIs DEF Upset, w
    <3> QED
      BY <1>0, <3>2 DEF OpType
  <2>2. CASE ~(Invalidate(p) \/ Rebuild(p))
    BY <1>0, <1>3, <2>2, WorkerIs DEF PageStep, Approve, Save, Approved, Retry, RetryStage, Draft,
       Route, SetRoute, Cancel, Advance, Goto, w
  <2> QED
    BY <2>1, <2>2
<1>4. CASE WorkerStep
  <2>1. CASE Take
    <3>1. w'.pc \in {"shoot", "wanted", "gather"}
      BY <2>1, TakeDoes DEF Types, JobType
    <3> QED
      BY <3>1 DEF Free, ByWorker, Body, Upscaler, Joiner, w
  <2>2. CASE Shoot
    <3>1. PICK j \in jobs : j.id = w.job /\ \A k \in jobs : k.id = w.job => k = j
      BY <2>2 DEF Shoot, Fits, JobsFit, Body, w
    <3>2. w'.pc = "check"
      BY <2>2, <3>1, ShootDoes
    <3> QED
      BY <3>2 DEF Free, ByWorker, w
  <2>3. CASE Write \/ FileJob
    BY <1>0, <2>3, WorkerIs DEF Write, FileJob, Advance, Idle, Free, w
  <2>4. CASE Check
    BY <1>0, <2>4, CheckDoes DEF Free, ByWorker, w
  <2>5. CASE NoCard \/ Wanted \/ ReadTakes \/ Part \/ PartBroken \/ CloseUpscale \/ MarkUpscale
             \/ Gather \/ Joined \/ Finished \/ Unjoined
    <3>1. /\ w.job \in Takes /\ Whole(file)
          /\ Part => w.i \in 0..(NScenes - 1) /\ w.proj \in [Scenes -> OptTakes]
          /\ Joined => w.proj \in [Scenes -> Takes]
      BY <2>5, WorkerIs DEF NoCard, Wanted, ReadTakes, Part, PartBroken, CloseUpscale, MarkUpscale,
         Gather, Joined, Finished, Unjoined, Fits, OpFits, ByWorker, Body, Upscaler, Joiner, w
    <3>2. w'.pc \in Upscaler \cup Joiner \cup {"file"}
      BY <2>5, <3>1, NoCardDoes, WantedDoes, ReadTakesDoes, PartDoes, PartBrokenDoes,
         CloseUpscaleDoes, MarkUpscaleDoes, GatherDoes, JoinedDoes, FinishedDoes DEF Upscaler, Joiner
    <3> QED
      BY <3>2 DEF Free, ByWorker, Body, w
  <2> QED
    BY <1>4, <2>1, <2>2, <2>3, <2>4, <2>5 DEF WorkerStep
<1>5. ASSUME NEW p \in Procs, Die(p) PROVE Free'
  BY <1>0, <1>5, WorkerIs DEF Die, Free, w
<1>6. CASE UNCHANGED vars
  BY <1>6 DEF vars, Free, w
<1>7. ASSUME w'.pc = w.pc, w'.job = w.job PROVE Free'
  BY <1>7 DEF Free, w
<1> QED
  BY <1>1, <1>2, <1>3, <1>4, <1>5, <1>6, <1>7 DEF Next

LEMMA GoingStep ==
  ASSUME Types, Fits, Shot, Going, Free, [Next]_vars
  PROVE  Going'
<1> SUFFICES ASSUME blame' = {} PROVE Goes'
  BY DEF Going
<1>1. blame = {} /\ Goes
  BY BlameGrows DEF Going
<1>2. CASE UNCHANGED vars
  <2>1. file' = file /\ jobs' = jobs /\ op' = op /\ approved' = approved /\ torn' = torn
    BY <1>2 DEF vars
  <2>2. Living'
    BY <1>1, <2>1 DEF Goes, Living, Alive, Holds, Queued, Writes, Resetting, S, w
  <2>3. Ending'
    BY <1>1, <2>1 DEF Goes, Ending, AllReset, Ahead, w
  <2>4. \A p \in Procs : OpGoes(p)'
    BY <1>1, <2>1 DEF Goes, OpGoes, Resetting, AllReset, Waits, AllDone
  <2>5. Begun' => Driven'
    BY <1>1, <2>1 DEF Goes, Begun, Driven, Comes, Ready, S, Stands, Failed, AllDone
  <2> QED
    BY <1>1, <2>1, <2>2, <2>3, <2>4, <2>5 DEF Goes
<1> QED
  BY <1>1, <1>2, AdvanceGoes, PageGoes, WorkerGoes, DieGoes DEF Next

LEMMA GoingInit == Init => Going /\ Free
<1> SUFFICES ASSUME Init PROVE Goes /\ Free
  BY DEF Going
<1>1. /\ torn = {} /\ approved = FALSE /\ \A p \in Procs : op[p] = Idle
      /\ \A i \in Scenes : S(i) = Blank
      /\ \A s \in LateStages : file.stage[s] = "draft"
  BY DEF Init, S, LateStages
<1>2. Idle.pc = "idle" /\ Idle.req = Null /\ Idle.job = Null /\ Null # "approve"
  BY TypesInit, NullIs DEF Idle
<1>3. Living /\ Ending
  BY <1>1 DEF Living, Ending, Blank
<1>4. ~Begun /\ \A p \in Procs : OpGoes(p)
  BY <1>1, <1>2 DEF Begun, OpGoes
<1>5. Free
  BY <1>1, <1>2, WorkerIs DEF Free, w
<1> QED
  BY <1>1, <1>3, <1>4, <1>5 DEF Goes

\* A project nobody has interfered with in one of the named ways never stops half way:
\* for any number of scenes and of pages, when no job is queued and nobody is at work, an
\* approved project is assembled or shows what failed.  Whoever takes away what drives the
\* chain (a job that is filed, a scene that ends, a stage that is reset) goes to look at
\* the project next, and a look leaves it only where something still drives it or it stands.
THEOREM ProjectNothingHangs == Spec => []NothingHangs
<1>1. ASSUME Going, Quiet, approved, blame = {} PROVE Stands
  <2>1. Driven /\ Living /\ jobs = {} /\ \A p \in Procs : op[p].pc = "idle"
    BY <1>1 DEF Going, Goes, Begun, Quiet
  <2>2. \A p \in Procs : ~Comes(p)
    BY <2>1 DEF Comes, Comers
  <2>3. \A i \in Scenes : ~Alive(i)
    BY <2>1, WorkerIs DEF Alive, Holds, OnScene, Queued, Writes, Resetting
  <2> QED
    BY <2>1, <2>2, <2>3 DEF Driven, Living
<1>2. Going => NothingHangs
  BY <1>1 DEF NothingHangs, Stands, Failed, LateStages
<1>3. Types /\ Fits /\ Shot /\ Going /\ Free /\ [Next]_vars =>
        (Types /\ Fits /\ Shot /\ Going /\ Free)'
  BY TypesStep, FitsStep, ShotStep, GoingStep, FreeStep
<1> QED
  BY <1>2, <1>3, TypesInit, ShotInit, GoingInit, PTL DEF Spec
=============================================================================
