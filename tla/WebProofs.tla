----------------------------- MODULE WebProofs ------------------------------
(***************************************************************************)
(* Proofs about what the panel's routes (web.py) keep: the gates of a      *)
(* project (ClipGates), for any number of requests, presses and faults,    *)
(* and a chat session (ChatTurns), for any number of threads, calls and    *)
(* deaths and whatever providers answer.                                   *)
(*                                                                         *)
(* The gates.                                                              *)
(* ScenesAsApproved and NoDeadEnd each excuse what blame names, so each    *)
(* has an invariant of its own under the same excuse.  Fed: a request that *)
(* nobody overtook has seen what the file says, the track is approved      *)
(* while no song of the project can still change its take, and an open     *)
(* scenario was written for that take.  Led: a stage that runs has a song  *)
(* that will end it, and a request on its way to an approval has started   *)
(* what the approval promises.  Fits, which excuses nothing, says at which *)
(* places which gates' requests are.                                       *)
(*                                                                         *)
(* The chat.  Exclusive: who works on the session holds the lock of one    *)
(* file, which is the session's while it is there.  Numbered: a call has a *)
(* number of its own.  Working says what a call has seen and done of the   *)
(* session at each of its places, Answered what the answers given promise. *)
(***************************************************************************)
EXTENDS ClipGates, ChatTurns, FiniteSetTheorems, TLAPS

StoryType == [n : 0..MaxPresses, of : TakeIds]
FileType  == [kind : Kinds, import : BOOLEAN, sglang : BOOLEAN, stage : [Stages -> Statuses],
              take : TakeIds, story : StoryType, cut : [story : StoryType, take : TakeIds]]
SongType  == [state : {"none", "pending", "running"}, id : 0..MaxPresses, cancel : BOOLEAN]
Places    == {"idle", "measure", "measured", "submit", "noScenes", "cut", "advance", "approve",
              "content", "open", "active", "run"}
OpType    == [pc : Places, gate : {Null, "script", "track", "scenario", "retry"},
              id : 0..MaxPresses, seen : FileType \cup {Null}, stale : BOOLEAN]

\* The types TLC checks, and those of the requests' records.
Types ==
  /\ file \in FileType
  /\ song \in SongType
  /\ wpc \in {"idle", "sing", "tell", "fail", "file"}
  /\ op \in [Pages -> OpType]
  /\ presses \in 0..MaxPresses /\ faults \in 0..MaxFaults

Script   == file.stage["script"]
Track    == file.stage["track"]
Scenario == file.stage["scenario"]
Scenes   == file.stage["scenes"]
Gate(p)  == op[p].gate
In(p, S) == op[p].pc \in S

\* The stages a project of this kind can show.
FileFits ==
  /\ file.import => file.kind # "song"
  /\ Script \in {"awaiting_approval", "approved"} /\ Track # "done"
  /\ file.kind = "clip" => Scenario \in {"draft", "awaiting_approval", "approved"}
  /\ file.kind # "clip" => Scenario = "approved" /\ file.story = NoStory

\* A job runs while the worker has it; no song is no song in every field.
SongFits ==
  /\ song.state = "running" <=> wpc # "idle"
  /\ song.state = "none" <=> song = NoSong

\* A project as a request has read it: of the same kind, with stages it could show.
SeenFits(f) ==
  /\ f \in FileType
  /\ f.kind = file.kind /\ f.import = file.import /\ f.sglang = file.sglang
  /\ f.stage["script"] \in {"awaiting_approval", "approved"} /\ f.stage["track"] # "done"
  /\ f.kind = "clip" => f.stage["scenario"] \in {"draft", "awaiting_approval", "approved"}
  /\ f.kind # "clip" => f.stage["scenario"] = "approved" /\ f.story = NoStory

\* Which gate's request stands at which place.
OpFits(p) ==
  /\ op[p].pc # "idle" => op[p].id > 0
  /\ In(p, {"cut", "content"}) => SeenFits(op[p].seen)
  /\ In(p, {"measure", "measured"}) => file.import /\ file.sglang /\ Gate(p) = "script"
  /\ In(p, {"submit"}) => Gate(p) \in {"script", "retry"}
  /\ In(p, {"submit"}) /\ Gate(p) = "script" => ~(file.import /\ file.sglang)
  /\ In(p, {"active", "run"}) => Gate(p) = "retry"
  /\ In(p, {"noScenes"}) => Gate(p) = "track" /\ file.kind = "song"
  /\ In(p, {"content", "open"}) => Gate(p) = "scenario" /\ file.kind = "clip"
  /\ In(p, {"cut", "advance"}) =>
       \/ Gate(p) = "scenario" /\ file.kind = "clip"
       \/ Gate(p) = "track" /\ file.kind # "song"
  /\ In(p, {"approve"}) => Gate(p) \in {"script", "track", "scenario"}
  /\ In(p, {"approve"}) /\ Gate(p) = "scenario" => file.kind = "clip"

Fits == FileFits /\ SongFits /\ \A p \in Pages : OpFits(p)

Fresh(p) == ~op[p].stale
CutAsIs  == file.cut = [story |-> file.story, take |-> file.take]
Clean    == file.kind = "clip" /\ blame \cap Overtaken = {}

\* What the file says of scenario, track, take and song.
FedFile ==
  /\ Scenario # "draft" => Track = "approved" /\ file.story.of = file.take
  /\ Scenario = "approved" => CutAsIs
  /\ Track = "approved" => song = NoSong \/ wpc = "file"
  /\ file.import => file.take \in {Null, Imported}
  /\ file.import /\ (Track \in {"awaiting_approval", "approved"} \/ wpc = "tell")
       => file.take = Imported
  /\ file.import /\ file.sglang /\ song # NoSong => Script = "approved"

\* What a request may rely on though others wrote since it looked.
FedStale(p) ==
  /\ In(p, {"active", "submit", "run"}) /\ Gate(p) = "retry" => Script = "approved"
  /\ file.import /\ In(p, {"measured"}) => file.take = Imported
  /\ file.import /\ In(p, {"approve"}) /\ Gate(p) = "track" => file.take = Imported

\* What it may rely on while nobody did.
FedFresh(p) ==
  /\ In(p, {"measure", "measured", "submit", "approve"}) /\ Gate(p) = "script"
       => Script = "awaiting_approval"
  /\ In(p, {"active", "submit", "run"}) /\ Gate(p) = "retry" => Track # "approved"
  /\ In(p, {"cut", "advance", "approve"}) /\ Gate(p) = "scenario" => Scenario = "awaiting_approval"
  /\ In(p, {"cut", "advance"}) => Gate(p) = "scenario"
  /\ In(p, {"cut", "content"}) => op[p].seen = file
  /\ In(p, {"advance", "approve"}) /\ Gate(p) = "scenario" => CutAsIs
  /\ In(p, {"content", "open"}) => Track = "approved" /\ Scenario \in {"draft", "awaiting_approval"}
  /\ In(p, {"open"}) => file.story.of = file.take

Fed == Clean => FedFile /\ \A p \in Pages : FedStale(p) /\ (Fresh(p) => FedFresh(p))

Under == Scenes \in {"running", "done"}

\* What is running has somebody to end it; what is approved was started.
LedFile ==
  /\ Track = "running" => song # NoSong /\ wpc # "file"
  /\ file.kind = "clip" /\ Scenario = "approved" => Under
  /\ file.kind # "clip" /\ Track = "approved" => Under

\* Who is about to approve has started it.
LedOp(p) ==
  In(p, {"approve"}) /\ (Gate(p) = "scenario" \/ (Gate(p) = "track" /\ file.kind # "clip"))
    => Under

Led == ~Skipped /\ blame \cap {"withdrawn", "outran", "saved"} = {}
         => LedFile /\ \A p \in Pages : LedOp(p)

IInv == Types /\ Fits /\ Fed /\ Led

-----------------------------------------------------------------------------
USE GatesAssumption

\* A new project.
LEMMA InitInv == Init => IInv
<1> SUFFICES ASSUME Init PROVE IInv
  OBVIOUS
<1>1. Types
  BY DEF Init, Types, FileType, SongType, OpType, StoryType, TakeIds, NoSong, NoStory, NoCut, Idle,
         Places, Kinds, Stages, Statuses
<1>a. /\ file.import => file.kind # "song"
      /\ file.stage["script"] = "awaiting_approval" /\ file.stage["track"] = "draft"
      /\ file.take = Null /\ file.story = NoStory
      /\ file.kind = "clip" => file.stage["scenario"] = "draft"
      /\ file.kind # "clip" => file.stage["scenario"] = "approved"
  BY DEF Init, Stages
<1>b. /\ song = NoSong /\ wpc = "idle" /\ \A p \in Pages : op[p] = Idle
  BY DEF Init
<1>c. \A p \in Pages : op[p].pc = "idle"
  BY <1>b DEF Idle
<1>2. Fits
  <2>1. SongFits
    BY <1>b DEF SongFits, NoSong
  <2>2. FileFits
    BY <1>a DEF FileFits, Script, Track, Scenario
  <2>3. \A p \in Pages : OpFits(p)
    BY <1>c DEF OpFits, In
  <2> QED
    BY <2>1, <2>2, <2>3 DEF Fits
<1>3. Fed
  BY <1>a, <1>b, <1>c DEF Fed, FedFile, FedStale, FedFresh, Clean, Scenario, Track, In
<1>4. Led
  BY <1>a, <1>b, <1>c DEF Led, LedFile, LedOp, Scenario, Track, In
<1> QED
  BY <1>1, <1>2, <1>3, <1>4 DEF IInv

\* A stage written in the file leaves the rest of it.
LEMMA StagedIs ==
  ASSUME file \in FileType, NEW s \in Stages, NEW v \in Statuses
  PROVE  /\ Staged(s, v) \in FileType
         /\ Staged(s, v).kind = file.kind /\ Staged(s, v).import = file.import
         /\ Staged(s, v).sglang = file.sglang
         /\ Staged(s, v).take = file.take /\ Staged(s, v).story = file.story
         /\ Staged(s, v).cut = file.cut
         /\ \A r \in Stages : Staged(s, v).stage[r] = IF r = s THEN v ELSE file.stage[r]
BY DEF Staged, FileType

\* What a write does to its own request and to the others.
LEMMA WriteIs ==
  ASSUME Types, NEW p \in Pages, NEW f \in FileType, NEW pc \in Places, Write(p, f, pc)
  PROVE  /\ file' = f /\ op' \in [Pages -> OpType]
         /\ pc = "idle" => op'[p] = Idle
         /\ pc # "idle" => /\ op'[p].pc = pc /\ op'[p].gate = op[p].gate /\ op'[p].id = op[p].id
                           /\ op'[p].seen = op[p].seen /\ op'[p].stale = op[p].stale
         /\ \A q \in Pages \ {p} :
              /\ op'[q].pc = op[q].pc /\ op'[q].gate = op[q].gate /\ op'[q].id = op[q].id
              /\ op'[q].seen = op[q].seen
              /\ op[q].pc = "idle" => op'[q] = op[q]
              /\ ~op'[q].stale => ~op[q].stale /\ (f = file \/ op[q].pc = "idle")
         /\ blame \subseteq blame'
         /\ op[p].stale => "raced" \in blame'
<1>1. \A q \in Pages : op[q] \in OpType
  BY DEF Types
<1>2. Goto(p, pc) \in OpType /\ [op[p] EXCEPT !.pc = pc] \in OpType
  BY <1>1 DEF OpType, Goto, Idle, Places
<1>3. \A q \in Pages : [op[q] EXCEPT !.stale = TRUE] \in OpType
  BY <1>1 DEF OpType
<1>4. op' \in [Pages -> OpType]
  BY <1>1, <1>2, <1>3 DEF Write
<1>5. \A q \in Pages : op[q].pc # "idle" \/ op[q].pc = "idle"
  OBVIOUS
<1> QED
  BY <1>1, <1>4 DEF Write, Goto, At, OpType

-----------------------------------------------------------------------------
(* Types                                                                   *)

LEMMA WriteTypes ==
  ASSUME Types, NEW p \in Pages, NEW f \in FileType, NEW pc \in Places, Write(p, f, pc)
  PROVE  Types'
BY WriteIs DEF Types, Write

\* A press.
LEMMA LookTypes ==
  ASSUME Types, NEW p \in Pages, NEW pc \in Places,
         NEW gate \in {Null, "script", "track", "scenario", "retry"}, Look(p, pc, gate)
  PROVE  Types'
<1> DEFINE r == [pc |-> pc, gate |-> gate, id |-> presses + 1,
                 seen |-> IF pc \in {"cut", "content"} THEN file ELSE Null, stale |-> FALSE]
<1>1. presses + 1 \in 0..MaxPresses
  BY DEF Look, Types
<1>2. r \in OpType
  BY <1>1 DEF Types, OpType
<1>3. op' = [op EXCEPT ![p] = r]
  BY DEF Look
<1> QED
  BY <1>1, <1>2, <1>3 DEF Types, Look

\* A request that ends.
LEMMA LeaveTypes == ASSUME Types, NEW p \in Pages, Leave(p) PROVE Types'
<1>1. Idle \in OpType
  BY DEF Idle, OpType, Places
<1> QED
  BY <1>1 DEF Types, Leave

\* A request that goes on.
LEMMA PlaceTypes ==
  ASSUME Types, NEW p \in Pages, NEW pc \in Places
  PROVE  [op EXCEPT ![p].pc = pc] \in [Pages -> OpType]
<1>1. op[p] \in OpType
  BY DEF Types
<1>2. [op[p] EXCEPT !.pc = pc] \in OpType
  BY <1>1 DEF OpType
<1> QED
  BY <1>2 DEF Types

\* Every step keeps the types.
LEMMA StepTypes == Types /\ Fits /\ [Next]_vars => Types'
<1> SUFFICES ASSUME Types, Fits, [Next]_vars PROVE Types'
  OBVIOUS
<1> USE DEF Places
<1>1. CASE WorkerStep
  <2>1. CASE Claim
    BY <2>1 DEF Claim, Types, SongType
  <2>2. CASE Sing
    <3>1. [file EXCEPT !.take = IF file.import THEN Imported ELSE song.id] \in FileType
      BY DEF Types, FileType, SongType, TakeIds, Imported
    <3> QED
      BY <2>2, <3>1 DEF Sing, WorkerWrites, Types, Fault
  <2>3. CASE Tell
    BY <2>3, StagedIs DEF Tell, WorkerWrites, Types, Stages, Statuses
  <2>4. CASE MarkTrackFailed
    BY <2>4, StagedIs DEF MarkTrackFailed, WorkerWrites, Types, Stages, Statuses
  <2>5. CASE FileSong
    BY <2>5 DEF FileSong, Types, SongType, NoSong
  <2> QED
    BY <1>1, <2>1, <2>2, <2>3, <2>4, <2>5 DEF WorkerStep
<1>2. CASE WorkerDies
  <2>1. NoSong \in SongType /\ [song EXCEPT !.state = "pending"] \in SongType
    BY DEF Types, SongType, NoSong
  <2> QED
    BY <1>2, <2>1 DEF WorkerDies, Types, Fault
<1>3. CASE Cancel
  <2>1. NoSong \in SongType
    BY DEF SongType, NoSong
  <2>2. [song EXCEPT !.cancel = TRUE] \in SongType
    BY DEF Types, SongType
  <2> QED
    <3>1. song' \in SongType
      BY <1>3, <2>1, <2>2 DEF Cancel
    <3>2. presses' \in 0..MaxPresses /\ UNCHANGED <<file, wpc, op, faults>>
      BY <1>3 DEF Cancel, Types
    <3> QED
      BY <3>1, <3>2 DEF Types
<1>4. ASSUME NEW p \in Pages, PageDies(p) PROVE Types'
  <2>1. Idle \in OpType
    BY DEF Idle, OpType
  <2> QED
    BY <1>4, <2>1 DEF PageDies, Types, Fault
<1>5. ASSUME NEW p \in Pages, PageStep(p) PROVE Types'
  <2>1. CASE ApproveScript(p)
    BY <2>1, LookTypes DEF ApproveScript
  <2>2. CASE Measure(p)
    <3>1. [file EXCEPT !.take = Imported] \in FileType
      BY DEF Types, FileType, TakeIds, Imported
    <3> QED
      BY <2>2, <3>1, LeaveTypes, WriteTypes DEF Measure
  <2>3. CASE Measured(p)
    BY <2>3, StagedIs, WriteTypes DEF Measured, Types, Stages, Statuses
  <2>4. CASE Submit(p)
    <3>1. CASE Leave(p)
      BY <3>1, LeaveTypes
    <3>2. CASE ~Leave(p)
      <4>1. [state |-> "pending", id |-> op[p].id, cancel |-> FALSE] \in SongType
        BY DEF Types, SongType, OpType
      <4>2. op' \in [Pages -> OpType]
        <5>1. PICK pc \in {"run", "approve"} : op' = [op EXCEPT ![p].pc = pc]
          BY <2>4, <3>2 DEF Submit
        <5>2. [op EXCEPT ![p].pc = pc] \in [Pages -> OpType]
          BY PlaceTypes
        <5> QED
          BY <5>1, <5>2
      <4> QED
        BY <2>4, <3>2, <4>1, <4>2 DEF Submit, Types
    <3> QED
      BY <3>1, <3>2
  <2>5. CASE ApproveTrack(p)
    <3>1. \E pc \in {"noScenes", "cut", "approve"} : Look(p, pc, "track")
      BY <2>5 DEF ApproveTrack
    <3> QED
      BY <3>1, LookTypes
  <2>6. CASE NoScenes(p)
    BY <2>6, StagedIs, WriteTypes DEF NoScenes, Types, Stages, Statuses
  <2>7. CASE ApproveScenario(p)
    BY <2>7, LookTypes DEF ApproveScenario
  <2>8. CASE Cut(p)
    <3>1. CASE Leave(p)
      BY <3>1, LeaveTypes
    <3>2. CASE ~Leave(p)
      <4> DEFINE seen == op[p].seen
                 f == [seen EXCEPT !.cut = [story |-> seen.story, take |-> seen.take]]
      <4>1. seen \in FileType
        BY <2>8 DEF Cut, At, Fits, OpFits, SeenFits, In
      <4>2. f \in FileType
        BY <4>1 DEF FileType
      <4>3. Write(p, f, "advance")
        BY <2>8, <3>2 DEF Cut
      <4> QED
        BY <4>2, <4>3, WriteTypes
    <3> QED
      BY <3>1, <3>2
  <2>9. CASE Advance(p)
    BY <2>9, StagedIs, WriteTypes, LeaveTypes DEF Advance, Types, Stages, Statuses
  <2>10. CASE ApproveStage(p)
    <3>1. Gate(p) \in Stages
      BY <2>10 DEF ApproveStage, At, Fits, OpFits, In, Stages
    <3> QED
      BY <2>10, <3>1, StagedIs, WriteTypes DEF ApproveStage, Types, Gate, Statuses
  <2>11. CASE Generate(p) \/ Edit(p)
    BY <2>11, LookTypes DEF Generate, Edit
  <2>12. CASE Content(p)
    <3>1. CASE Leave(p)
      BY <3>1, LeaveTypes
    <3>2. CASE ~Leave(p)
      <4> DEFINE f == [file EXCEPT !.story = [n |-> op[p].id, of |-> op[p].seen.take]]
      <4>1. op[p].seen.take \in TakeIds
        BY <2>12 DEF Content, At, Fits, OpFits, SeenFits, In, FileType
      <4>2. f \in FileType
        BY <4>1 DEF Types, OpType, FileType, StoryType
      <4>3. Write(p, f, "open")
        BY <2>12, <3>2 DEF Content
      <4> QED
        BY <4>2, <4>3, WriteTypes
    <3> QED
      BY <3>1, <3>2
  <2>13. CASE Open(p)
    BY <2>13, StagedIs, WriteTypes DEF Open, Types, Stages, Statuses
  <2>14. CASE RetryTrack(p)
    BY <2>14, LookTypes DEF RetryTrack
  <2>15. CASE CheckActive(p)
    <3>1. CASE Leave(p)
      BY <3>1, LeaveTypes
    <3>2. CASE ~Leave(p)
      <4>1. op' = [op EXCEPT ![p].pc = "submit"] /\ UNCHANGED <<file, song, wpc, presses, faults>>
        BY <2>15, <3>2 DEF CheckActive
      <4>2. op' \in [Pages -> OpType]
        BY <4>1, PlaceTypes
      <4> QED
        BY <4>1, <4>2 DEF Types
    <3> QED
      BY <3>1, <3>2
  <2>16. CASE Run(p)
    <3>1. Idle \in OpType
      BY DEF Idle, OpType
    <3>2. \A q \in Pages : [op[q] EXCEPT !.stale = TRUE] \in OpType
      BY DEF Types, OpType
    <3> QED
      BY <2>16, <3>1, <3>2, StagedIs DEF Run, Types, Stages, Statuses
  <2> QED
    BY <1>5, <2>1, <2>2, <2>3, <2>4, <2>5, <2>6, <2>7, <2>8, <2>9, <2>10, <2>11, <2>12, <2>13,
       <2>14, <2>15, <2>16 DEF PageStep
<1>6. CASE UNCHANGED vars
  BY <1>6 DEF vars, Types
<1> QED
  BY <1>1, <1>2, <1>3, <1>4, <1>5, <1>6 DEF Next

-----------------------------------------------------------------------------
(* Places                                                                  *)

SameKind == file'.kind = file.kind /\ file'.import = file.import /\ file'.sglang = file.sglang

\* A request that a step leaves stands where it may.
LEMMA OthersFit ==
  ASSUME Fits, SameKind, NEW q \in Pages,
         op'[q].pc = op[q].pc, op'[q].gate = op[q].gate, op'[q].id = op[q].id,
         op'[q].seen = op[q].seen
  PROVE  OpFits(q)'
<1>1. OpFits(q)
  BY DEF Fits
<1>2. SeenFits(op[q].seen) => SeenFits(op[q].seen)'
  BY DEF SeenFits, SameKind
<1> QED
  BY <1>1, <1>2 DEF OpFits, In, Gate, SameKind

\* A write of the project.
LEMMA WriteFits ==
  ASSUME Types, Fits, NEW p \in Pages, NEW f \in FileType, NEW pc \in Places, Write(p, f, pc),
         SameKind, FileFits', OpFits(p)'
  PROVE  Fits'
<1>1. \A q \in Pages \ {p} : OpFits(q)'
  BY WriteIs, OthersFit
<1>2. SongFits'
  BY DEF Write, Fits, SongFits
<1> QED
  BY <1>1, <1>2 DEF Fits

\* What a look records.
LEMMA LookIs ==
  ASSUME Types, NEW p \in Pages, NEW pc, NEW gate, Look(p, pc, gate)
  PROVE  /\ op[p].pc = "idle"
         /\ op'[p].pc = pc /\ op'[p].gate = gate /\ op'[p].id = presses + 1 /\ ~op'[p].stale
         /\ pc \in {"cut", "content"} => op'[p].seen = file
         /\ \A q \in Pages \ {p} : op'[q] = op[q]
         /\ UNCHANGED <<file, song, wpc, faults, blame>>
BY DEF Look, Types, At

\* What an end leaves.
LEMMA LeaveIs ==
  ASSUME Types, NEW p \in Pages, Leave(p)
  PROVE  /\ op'[p] = Idle /\ \A q \in Pages \ {p} : op'[q] = op[q]
         /\ UNCHANGED <<file, song, wpc, faults, blame>>
BY DEF Leave, Types

\* A press.
LEMMA LookFits ==
  ASSUME Types, Fits, NEW p \in Pages, NEW pc, NEW gate, Look(p, pc, gate), OpFits(p)'
  PROVE  Fits'
<1>1. \A q \in Pages \ {p} : OpFits(q)'
  BY LookIs, OthersFit DEF SameKind
<1>2. SongFits' /\ FileFits'
  BY LookIs DEF Fits, SongFits, FileFits, Script, Track, Scenario
<1> QED
  BY <1>1, <1>2 DEF Fits

\* Nobody is anywhere.
LEMMA IdleFits == ASSUME NEW p \in Pages, op'[p] = Idle PROVE OpFits(p)'
BY DEF Idle, OpFits, In

\* A request that ends.
LEMMA LeaveFits == ASSUME Types, Fits, NEW p \in Pages, Leave(p) PROVE Fits'
<1>1. \A q \in Pages \ {p} : OpFits(q)'
  BY LeaveIs, OthersFit DEF SameKind
<1>2. SongFits' /\ FileFits'
  BY LeaveIs DEF Fits, SongFits, FileFits, Script, Track, Scenario
<1>3. OpFits(p)'
  BY LeaveIs, IdleFits
<1> QED
  BY <1>1, <1>2, <1>3 DEF Fits

\* A stage of the file is written: the kind stays, the script and the scenario stay or
\* are what was written.
LEMMA StagedFits ==
  ASSUME Types, Fits, NEW s \in Stages, NEW v \in Statuses, file' = Staged(s, v),
         s = "script" => v \in {"awaiting_approval", "approved"}, s = "track" => v # "done",
         s = "scenario" => file.kind = "clip" /\ v \in {"awaiting_approval", "approved"}
  PROVE  SameKind /\ FileFits'
<1>1. file \in FileType
  BY DEF Types
<1> QED
  BY <1>1, StagedIs DEF Fits, FileFits, SameKind, Script, Track, Scenario, Stages

\* Every step takes requests, file and song only to places that fit.
LEMMA StepFits == Types /\ Fits /\ [Next]_vars => Fits'
<1> SUFFICES ASSUME Types, Fits, [Next]_vars PROVE Fits'
  OBVIOUS
<1>0. Types'
  BY StepTypes
<1> USE DEF Places
<1>1. CASE WorkerStep \/ WorkerDies \/ Cancel
  <2>1. UNCHANGED op
    BY <1>1 DEF WorkerStep, Claim, Sing, Tell, MarkTrackFailed, FileSong, WorkerWrites, WorkerDies,
                Cancel
  <2>2. SameKind /\ FileFits'
    <3>1. CASE Tell \/ MarkTrackFailed
      BY <3>1, StagedFits DEF Tell, MarkTrackFailed, WorkerWrites, Stages, Statuses
    <3>2. CASE Sing
      <4>1. /\ SameKind
            /\ file'.stage = file.stage /\ file'.story = file.story
        BY <3>2 DEF Sing, WorkerWrites, SameKind, Types, FileType
      <4> QED
        BY <4>1 DEF Fits, FileFits, SameKind, Script, Track, Scenario
    <3>3. CASE UNCHANGED file
      BY <3>3 DEF Fits, FileFits, SameKind, Script, Track, Scenario
    <3> QED
      BY <1>1, <3>1, <3>2, <3>3 DEF WorkerStep, Claim, FileSong, WorkerDies, Cancel
  <2>3. SongFits'
    <3>1. SongFits /\ song \in SongType
      BY DEF Fits, Types
    <3>2. [song EXCEPT !.state = "pending"] # NoSong /\ [song EXCEPT !.state = "running"] # NoSong
      BY <3>1 DEF SongType, NoSong
    <3>3. song.state = "running" => [song EXCEPT !.cancel = TRUE] # NoSong
      BY <3>1 DEF SongType, NoSong
    <3>4. /\ [song EXCEPT !.state = "pending"].state = "pending"
          /\ [song EXCEPT !.state = "running"].state = "running"
          /\ [song EXCEPT !.cancel = TRUE].state = song.state
          /\ NoSong.state = "none"
      BY <3>1 DEF SongType, NoSong
    <3>5. CASE Claim
      BY <3>1, <3>2, <3>4, <3>5 DEF SongFits, Claim
    <3>6. CASE Sing \/ Tell \/ MarkTrackFailed
      BY <3>1, <3>6 DEF SongFits, Sing, Tell, MarkTrackFailed, WorkerWrites
    <3>7. CASE FileSong
      BY <3>4, <3>7 DEF SongFits, FileSong
    <3>8. CASE WorkerDies
      BY <3>1, <3>2, <3>4, <3>8 DEF SongFits, WorkerDies
    <3>9. CASE Cancel
      BY <3>1, <3>3, <3>4, <3>9 DEF SongFits, Cancel
    <3> QED
      BY <1>1, <3>5, <3>6, <3>7, <3>8, <3>9 DEF WorkerStep
  <2>4. \A q \in Pages : OpFits(q)'
    BY <2>1, <2>2, OthersFit
  <2> QED
    BY <2>2, <2>3, <2>4 DEF Fits
<1>4. ASSUME NEW p \in Pages, PageDies(p) PROVE Fits'
  <2>1. /\ op'[p] = Idle /\ \A q \in Pages \ {p} : op'[q] = op[q]
        /\ UNCHANGED <<file, song, wpc>>
    BY <1>4 DEF PageDies, Types
  <2>2. \A q \in Pages \ {p} : OpFits(q)'
    BY <2>1, OthersFit DEF SameKind
  <2>3. SongFits' /\ FileFits'
    BY <2>1 DEF Fits, SongFits, FileFits, Script, Track, Scenario
  <2> QED
    BY <2>1, <2>2, <2>3, IdleFits DEF Fits
<1>5. ASSUME NEW p \in Pages, PageStep(p) PROVE Fits'
  <2>0. op[p] \in OpType /\ OpFits(p) /\ presses + 1 > 0 /\ file \in FileType /\ FileFits
    BY DEF Types, Fits
  <2>1. CASE ApproveScript(p)
    <3>1. OpFits(p)'
      BY <2>0, <2>1, LookIs DEF ApproveScript, OpFits, In, Gate
    <3> QED
      BY <2>1, <3>1, LookFits DEF ApproveScript
  <2>2. CASE Measure(p)
    <3> DEFINE f == [file EXCEPT !.take = Imported]
    <3>1. f \in FileType /\ f.kind = file.kind /\ f.import = file.import
          /\ f.sglang = file.sglang /\ f.stage = file.stage /\ f.story = file.story
      BY <2>0 DEF FileType, TakeIds, Imported
    <3>2. CASE Write(p, f, "measured")
      <4>1. SameKind /\ FileFits'
        <5>1. file' = f
          BY <3>1, <3>2, WriteIs
        <5>2. SameKind /\ file'.stage = file.stage /\ file'.story = file.story
          BY <3>1, <5>1 DEF SameKind
        <5> QED
          BY <2>0, <5>2 DEF FileFits, SameKind, Script, Track, Scenario
      <4>2. OpFits(p)'
        BY <2>0, <2>2, <3>1, <3>2, <4>1, WriteIs DEF Measure, At, OpFits, In, Gate, SameKind
      <4> QED
        BY <3>1, <3>2, <4>1, <4>2, WriteFits
    <3> QED
      BY <2>2, <3>2, LeaveFits DEF Measure
  <2>3. CASE Measured(p)
    <3>1. Write(p, Staged("track", "approved"), "approve") /\ Staged("track", "approved") \in FileType
      BY <2>0, <2>3, StagedIs DEF Measured, Stages, Statuses
    <3>2. SameKind /\ FileFits'
      BY <3>1, WriteIs, StagedFits DEF Stages, Statuses
    <3>3. OpFits(p)'
      BY <2>0, <2>3, <3>1, <3>2, WriteIs DEF Measured, At, OpFits, In, Gate, SameKind
    <3> QED
      BY <3>1, <3>2, <3>3, WriteFits
  <2>4. CASE Submit(p)
    <3>1. CASE ~Leave(p)
      <4>1. /\ op'[p].pc = IF Gate(p) = "retry" THEN "run" ELSE "approve"
            /\ op'[p].gate = op[p].gate /\ op'[p].id = op[p].id
            /\ \A q \in Pages \ {p} : op'[q] = op[q]
            /\ UNCHANGED <<file, wpc>>
            /\ song = NoSong
            /\ song' = [state |-> "pending", id |-> op[p].id, cancel |-> FALSE]
        BY <2>4, <3>1, <2>0 DEF Submit, Types, OpType, Gate
      <4>2. \A q \in Pages \ {p} : OpFits(q)'
        BY <4>1, OthersFit DEF SameKind
      <4>3. OpFits(p)'
        BY <2>0, <2>4, <4>1 DEF Submit, At, OpFits, In, Gate
      <4>4. FileFits'
        BY <4>1, <2>0 DEF FileFits, Script, Track, Scenario
      <4>5. SongFits'
        BY <4>1 DEF Fits, SongFits, NoSong
      <4> QED
        BY <4>2, <4>3, <4>4, <4>5 DEF Fits
    <3> QED
      BY <3>1, LeaveFits
  <2>5. CASE ApproveTrack(p)
    <3>1. PICK pc \in {"noScenes", "cut", "approve"} :
            /\ Look(p, pc, "track")
            /\ pc = "noScenes" => file.kind = "song"
            /\ pc = "cut" => file.kind # "song"
      <4> DEFINE c == CASE file.kind = "song" -> "noScenes"
                        [] /\ file.kind # "song"
                           /\ Stage("scenario") = "approved" /\ file.story = NoStory -> "cut"
                        [] OTHER -> "approve"
      <4>1. file.kind = "song" => c = "noScenes"
        OBVIOUS
      <4>2. file.kind # "song" => c = "cut" \/ c = "approve"
        OBVIOUS
      <4>3. Look(p, c, "track")
        BY <2>5 DEF ApproveTrack
      <4> HIDE DEF c
      <4> QED
        BY <4>1, <4>2, <4>3
    <3>2. pc = "cut" => SeenFits(op[p].seen)'
      BY <2>0, <3>1, LookIs DEF SeenFits, FileFits, Script, Track, Scenario
    <3>3. OpFits(p)'
      BY <2>0, <3>1, <3>2, LookIs DEF OpFits, In, Gate
    <3> QED
      BY <3>1, <3>3, LookFits
  <2>6. CASE NoScenes(p)
    <3>1. Write(p, Staged("scenes", "done"), "approve") /\ Staged("scenes", "done") \in FileType
      BY <2>0, <2>6, StagedIs DEF NoScenes, Stages, Statuses
    <3>2. SameKind /\ FileFits'
      BY <3>1, WriteIs, StagedFits DEF Stages, Statuses
    <3>3. OpFits(p)'
      BY <2>0, <2>6, <3>1, <3>2, WriteIs DEF NoScenes, At, OpFits, In, Gate, SameKind
    <3> QED
      BY <3>1, <3>2, <3>3, WriteFits
  <2>7. CASE ApproveScenario(p)
    <3>1. SeenFits(op[p].seen)'
      BY <2>0, <2>7, LookIs DEF ApproveScenario, SeenFits, FileFits, Script, Track, Scenario
    <3>2. OpFits(p)'
      BY <2>0, <2>7, <3>1, LookIs DEF ApproveScenario, OpFits, In, Gate
    <3> QED
      BY <2>7, <3>2, LookFits DEF ApproveScenario
  <2>8. CASE Cut(p)
    <3> DEFINE seen == op[p].seen
               f == [seen EXCEPT !.cut = [story |-> seen.story, take |-> seen.take]]
    <3>1. CASE Write(p, f, "advance")
      <4>1. SeenFits(seen)
        BY <2>0, <2>8 DEF Cut, At, OpFits, In
      <4>2. f \in FileType /\ f.kind = seen.kind /\ f.import = seen.import /\ f.sglang = seen.sglang
            /\ f.stage = seen.stage /\ f.story = seen.story
        BY <4>1 DEF SeenFits, FileType
      <4>3. SameKind /\ FileFits'
        <5>1. file' = f
          BY <3>1, <4>2, WriteIs
        <5>2. SameKind /\ file'.stage = seen.stage /\ file'.story = seen.story
          BY <4>1, <4>2, <5>1 DEF SameKind, SeenFits
        <5> QED
          BY <2>0, <4>1, <5>2 DEF SeenFits, FileFits, SameKind, Script, Track, Scenario
      <4>4. OpFits(p)'
        BY <2>0, <2>8, <3>1, <4>2, <4>3, WriteIs DEF Cut, At, OpFits, In, Gate, SameKind
      <4> QED
        BY <3>1, <4>2, <4>3, <4>4, WriteFits
    <3> QED
      BY <2>8, <3>1, LeaveFits DEF Cut
  <2>9. CASE Advance(p)
    <3>1. ASSUME NEW pc \in {"approve", "idle"}, Write(p, Staged("scenes", "running"), pc) PROVE Fits'
      <4>1. Staged("scenes", "running") \in FileType
        BY <2>0, StagedIs DEF Stages, Statuses
      <4>2. SameKind /\ FileFits'
        BY <3>1, <4>1, WriteIs, StagedFits DEF Stages, Statuses
      <4>3. CASE pc = "idle"
        <5>1. OpFits(p)'
          BY <3>1, <4>1, <4>3, WriteIs, IdleFits
        <5> QED
          BY <3>1, <4>1, <4>2, <5>1, WriteFits
      <4>4. CASE pc = "approve"
        <5>1. OpFits(p)'
          BY <2>0, <2>9, <3>1, <4>1, <4>2, <4>4, WriteIs DEF Advance, At, OpFits, In, Gate, SameKind
        <5> QED
          BY <3>1, <4>1, <4>2, <5>1, WriteFits
      <4> QED
        BY <3>1, <4>3, <4>4
    <3> QED
      BY <2>9, <3>1, LeaveFits DEF Advance
  <2>10. CASE ApproveStage(p)
    <3>1. Gate(p) \in {"script", "track", "scenario"} /\ (Gate(p) = "scenario" => file.kind = "clip")
      BY <2>0, <2>10 DEF ApproveStage, At, OpFits, In
    <3>2. /\ Write(p, Staged(Gate(p), "approved"), "idle")
          /\ Staged(Gate(p), "approved") \in FileType
      BY <2>0, <2>10, <3>1, StagedIs DEF ApproveStage, Stages, Statuses, Gate
    <3>3. SameKind /\ FileFits'
      BY <3>1, <3>2, WriteIs, StagedFits DEF Stages, Statuses
    <3>4. OpFits(p)'
      BY <3>2, WriteIs, IdleFits
    <3> QED
      BY <3>2, <3>3, <3>4, WriteFits
  <2>11. CASE Generate(p) \/ Edit(p)
    <3>1. Look(p, "content", "scenario") /\ file.kind = "clip"
      BY <2>0, <2>11 DEF Generate, Edit, ScenarioOpen, Stage, FileFits, Scenario
    <3>2. SeenFits(op[p].seen)'
      BY <2>0, <3>1, LookIs DEF SeenFits, FileFits, Script, Track, Scenario
    <3>3. OpFits(p)'
      BY <2>0, <3>1, <3>2, LookIs DEF OpFits, In, Gate
    <3> QED
      BY <3>1, <3>3, LookFits
  <2>12. CASE Content(p)
    <3> DEFINE f == [file EXCEPT !.story = [n |-> op[p].id, of |-> op[p].seen.take]]
    <3>1. CASE Write(p, f, "open")
      <4>1. SeenFits(op[p].seen) /\ file.kind = "clip"
        BY <2>0, <2>12 DEF Content, At, OpFits, In
      <4>2. f \in FileType /\ f.kind = file.kind /\ f.import = file.import /\ f.sglang = file.sglang
            /\ f.stage = file.stage
        BY <2>0, <4>1 DEF SeenFits, FileType, StoryType, OpType
      <4>3. SameKind /\ FileFits'
        <5>1. file' = f
          BY <3>1, <4>2, WriteIs
        <5>2. SameKind /\ file'.stage = file.stage
          BY <4>2, <5>1 DEF SameKind
        <5> QED
          BY <2>0, <4>1, <5>2 DEF FileFits, SameKind, Script, Track, Scenario
      <4>4. OpFits(p)'
        BY <2>0, <2>12, <3>1, <4>2, <4>3, WriteIs DEF Content, At, OpFits, In, Gate, SameKind
      <4> QED
        BY <3>1, <4>2, <4>3, <4>4, WriteFits
    <3> QED
      BY <2>12, <3>1, LeaveFits DEF Content
  <2>13. CASE Open(p)
    <3>1. /\ Write(p, Staged("scenario", "awaiting_approval"), "idle")
          /\ Staged("scenario", "awaiting_approval") \in FileType /\ file.kind = "clip"
      BY <2>0, <2>13, StagedIs DEF Open, At, OpFits, In, Stages, Statuses
    <3>2. SameKind /\ FileFits'
      BY <3>1, WriteIs, StagedFits DEF Stages, Statuses
    <3>3. OpFits(p)'
      BY <3>1, WriteIs, IdleFits
    <3> QED
      BY <3>1, <3>2, <3>3, WriteFits
  <2>14. CASE RetryTrack(p)
    <3>1. OpFits(p)'
      BY <2>0, <2>14, LookIs DEF RetryTrack, OpFits, In, Gate
    <3> QED
      BY <2>14, <3>1, LookFits DEF RetryTrack
  <2>15. CASE CheckActive(p)
    <3>1. CASE ~Leave(p)
      <4>1. /\ op'[p].pc = "submit" /\ op'[p].gate = op[p].gate /\ op'[p].id = op[p].id
            /\ \A q \in Pages \ {p} : op'[q] = op[q]
            /\ UNCHANGED <<file, wpc, song>>
        BY <2>15, <3>1, <2>0 DEF CheckActive, Types, OpType
      <4>2. \A q \in Pages \ {p} : OpFits(q)'
        BY <4>1, OthersFit DEF SameKind
      <4>3. OpFits(p)'
        BY <2>0, <2>15, <4>1 DEF CheckActive, At, OpFits, In, Gate
      <4>4. FileFits' /\ SongFits'
        BY <4>1, <2>0 DEF Fits, FileFits, SongFits, Script, Track, Scenario
      <4> QED
        BY <4>2, <4>3, <4>4 DEF Fits
    <3> QED
      BY <3>1, LeaveFits
  <2>16. CASE Run(p)
    <3>1. /\ op'[p] = Idle /\ file' = Staged("track", "running") /\ UNCHANGED <<song, wpc>>
          /\ \A q \in Pages \ {p} :
               /\ op'[q].pc = op[q].pc /\ op'[q].gate = op[q].gate
               /\ op'[q].id = op[q].id /\ op'[q].seen = op[q].seen
      BY <2>16 DEF Run, Types, OpType
    <3>2. SameKind /\ FileFits'
      BY <3>1, StagedFits DEF Stages, Statuses
    <3>3. SongFits'
      BY <3>1 DEF Fits, SongFits
    <3>4. \A q \in Pages \ {p} : OpFits(q)'
      BY <3>1, <3>2, OthersFit
    <3> QED
      BY <3>1, <3>2, <3>3, <3>4, IdleFits DEF Fits
  <2> QED
    BY <1>5, <2>1, <2>2, <2>3, <2>4, <2>5, <2>6, <2>7, <2>8, <2>9, <2>10, <2>11, <2>12, <2>13,
       <2>14, <2>15, <2>16 DEF PageStep
<1>6. CASE UNCHANGED vars
  <2>1. \A q \in Pages : OpFits(q)'
    BY <1>6, OthersFit DEF vars, SameKind
  <2> QED
    BY <1>6, <2>1 DEF vars, Fits, FileFits, SongFits, Script, Track, Scenario
<1> QED
  BY <1>1, <1>4, <1>5, <1>6 DEF Next
-----------------------------------------------------------------------------
(* The scenes are those of the approved scenario                           *)

FedOps == \A p \in Pages : FedStale(p) /\ (Fresh(p) => FedFresh(p))

\* A project keeps its kind, and nothing that happened is forgotten.
LEMMA Monotone == Types /\ Fits /\ [Next]_vars => SameKind /\ blame \subseteq blame'
<1> SUFFICES ASSUME Types, Fits, [Next]_vars PROVE SameKind /\ blame \subseteq blame'
  OBVIOUS
<1>0. file \in FileType
  BY DEF Types
<1>1. CASE WorkerStep \/ WorkerDies \/ Cancel
  <2>1. CASE UNCHANGED file
    BY <1>1, <2>1 DEF WorkerStep, Claim, Sing, Tell, MarkTrackFailed, FileSong, WorkerWrites,
       WorkerDies, Cancel, SameKind
  <2>2. CASE Sing \/ Tell \/ MarkTrackFailed
    <3>1. SameKind
      BY <1>0, <2>2, StagedIs DEF Sing, Tell, MarkTrackFailed, WorkerWrites, SameKind, Stages,
         Statuses, FileType
    <3> QED
      BY <2>2, <3>1 DEF Sing, Tell, MarkTrackFailed, WorkerWrites
  <2> QED
    BY <1>1, <2>1, <2>2 DEF WorkerStep, Claim, FileSong, WorkerDies, Cancel
<1>2. ASSUME NEW p \in Pages, PageDies(p) PROVE SameKind /\ blame \subseteq blame'
  BY <1>2 DEF PageDies, SameKind
<1>3. ASSUME NEW p \in Pages, PageStep(p) PROVE SameKind /\ blame \subseteq blame'
  <2>0. op[p] \in OpType /\ OpFits(p)
    BY DEF Types, Fits
  <2>1. CASE UNCHANGED file
    BY <1>3, <2>1 DEF PageStep, ApproveScript, Measure, Measured, Submit, ApproveTrack, NoScenes,
       ApproveScenario, Cut, Advance, ApproveStage, Generate, Edit, Content, Open, RetryTrack,
       CheckActive, Run, Look, Leave, Write, SameKind
  <2>2. CASE Measure(p) \/ Measured(p) \/ NoScenes(p) \/ Advance(p) \/ Open(p) \/ Run(p)
    BY <1>0, <2>1, <2>2, StagedIs DEF Measure, Measured, NoScenes, Advance, Open, Run, Leave,
       Write, SameKind, Stages, Statuses, FileType
  <2>3. CASE ApproveStage(p)
    <3>1. op[p].gate \in Stages
      BY <2>0, <2>3 DEF ApproveStage, At, OpFits, In, Gate, Stages
    <3> QED
      BY <1>0, <2>3, <3>1, StagedIs DEF ApproveStage, Write, SameKind, Statuses
  <2>4. CASE Cut(p)
    <3>1. SeenFits(op[p].seen)
      BY <2>0, <2>4 DEF Cut, At, OpFits, In
    <3> QED
      BY <2>1, <2>4, <3>1 DEF Cut, Leave, Write, SameKind, SeenFits, FileType
  <2>5. CASE Content(p)
    BY <1>0, <2>1, <2>5 DEF Content, Leave, Write, SameKind, FileType
  <2> QED
    BY <1>3, <2>1, <2>2, <2>3, <2>4, <2>5 DEF PageStep, ApproveScript, Submit, ApproveTrack,
       ApproveScenario, Generate, Edit, RetryTrack, CheckActive, Look, Leave
<1>4. CASE UNCHANGED vars
  BY <1>4 DEF vars, SameKind
<1> QED
  BY <1>1, <1>2, <1>3, <1>4 DEF Next

\* What a write leaves of what is known of the other requests.
LEMMA OthersFed ==
  ASSUME Types, FedOps, NEW p \in Pages, NEW f \in FileType, NEW pc \in Places, Write(p, f, pc),
         SameKind,
         Script = "approved" => f.stage["script"] = "approved",
         file.import /\ file.take = Imported => f.take = Imported,
         NEW q \in Pages \ {p}
  PROVE  FedStale(q)' /\ (Fresh(q)' => FedFresh(q)')
<1>1. /\ op'[q].pc = op[q].pc /\ op'[q].gate = op[q].gate /\ op'[q].seen = op[q].seen
      /\ ~op'[q].stale => ~op[q].stale /\ (f = file \/ op[q].pc = "idle")
      /\ file' = f
  BY WriteIs
<1>2. FedStale(q) /\ (Fresh(q) => FedFresh(q))
  BY DEF FedOps
<1>3. FedStale(q)'
  BY <1>1, <1>2 DEF FedStale, In, Gate, Script, SameKind
<1>4. ASSUME Fresh(q)' PROVE FedFresh(q)'
  <2>1. CASE op[q].pc = "idle"
    BY <1>1, <2>1 DEF FedFresh, In
  <2>2. CASE f = file
    <3>1. FedFresh(q) /\ UNCHANGED file
      BY <1>1, <1>2, <1>4, <2>2 DEF Fresh
    <3> QED
      BY <1>1, <3>1 DEF FedFresh, In, Gate, Script, Track, Scenario, CutAsIs
  <2> QED
    BY <1>1, <1>4, <2>1, <2>2 DEF Fresh
<1> QED
  BY <1>3, <1>4

\* A step that writes no file leaves what is known of the requests it leaves.
LEMMA RestFed ==
  ASSUME FedOps, UNCHANGED file, NEW q \in Pages, op'[q] = op[q]
  PROVE  FedStale(q)' /\ (Fresh(q)' => FedFresh(q)')
<1>1. FedStale(q) /\ (Fresh(q) => FedFresh(q))
  BY DEF FedOps
<1> QED
  BY <1>1 DEF FedStale, FedFresh, Fresh, In, Gate, Script, Track, Scenario, CutAsIs

\* Nobody relies on anything.
LEMMA IdleFed == ASSUME NEW p \in Pages, op'[p] = Idle PROVE FedStale(p)' /\ FedFresh(p)'
BY DEF Idle, FedStale, FedFresh, In

\* A request that has only looked, or leaves, disturbs nothing but itself.
LEMMA LookFed ==
  ASSUME Types, FedFile, FedOps, NEW p \in Pages, NEW pc, NEW gate, Look(p, pc, gate),
         FedStale(p)', FedFresh(p)'
  PROVE  FedFile' /\ FedOps'
<1>1. \A q \in Pages \ {p} : FedStale(q)' /\ (Fresh(q)' => FedFresh(q)')
  BY LookIs, RestFed
<1>2. FedFile'
  BY LookIs DEF FedFile, Script, Track, Scenario, CutAsIs
<1> QED
  BY <1>1, <1>2 DEF FedOps

\* A request that ends disturbs nobody.
LEMMA LeaveFed ==
  ASSUME Types, FedFile, FedOps, NEW p \in Pages, Leave(p)
  PROVE  FedFile' /\ FedOps'
<1>1. \A q \in Pages \ {p} : FedStale(q)' /\ (Fresh(q)' => FedFresh(q)')
  BY LeaveIs, RestFed
<1>2. FedFile'
  BY LeaveIs DEF FedFile, Script, Track, Scenario, CutAsIs
<1> QED
  BY <1>1, <1>2, LeaveIs, IdleFed DEF FedOps

\* The worker writes the take and the track while the track is not approved, and then
\* no scenario is open and no request has seen one.
LEMMA WorkerFed ==
  ASSUME Types, Fits, FedFile, FedOps, file.kind = "clip", WorkerStep \/ WorkerDies \/ Cancel,
         Clean'
  PROVE  FedFile' /\ FedOps'
<1>0. /\ file \in FileType /\ song \in SongType /\ SongFits /\ FileFits
      /\ NoSong.state = "none"
  BY DEF Types, Fits, NoSong
<1>1. UNCHANGED op
  BY DEF WorkerStep, Claim, Sing, Tell, MarkTrackFailed, FileSong, WorkerWrites, WorkerDies, Cancel
<1>2. CASE Claim \/ FileSong \/ WorkerDies \/ Cancel
  <2>0. UNCHANGED file
    BY <1>2 DEF Claim, FileSong, WorkerDies, Cancel
  <2>1. FedOps'
    BY <1>1, <2>0, RestFed DEF FedOps
  <2>2. /\ song' # NoSong => song # NoSong
        /\ song # NoSong /\ wpc = "file" /\ wpc' # "file" => song' = NoSong
        /\ wpc' = "tell" => wpc = "tell"
    <3>1. CASE Claim
      BY <1>0, <3>1 DEF Claim, SongFits
    <3>3. CASE FileSong
      BY <3>3 DEF FileSong
    <3>4. CASE WorkerDies
      BY <1>0, <3>4 DEF WorkerDies, SongFits, Clean, Overtaken
    <3>5. CASE Cancel
      BY <1>0, <3>5 DEF Cancel, SongFits
    <3> QED
      BY <1>2, <3>1, <3>3, <3>4, <3>5
  <2> QED
    BY <2>0, <2>1, <2>2 DEF FedFile, Script, Track, Scenario, CutAsIs
<1>3. CASE Sing \/ Tell \/ MarkTrackFailed
  <2>1. song # NoSong /\ wpc # "file" /\ UNCHANGED song
    BY <1>0, <1>3 DEF Sing, Tell, MarkTrackFailed, WorkerWrites, SongFits
  <2>2. Track # "approved" /\ Scenario = "draft"
    BY <2>1 DEF FedFile
  <2>3. /\ SameKind /\ Scenario' = Scenario /\ Script' = Script /\ Track' # "approved"
        /\ file.import => file'.take \in {Null, Imported}
        /\ file.import /\ file.take = Imported => file'.take = Imported
        /\ file.import /\ (Track' = "awaiting_approval" \/ wpc' = "tell") => file'.take = Imported
    <3>1. CASE Sing
      BY <1>0, <2>2, <3>1 DEF Sing, WorkerWrites, FileType, SameKind, Script, Track, Scenario, FedFile
    <3>2. CASE Tell
      BY <1>0, <3>2, StagedIs DEF Tell, WorkerWrites, SameKind, Script, Track, Scenario, Stages,
         Statuses, FedFile
    <3>3. CASE MarkTrackFailed
      BY <1>0, <3>3, StagedIs DEF MarkTrackFailed, WorkerWrites, SameKind, Script, Track, Scenario,
         Stages, Statuses, FedFile
    <3> QED
      BY <1>3, <3>1, <3>2, <3>3
  <2>4. FedFile'
    BY <2>1, <2>2, <2>3 DEF FedFile, SameKind
  <2>5. ASSUME NEW q \in Pages PROVE FedStale(q)' /\ (Fresh(q)' => FedFresh(q)')
    <3>1. FedStale(q) /\ (Fresh(q) => FedFresh(q))
      BY DEF FedOps
    <3>2. FedStale(q)'
      BY <1>1, <2>3, <3>1 DEF FedStale, In, Gate, SameKind
    <3>3. Fresh(q) => FedFresh(q)'
      BY <1>1, <2>2, <2>3, <3>1 DEF FedFresh, In, Gate
    <3> QED
      BY <1>1, <3>2, <3>3 DEF Fresh
  <2> QED
    BY <2>4, <2>5 DEF FedOps
<1> QED
  BY <1>2, <1>3 DEF WorkerStep

\* A step of a request keeps what the others rely on, or is blamed for it.
LEMMA PageFed ==
  ASSUME Types, Fits, FedFile, FedOps, file.kind = "clip", SameKind, Clean',
         NEW p \in Pages, PageStep(p)
  PROVE  FedFile' /\ FedOps'
<1> USE DEF Places
<1>0. /\ op[p] \in OpType /\ OpFits(p) /\ file \in FileType
      /\ FedStale(p) /\ (Fresh(p) => FedFresh(p))
      /\ "raced" \notin blame' /\ "again" \notin blame'
  BY DEF Types, Fits, FedOps, Clean, Overtaken
\* Who writes and is not blamed has seen what there is.
<1>a. ASSUME NEW f \in FileType, NEW pc \in Places, Write(p, f, pc) PROVE Fresh(p) /\ FedFresh(p)
  <2>1. Fresh(p)
    BY <1>0, <1>a, WriteIs DEF Fresh
  <2> QED
    BY <1>0, <2>1
<1>1. CASE ApproveScript(p)
  <2>1. PICK pc \in {"measure", "submit"} : Look(p, pc, "script") /\ Script = "awaiting_approval"
    BY <1>1 DEF ApproveScript, Stage, Script
  <2>2. FedStale(p)' /\ FedFresh(p)'
    BY <2>1, LookIs DEF FedStale, FedFresh, In, Gate, Script
  <2> QED
    BY <2>1, <2>2, LookFed
<1>2. CASE Measure(p)
  <2> DEFINE f == [file EXCEPT !.take = Imported]
  <2>1. CASE Write(p, f, "measured")
    <3>1. /\ f \in FileType /\ f.stage = file.stage /\ f.story = file.story /\ f.cut = file.cut
          /\ f.take = Imported
      BY <1>0 DEF FileType, TakeIds, Imported
    <3> HIDE DEF f
    <3>2. file' = f /\ UNCHANGED <<song, wpc>>
      BY <2>1 DEF Write
    <3>3. file.import /\ Gate(p) = "script" /\ Script = "awaiting_approval"
      BY <1>0, <1>2, <1>a, <2>1, <3>1 DEF Measure, At, OpFits, FedFresh, In
    <3>4. FedFile'
      BY <3>1, <3>2, <3>3 DEF FedFile, Script, Track, Scenario, CutAsIs, SameKind
    <3>5. \A q \in Pages \ {p} : FedStale(q)' /\ (Fresh(q)' => FedFresh(q)')
      BY <2>1, <3>1, OthersFed DEF Script
    <3>6. FedStale(p)' /\ FedFresh(p)'
      BY <2>1, <3>1, <3>2, <3>3, WriteIs DEF FedStale, FedFresh, In, Gate, Script
    <3> QED
      BY <3>4, <3>5, <3>6 DEF FedOps
  <2> QED
    BY <1>2, <2>1, LeaveFed DEF Measure
<1>3. CASE Measured(p)
  <2> DEFINE f == Staged("track", "approved")
  <2>1. Write(p, f, "approve")
    BY <1>3 DEF Measured
  <2>2. /\ f \in FileType /\ f.story = file.story /\ f.cut = file.cut /\ f.take = file.take
        /\ f.stage["script"] = Script /\ f.stage["scenario"] = Scenario
        /\ f.stage["track"] = "approved"
    BY <1>0, StagedIs DEF Stages, Statuses, Script, Scenario
  <2> HIDE DEF f
  <2>3. file' = f /\ UNCHANGED <<song, wpc>>
    BY <2>1 DEF Write
  <2>4. /\ file.import /\ file.sglang /\ Gate(p) = "script" /\ Script = "awaiting_approval"
        /\ file.take = Imported
    BY <1>0, <1>3, <1>a, <2>1, <2>2 DEF Measured, At, OpFits, FedStale, FedFresh, In
  <2>5. FedFile'
    BY <2>2, <2>3, <2>4 DEF FedFile, Script, Track, Scenario, CutAsIs, SameKind
  <2>6. \A q \in Pages \ {p} : FedStale(q)' /\ (Fresh(q)' => FedFresh(q)')
    BY <2>1, <2>2, OthersFed DEF Script
  <2>7. FedStale(p)' /\ FedFresh(p)'
    BY <2>1, <2>2, <2>3, <2>4, WriteIs DEF FedStale, FedFresh, In, Gate, Script
  <2> QED
    BY <2>5, <2>6, <2>7 DEF FedOps
<1>4. CASE Submit(p)
  <2>1. CASE ~Leave(p)
    <3>1. /\ op'[p].pc = IF Gate(p) = "retry" THEN "run" ELSE "approve"
          /\ op'[p].gate = op[p].gate /\ op'[p].stale = op[p].stale
          /\ \A q \in Pages \ {p} : op'[q] = op[q]
          /\ UNCHANGED <<file, wpc>>
      BY <1>0, <1>4, <2>1 DEF Submit, Types, OpType, Gate
    <3>2. /\ op[p].pc = "submit" /\ Fresh(p)
          /\ Gate(p) = "script" => Track = "draft"
      BY <1>0, <1>4, <2>1 DEF Submit, At, Fresh, Gate, Stage, Track
    <3>3. /\ Track # "approved"
          /\ file.import /\ file.sglang => Script = "approved"
      BY <1>0, <3>2 DEF OpFits, FedStale, FedFresh, In
    <3>4. FedFile'
      BY <3>1, <3>3 DEF FedFile, Script, Track, Scenario, CutAsIs
    <3>5. \A q \in Pages \ {p} : FedStale(q)' /\ (Fresh(q)' => FedFresh(q)')
      BY <3>1, RestFed
    <3>6. FedStale(p)' /\ FedFresh(p)'
      BY <1>0, <3>1, <3>2 DEF FedStale, FedFresh, OpFits, In, Gate, Script, Track
    <3> QED
      BY <3>4, <3>5, <3>6 DEF FedOps
  <2> QED
    BY <2>1, LeaveFed
<1>5. CASE ApproveTrack(p)
  <2>1. Scenario # "approved"
    BY <1>5 DEF ApproveTrack, Stage, FedFile, Track
  <2>2. Look(p, "approve", "track")
    <3> DEFINE c == CASE file.kind = "song" -> "noScenes"
                      [] /\ file.kind # "song"
                         /\ Stage("scenario") = "approved" /\ file.story = NoStory -> "cut"
                      [] OTHER -> "approve"
    <3>1. c = "approve"
      BY <2>1 DEF Stage, Scenario
    <3>2. Look(p, c, "track")
      BY <1>5 DEF ApproveTrack
    <3> HIDE DEF c
    <3> QED
      BY <3>1, <3>2
  <2>3. FedStale(p)' /\ FedFresh(p)'
    BY <1>5, <2>2, LookIs DEF ApproveTrack, Stage, FedFile, FedStale, FedFresh, In, Gate, Track
  <2> QED
    BY <2>2, <2>3, LookFed
<1>6. CASE NoScenes(p)
  BY <1>0, <1>6 DEF NoScenes, At, OpFits, In
<1>7. CASE ApproveScenario(p)
  <2>1. FedStale(p)' /\ FedFresh(p)'
    BY <1>7, LookIs DEF ApproveScenario, Stage, FedStale, FedFresh, In, Gate, Scenario
  <2> QED
    BY <1>7, <2>1, LookFed DEF ApproveScenario
<1>8. CASE Cut(p)
  <2> DEFINE seen == op[p].seen
             f == [seen EXCEPT !.cut = [story |-> seen.story, take |-> seen.take]]
  <2>1. CASE Write(p, f, "advance")
    <3>0. seen \in FileType
      BY <1>0, <1>8 DEF Cut, At, OpFits, In, SeenFits
    <3>1. /\ f \in FileType /\ f.stage = seen.stage /\ f.story = seen.story /\ f.take = seen.take
          /\ f.cut = [story |-> seen.story, take |-> seen.take]
      BY <3>0 DEF FileType
    <3> HIDE DEF f
    <3>2. file' = f /\ UNCHANGED <<song, wpc>>
      BY <2>1 DEF Write
    <3>3. seen = file /\ Gate(p) = "scenario" /\ Scenario = "awaiting_approval"
      BY <1>8, <1>a, <2>1, <3>1 DEF Cut, At, FedFresh, In
    <3> HIDE DEF seen
    <3>4. FedFile'
      BY <3>1, <3>2, <3>3 DEF FedFile, Script, Track, Scenario, CutAsIs, SameKind
    <3>5. \A q \in Pages \ {p} : FedStale(q)' /\ (Fresh(q)' => FedFresh(q)')
      BY <2>1, <3>1, <3>3, OthersFed DEF Script
    <3>6. FedStale(p)' /\ FedFresh(p)'
      BY <2>1, <3>1, <3>2, <3>3, WriteIs DEF FedStale, FedFresh, In, Gate, Scenario, CutAsIs
    <3> QED
      BY <3>4, <3>5, <3>6 DEF FedOps
  <2> QED
    BY <1>8, <2>1, LeaveFed DEF Cut
<1>9. CASE Advance(p)
  <2>1. ASSUME NEW pc \in {"approve", "idle"}, Write(p, Staged("scenes", "running"), pc)
        PROVE  FedFile' /\ FedOps'
    <3> DEFINE f == Staged("scenes", "running")
    <3>1. /\ f \in FileType /\ f.story = file.story /\ f.cut = file.cut /\ f.take = file.take
          /\ f.stage["script"] = Script /\ f.stage["scenario"] = Scenario
          /\ f.stage["track"] = Track
      BY <1>0, StagedIs DEF Stages, Statuses, Script, Scenario, Track
    <3>0. Write(p, f, pc)
      BY <2>1
    <3> HIDE DEF f
    <3>2. file' = f /\ UNCHANGED <<song, wpc>>
      BY <3>0 DEF Write
    <3>3. Gate(p) = "scenario" /\ Scenario = "awaiting_approval" /\ CutAsIs
      BY <1>9, <1>a, <3>0, <3>1 DEF Advance, At, FedFresh, In
    <3>4. FedFile'
      BY <3>1, <3>2, <3>3 DEF FedFile, Script, Track, Scenario, CutAsIs, SameKind
    <3>5. \A q \in Pages \ {p} : FedStale(q)' /\ (Fresh(q)' => FedFresh(q)')
      BY <3>0, <3>1, <3>3, OthersFed DEF Script
    <3>6. FedStale(p)' /\ FedFresh(p)'
      <4>1. CASE pc = "idle"
        BY <3>0, <3>1, <4>1, WriteIs, IdleFed
      <4>2. CASE pc = "approve"
        BY <3>0, <3>1, <3>2, <3>3, <4>2, WriteIs DEF FedStale, FedFresh, In, Gate, Scenario, CutAsIs
      <4> QED
        BY <4>1, <4>2
    <3> QED
      BY <3>4, <3>5, <3>6 DEF FedOps
  <2> QED
    BY <1>9, <2>1, LeaveFed DEF Advance
<1>10. CASE ApproveStage(p)
  <2>0. Gate(p) \in {"script", "track", "scenario"}
    BY <1>0, <1>10 DEF ApproveStage, At, OpFits, In
  <2> DEFINE f == Staged(Gate(p), "approved")
  <2>1. Write(p, f, "idle")
    BY <1>10 DEF ApproveStage, Gate
  <2>2. /\ f \in FileType /\ f.story = file.story /\ f.cut = file.cut /\ f.take = file.take
        /\ \A r \in {"script", "track", "scenario"} :
             f.stage[r] = IF r = Gate(p) THEN "approved" ELSE file.stage[r]
    BY <1>0, <2>0, StagedIs DEF Stages, Statuses
  <2> HIDE DEF f
  <2>3. file' = f /\ UNCHANGED <<song, wpc>>
    BY <2>1 DEF Write
  <2>4. FedStale(p) /\ FedFresh(p) /\ op[p].pc = "approve"
    BY <1>0, <1>10, <1>a, <2>1, <2>2 DEF ApproveStage, At
  <2>5. Gate(p) = "track" => song = NoSong \/ wpc = "file"
    BY <1>0, <1>10, <2>1 DEF ApproveStage, Write, Unheard, Gate
  <2>6. FedFile'
    <3>1. CASE Gate(p) = "script"
      BY <2>2, <2>3, <3>1 DEF FedFile, Script, Track, Scenario, CutAsIs, SameKind
    <3>2. CASE Gate(p) = "track"
      BY <2>2, <2>3, <2>4, <2>5, <3>2 DEF FedFile, FedStale, In, Script, Track, Scenario, CutAsIs, SameKind
    <3>3. CASE Gate(p) = "scenario"
      BY <2>2, <2>3, <2>4, <3>3 DEF FedFile, FedFresh, In, Script, Track, Scenario, CutAsIs, SameKind
    <3> QED
      BY <2>0, <3>1, <3>2, <3>3
  <2>7. \A q \in Pages \ {p} : FedStale(q)' /\ (Fresh(q)' => FedFresh(q)')
    BY <2>1, <2>2, OthersFed DEF Script
  <2> QED
    BY <2>1, <2>2, <2>6, <2>7, WriteIs, IdleFed DEF FedOps
<1>11. CASE Generate(p) \/ Edit(p)
  <2>1. /\ Look(p, "content", "scenario") /\ Track = "approved"
        /\ Scenario \in {"draft", "awaiting_approval"}
    BY <1>11 DEF Generate, Edit, ScenarioOpen, Stage, Track, Scenario
  <2>2. FedStale(p)' /\ FedFresh(p)'
    BY <2>1, LookIs DEF FedStale, FedFresh, In, Gate, Track, Scenario
  <2> QED
    BY <2>1, <2>2, LookFed
<1>12. CASE Content(p)
  <2> DEFINE f == [file EXCEPT !.story = [n |-> op[p].id, of |-> op[p].seen.take]]
  <2>1. CASE Write(p, f, "open")
    <3>0. op[p].seen.take \in TakeIds
      BY <1>0, <1>12 DEF Content, At, OpFits, In, SeenFits, FileType
    <3>1. /\ f \in FileType /\ f.stage = file.stage /\ f.cut = file.cut /\ f.take = file.take
          /\ f.story.of = op[p].seen.take
      BY <1>0, <3>0 DEF FileType, StoryType, OpType
    <3> HIDE DEF f
    <3>2. file' = f /\ UNCHANGED <<song, wpc>>
      BY <2>1 DEF Write
    <3>3. op[p].seen = file /\ Track = "approved" /\ Scenario \in {"draft", "awaiting_approval"}
      BY <1>12, <1>a, <2>1, <3>1 DEF Content, At, FedFresh, In
    <3>4. FedFile'
      BY <3>1, <3>2, <3>3 DEF FedFile, Script, Track, Scenario, SameKind
    <3>5. \A q \in Pages \ {p} : FedStale(q)' /\ (Fresh(q)' => FedFresh(q)')
      BY <2>1, <3>1, OthersFed DEF Script
    <3>6. FedStale(p)' /\ FedFresh(p)'
      BY <2>1, <3>1, <3>2, <3>3, WriteIs DEF FedStale, FedFresh, In, Track, Scenario
    <3> QED
      BY <3>4, <3>5, <3>6 DEF FedOps
  <2> QED
    BY <1>12, <2>1, LeaveFed DEF Content
<1>13. CASE Open(p)
  <2> DEFINE f == Staged("scenario", "awaiting_approval")
  <2>1. Write(p, f, "idle")
    BY <1>13 DEF Open
  <2>2. /\ f \in FileType /\ f.story = file.story /\ f.cut = file.cut /\ f.take = file.take
        /\ f.stage["script"] = Script /\ f.stage["scenario"] = "awaiting_approval"
        /\ f.stage["track"] = Track
    BY <1>0, StagedIs DEF Stages, Statuses, Script, Track
  <2> HIDE DEF f
  <2>3. file' = f /\ UNCHANGED <<song, wpc>>
    BY <2>1 DEF Write
  <2>4. Track = "approved" /\ file.story.of = file.take
    BY <1>13, <1>a, <2>1, <2>2 DEF Open, At, FedFresh, In
  <2>5. FedFile'
    BY <2>2, <2>3, <2>4 DEF FedFile, Script, Track, Scenario, CutAsIs, SameKind
  <2>6. \A q \in Pages \ {p} : FedStale(q)' /\ (Fresh(q)' => FedFresh(q)')
    BY <2>1, <2>2, OthersFed DEF Script
  <2> QED
    BY <2>1, <2>2, <2>5, <2>6, WriteIs, IdleFed DEF FedOps
<1>14. CASE RetryTrack(p)
  <2>1. Look(p, "active", "retry") /\ Script = "approved" /\ Track # "approved"
    BY <1>14 DEF RetryTrack, Retriable, Stage, Script, Track
  <2>2. FedStale(p)' /\ FedFresh(p)'
    BY <2>1, LookIs DEF FedStale, FedFresh, In, Gate, Script, Track
  <2> QED
    BY <2>1, <2>2, LookFed
<1>15. CASE CheckActive(p)
  <2>1. CASE ~Leave(p)
    <3>1. /\ op'[p].pc = "submit" /\ op'[p].gate = op[p].gate /\ op'[p].stale = op[p].stale
          /\ op[p].pc = "active"
          /\ \A q \in Pages \ {p} : op'[q] = op[q]
          /\ UNCHANGED <<file, wpc, song>>
      BY <1>0, <1>15, <2>1 DEF CheckActive, At, Types, OpType
    <3>2. FedFile'
      BY <3>1 DEF FedFile, Script, Track, Scenario, CutAsIs
    <3>3. \A q \in Pages \ {p} : FedStale(q)' /\ (Fresh(q)' => FedFresh(q)')
      BY <3>1, RestFed
    <3>4. FedStale(p)' /\ (Fresh(p)' => FedFresh(p)')
      BY <1>0, <3>1 DEF FedStale, FedFresh, Fresh, OpFits, In, Gate, Script, Track
    <3> QED
      BY <3>2, <3>3, <3>4 DEF FedOps
  <2> QED
    BY <2>1, LeaveFed
<1>16. CASE Run(p)
  <2>1. /\ op[p].pc = "run" /\ Fresh(p) /\ op'[p] = Idle
        /\ file' = Staged("track", "running") /\ UNCHANGED <<song, wpc>>
        /\ \A q \in Pages \ {p} :
             /\ op'[q].pc = op[q].pc /\ op'[q].gate = op[q].gate
             /\ op[q].pc # "idle" => op'[q].stale
    BY <1>0, <1>16 DEF Run, At, Fresh, Types, OpType
  <2>2. /\ file'.story = file.story /\ file'.cut = file.cut /\ file'.take = file.take
        /\ Script' = Script /\ Scenario' = Scenario /\ Track' = "running"
    BY <1>0, <2>1, StagedIs DEF Stages, Statuses, Script, Scenario, Track
  <2>3. Scenario = "draft"
    BY <1>0, <2>1 DEF OpFits, FedFresh, FedFile, In
  <2>4. FedFile'
    BY <2>1, <2>2, <2>3 DEF FedFile, SameKind
  <2>5. ASSUME NEW q \in Pages \ {p} PROVE FedStale(q)' /\ (Fresh(q)' => FedFresh(q)')
    <3>1. FedStale(q)
      BY <2>5 DEF FedOps
    <3>0. /\ op'[q].pc = op[q].pc /\ op'[q].gate = op[q].gate
          /\ op[q].pc # "idle" => op'[q].stale
      BY <2>1, <2>5
    <3>2. FedStale(q)'
      BY <2>2, <3>0, <3>1 DEF FedStale, In, Gate, SameKind
    <3>3. Fresh(q)' => FedFresh(q)'
      BY <3>0 DEF Fresh, FedFresh, In
    <3> QED
      BY <3>2, <3>3
  <2> QED
    BY <2>1, <2>4, <2>5, IdleFed DEF FedOps
<1> QED
  BY <1>1, <1>2, <1>3, <1>4, <1>5, <1>6, <1>7, <1>8, <1>9, <1>10, <1>11, <1>12, <1>13, <1>14,
     <1>15, <1>16 DEF PageStep

\* Every step keeps Fed, or is blamed for it.
LEMMA StepFed == Types /\ Fits /\ Fed /\ [Next]_vars => Fed'
<1> SUFFICES ASSUME Types, Fits, Fed, [Next]_vars, Clean' PROVE FedFile' /\ FedOps'
  BY DEF Fed, FedOps
<1>1. SameKind /\ blame \subseteq blame'
  BY Monotone
<1>2. Clean
  BY <1>1 DEF Clean, SameKind
<1>3. FedFile /\ FedOps /\ file.kind = "clip"
  BY <1>2 DEF Fed, FedOps, Clean
<1>4. CASE WorkerStep \/ WorkerDies \/ Cancel
  BY <1>3, <1>4, WorkerFed
<1>5. ASSUME NEW p \in Pages, PageStep(p) PROVE FedFile' /\ FedOps'
  BY <1>1, <1>3, <1>5, PageFed
<1>6. ASSUME NEW p \in Pages, PageDies(p) PROVE FedFile' /\ FedOps'
  <2>1. /\ op'[p] = Idle /\ \A q \in Pages \ {p} : op'[q] = op[q]
        /\ UNCHANGED <<file, song, wpc>>
    BY <1>6 DEF PageDies, Types
  <2>2. FedFile'
    BY <1>3, <2>1 DEF FedFile, Script, Track, Scenario, CutAsIs
  <2>3. \A q \in Pages \ {p} : FedStale(q)' /\ (Fresh(q)' => FedFresh(q)')
    BY <1>3, <2>1, RestFed
  <2> QED
    BY <2>1, <2>2, <2>3, IdleFed DEF FedOps
<1>7. CASE UNCHANGED vars
  <2>1. FedFile'
    BY <1>3, <1>7 DEF vars, FedFile, Script, Track, Scenario, CutAsIs
  <2>2. FedOps'
    BY <1>3, <1>7, RestFed DEF vars, FedOps
  <2> QED
    BY <2>1, <2>2
<1> QED
  BY <1>4, <1>5, <1>6, <1>7 DEF Next

-----------------------------------------------------------------------------
(* Some button leads on                                                    *)

Excused == blame \cap {"withdrawn", "outran", "saved"} # {}
LedOps  == \A p \in Pages : LedOp(p)

\* Nobody's place to approve a stage from is taken but by p, and the scenes go on.
LEMMA RestLed ==
  ASSUME LedOps, SameKind, Under => Under', NEW q \in Pages,
         op'[q].pc = op[q].pc, op'[q].gate = op[q].gate
  PROVE  LedOp(q)'
<1>1. LedOp(q)
  BY DEF LedOps
<1> QED
  BY <1>1 DEF LedOp, In, Gate, SameKind

\* The worker: a stage that runs keeps its song, or the song that goes is told of.
LEMMA WorkerLed ==
  ASSUME Types, Fits, LedFile, LedOps, WorkerStep \/ WorkerDies \/ Cancel, ~Excused', SameKind
  PROVE  LedFile' /\ LedOps'
<1>0. file \in FileType /\ song \in SongType /\ SongFits /\ NoSong.state = "none"
  BY DEF Types, Fits, NoSong
<1>1. UNCHANGED op
  BY DEF WorkerStep, Claim, Sing, Tell, MarkTrackFailed, FileSong, WorkerWrites, WorkerDies, Cancel
<1>2. CASE Claim \/ FileSong \/ WorkerDies \/ Cancel
  <2>0. UNCHANGED file
    BY <1>2 DEF Claim, FileSong, WorkerDies, Cancel
  <2>1. Track = "running" => song' # NoSong /\ wpc' # "file"
    <3>1. CASE Claim
      <4>1. [song EXCEPT !.state = "running"] # NoSong
        BY <1>0 DEF SongType, NoSong
      <4> QED
        BY <3>1, <4>1 DEF Claim
    <3>2. CASE FileSong
      BY <3>2 DEF FileSong, LedFile
    <3>3. CASE WorkerDies
      <4>1. song' = NoSong /\ Track = "running" /\ wpc # "file" => "withdrawn" \in blame'
        BY <3>3 DEF WorkerDies, Strands, Stage, Track
      <4> QED
        BY <3>3, <4>1 DEF WorkerDies, LedFile, Excused
    <3>4. CASE Cancel
      <4>1. song.state = "running" => [song EXCEPT !.cancel = TRUE] # NoSong
        BY <1>0 DEF SongType, NoSong
      <4>2. song' = NoSong /\ Track = "running" => "withdrawn" \in blame'
        BY <3>4, <4>1 DEF Cancel, Strands, Stage, Track
      <4> QED
        BY <3>4, <4>2 DEF Cancel, LedFile, Excused
    <3> QED
      BY <1>2, <3>1, <3>2, <3>3, <3>4
  <2>2. LedFile'
    BY <2>0, <2>1 DEF LedFile, Under, Track, Scenario, Scenes
  <2>3. LedOps'
    BY <1>1, <2>0, RestLed DEF LedOps, Under, Scenes
  <2> QED
    BY <2>2, <2>3
<1>3. CASE Sing \/ Tell \/ MarkTrackFailed
  <2>0. song # NoSong /\ UNCHANGED song
    BY <1>0, <1>3 DEF Sing, Tell, MarkTrackFailed, WorkerWrites, SongFits
  <2>1. /\ Scenario' = Scenario /\ Scenes' = Scenes
        /\ (Track' = Track /\ wpc' # "file") \/ Track' \in {"awaiting_approval", "failed"}
    <3>1. CASE Sing
      BY <1>0, <3>1 DEF Sing, WorkerWrites, FileType, Track, Scenario, Scenes
    <3>2. CASE Tell
      BY <1>0, <3>2, StagedIs DEF Tell, WorkerWrites, Track, Scenario, Scenes, Stages, Statuses
    <3>3. CASE MarkTrackFailed
      BY <1>0, <3>3, StagedIs DEF MarkTrackFailed, WorkerWrites, Track, Scenario, Scenes, Stages,
         Statuses
    <3> QED
      BY <1>3, <3>1, <3>2, <3>3
  <2>2. LedFile'
    BY <2>0, <2>1 DEF LedFile, Under, SameKind
  <2>3. LedOps'
    BY <1>1, <2>1, RestLed DEF LedOps, Under
  <2> QED
    BY <2>2, <2>3
<1> QED
  BY <1>2, <1>3 DEF WorkerStep

\* A step of a request leaves nothing running or approved alone, or is blamed for it.
LEMMA PageLed ==
  ASSUME Types, Fits, ~Skipped, LedFile, LedOps, SameKind, ~Excused', NEW p \in Pages, PageStep(p)
  PROVE  LedFile' /\ LedOps'
<1> USE DEF Places
<1>0. op[p] \in OpType /\ OpFits(p) /\ file \in FileType /\ FileFits /\ LedOp(p)
  BY DEF Types, Fits, LedOps
\* A step that writes no file and takes nobody to an approval.
<1>a. ASSUME UNCHANGED <<file, wpc>>, song' = song \/ song = NoSong,
             \A q \in Pages \ {p} : op'[q] = op[q], LedOp(p)'
      PROVE  LedFile' /\ LedOps'
  <2>1. LedFile'
    BY <1>a DEF LedFile, Under, Track, Scenario, Scenes
  <2>2. \A q \in Pages \ {p} : LedOp(q)'
    BY <1>a, RestLed DEF Under, Scenes
  <2> QED
    BY <1>a, <2>1, <2>2 DEF LedOps
<1>b. Leave(p) => LedFile' /\ LedOps'
  BY <1>a, LeaveIs DEF LedOp, In, Idle
<1>c. ASSUME NEW pc, NEW gate, Look(p, pc, gate), pc = "approve" /\ gate = "track" => file.kind = "clip",
             gate # "scenario" \/ pc # "approve"
      PROVE  LedFile' /\ LedOps'
  <2>1. LedOp(p)'
    BY <1>c, LookIs DEF LedOp, In, Gate
  <2> QED
    BY <1>a, <1>c, <2>1, LookIs
\* A write of this request.
<1>d. ASSUME NEW f \in FileType, NEW pc \in Places, Write(p, f, pc), Under => Under', LedOp(p)'
      PROVE  LedOps' /\ UNCHANGED <<song, wpc>> /\ file' = f
  <2>1. \A q \in Pages \ {p} : LedOp(q)'
    BY <1>d, RestLed, WriteIs
  <2> QED
    BY <1>d, <2>1 DEF LedOps, Write
<1>1. CASE ApproveScript(p)
  BY <1>1, <1>c DEF ApproveScript
<1>2. CASE Measure(p)
  <2> DEFINE f == [file EXCEPT !.take = Imported]
  <2>1. CASE Write(p, f, "measured")
    <3>1. f \in FileType /\ f.stage = file.stage
      BY <1>0 DEF FileType, TakeIds, Imported
    <3> HIDE DEF f
    <3>2. file' = f /\ op'[p].pc = "measured"
      BY <2>1, <3>1, WriteIs
    <3>3. (Under => Under') /\ LedOp(p)'
      BY <3>1, <3>2 DEF Under, Scenes, LedOp, In
    <3>4. LedOps' /\ UNCHANGED <<song, wpc>>
      BY <1>d, <2>1, <3>1, <3>3
    <3> QED
      BY <3>1, <3>2, <3>4 DEF LedFile, Under, Track, Scenario, Scenes, SameKind
  <2> QED
    BY <1>2, <1>b, <2>1 DEF Measure
<1>3. CASE Measured(p)
  <2> DEFINE f == Staged("track", "approved")
  <2>1. Write(p, f, "approve")
    BY <1>3 DEF Measured
  <2>2. /\ f \in FileType /\ f.stage["scenario"] = Scenario /\ f.stage["scenes"] = Scenes
        /\ f.stage["track"] = "approved"
    BY <1>0, StagedIs DEF Stages, Statuses, Scenario, Scenes
  <2> HIDE DEF f
  <2>3. file' = f /\ op'[p].pc = "approve" /\ op'[p].gate = op[p].gate
    BY <2>1, <2>2, WriteIs
  <2>4. file.import /\ file.sglang /\ Gate(p) = "script" /\ file.kind = "clip"
    BY <1>0, <1>3 DEF Measured, At, OpFits, In, Skipped, FileFits, FileType, Kinds
  <2>5. (Under => Under') /\ LedOp(p)'
    BY <2>2, <2>3, <2>4 DEF Under, Scenes, LedOp, In, Gate
  <2>6. LedOps' /\ UNCHANGED <<song, wpc>>
    BY <1>d, <2>1, <2>2, <2>5
  <2> QED
    BY <2>2, <2>3, <2>4, <2>6 DEF LedFile, Under, Track, Scenario, Scenes, SameKind
<1>4. CASE Submit(p)
  <2>1. CASE ~Leave(p)
    <3>1. /\ op'[p].pc = IF Gate(p) = "retry" THEN "run" ELSE "approve"
          /\ op'[p].gate = op[p].gate
          /\ \A q \in Pages \ {p} : op'[q] = op[q]
          /\ song = NoSong /\ UNCHANGED <<file, wpc>>
      BY <1>0, <1>4, <2>1 DEF Submit, Types, OpType, Gate
    <3>2. LedOp(p)'
      BY <1>0, <1>4, <3>1 DEF Submit, At, LedOp, OpFits, In, Gate
    <3> QED
      BY <1>a, <3>1, <3>2
  <2> QED
    BY <1>b, <2>1
<1>5. CASE ApproveTrack(p)
  <2>1. PICK pc \in {"noScenes", "cut", "approve"} :
          Look(p, pc, "track") /\ (pc = "approve" => file.kind = "clip")
    <3> DEFINE c == CASE file.kind = "song" -> "noScenes"
                      [] /\ file.kind # "song"
                         /\ Stage("scenario") = "approved" /\ file.story = NoStory -> "cut"
                      [] OTHER -> "approve"
    <3>1. file.kind # "clip" => Stage("scenario") = "approved" /\ file.story = NoStory
      BY <1>0 DEF FileFits, Stage, Scenario
    <3>2. c = "noScenes" \/ c = "cut" \/ (c = "approve" /\ file.kind = "clip")
      <4>1. CASE file.kind = "song"
        BY <4>1
      <4>2. CASE file.kind # "song" /\ Stage("scenario") = "approved" /\ file.story = NoStory
        BY <4>2
      <4>3. CASE file.kind = "clip" /\ ~(Stage("scenario") = "approved" /\ file.story = NoStory)
        <5>1. file.kind # "song"
          BY <4>3
        <5> QED
          BY <4>3, <5>1
      <4> QED
        BY <3>1, <4>1, <4>2, <4>3
    <3>3. Look(p, c, "track")
      BY <1>5 DEF ApproveTrack
    <3> HIDE DEF c
    <3> QED
      BY <3>2, <3>3
  <2> QED
    BY <1>c, <2>1
<1>6. CASE NoScenes(p)
  <2> DEFINE f == Staged("scenes", "done")
  <2>1. Write(p, f, "approve")
    BY <1>6 DEF NoScenes
  <2>2. f \in FileType /\ f.stage["track"] = Track /\ f.stage["scenes"] = "done"
    BY <1>0, StagedIs DEF Stages, Statuses, Track
  <2> HIDE DEF f
  <2>3. file' = f
    BY <2>1, <2>2, WriteIs
  <2>4. Under' /\ LedOp(p)'
    BY <2>2, <2>3 DEF Under, Scenes, LedOp
  <2>5. LedOps' /\ UNCHANGED <<song, wpc>>
    BY <1>d, <2>1, <2>2, <2>4
  <2> QED
    BY <2>2, <2>3, <2>4, <2>5 DEF LedFile, Track
<1>7. CASE ApproveScenario(p)
  BY <1>7, <1>c DEF ApproveScenario
<1>8. CASE Cut(p)
  <2> DEFINE seen == op[p].seen
             f == [seen EXCEPT !.cut = [story |-> seen.story, take |-> seen.take]]
  <2>1. CASE Write(p, f, "advance")
    <3>0. seen \in FileType
      BY <1>0, <1>8 DEF Cut, At, OpFits, In, SeenFits
    <3>1. f \in FileType /\ f.stage = seen.stage
      BY <3>0 DEF FileType
    <3> HIDE DEF f
    <3>2. file' = f /\ op'[p].pc = "advance"
      BY <2>1, <3>1, WriteIs
    <3>3. seen = file
      BY <1>8, <2>1 DEF Cut, Write, Excused
    <3> HIDE DEF seen
    <3>4. (Under => Under') /\ LedOp(p)'
      BY <3>1, <3>2, <3>3 DEF Under, Scenes, LedOp, In
    <3>5. LedOps' /\ UNCHANGED <<song, wpc>>
      BY <1>d, <2>1, <3>1, <3>4
    <3> QED
      BY <3>1, <3>2, <3>3, <3>5 DEF LedFile, Under, Track, Scenario, Scenes, SameKind
  <2> QED
    BY <1>8, <1>b, <2>1 DEF Cut
<1>9. CASE Advance(p)
  <2>1. ASSUME NEW pc \in {"approve", "idle"}, Write(p, Staged("scenes", "running"), pc)
        PROVE  LedFile' /\ LedOps'
    <3> DEFINE f == Staged("scenes", "running")
    <3>0. Write(p, f, pc)
      BY <2>1
    <3>1. f \in FileType /\ f.stage["track"] = Track /\ f.stage["scenes"] = "running"
      BY <1>0, StagedIs DEF Stages, Statuses, Track
    <3> HIDE DEF f
    <3>2. file' = f
      BY <3>0, <3>1, WriteIs
    <3>3. Under' /\ LedOp(p)'
      BY <3>1, <3>2 DEF Under, Scenes, LedOp
    <3>4. LedOps' /\ UNCHANGED <<song, wpc>>
      BY <1>d, <3>0, <3>1, <3>3
    <3> QED
      BY <3>1, <3>2, <3>3, <3>4 DEF LedFile, Track
  <2> QED
    BY <1>9, <1>b, <2>1 DEF Advance
<1>10. CASE ApproveStage(p)
  <2>0. Gate(p) \in {"script", "track", "scenario"} /\ op[p].pc = "approve"
        /\ (Gate(p) = "scenario" => file.kind = "clip")
    BY <1>0, <1>10 DEF ApproveStage, At, OpFits, In
  <2> DEFINE f == Staged(Gate(p), "approved")
  <2>1. Write(p, f, "idle")
    BY <1>10 DEF ApproveStage, Gate
  <2>2. /\ f \in FileType /\ f.stage["scenes"] = Scenes
        /\ \A r \in {"script", "track", "scenario"} :
             f.stage[r] = IF r = Gate(p) THEN "approved" ELSE file.stage[r]
    BY <1>0, <2>0, StagedIs DEF Stages, Statuses, Scenes
  <2> HIDE DEF f
  <2>3. file' = f /\ op'[p] = Idle
    BY <2>1, <2>2, WriteIs
  <2>4. (Under => Under') /\ LedOp(p)'
    BY <2>2, <2>3 DEF Under, Scenes, LedOp, In, Idle
  <2>5. LedOps' /\ UNCHANGED <<song, wpc>>
    BY <1>d, <2>1, <2>2, <2>4
  <2>6. /\ Gate(p) = "scenario" => Under
        /\ Gate(p) = "track" /\ file.kind # "clip" => Under
    BY <1>0, <2>0 DEF LedOp, In
  <2> QED
    BY <2>0, <2>2, <2>3, <2>4, <2>5, <2>6 DEF LedFile, Track, Scenario, SameKind
<1>11. CASE Generate(p) \/ Edit(p)
  BY <1>11, <1>c DEF Generate, Edit
<1>12. CASE Content(p)
  <2> DEFINE f == [file EXCEPT !.story = [n |-> op[p].id, of |-> op[p].seen.take]]
  <2>1. CASE Write(p, f, "open")
    <3>0. op[p].seen.take \in TakeIds
      BY <1>0, <1>12 DEF Content, At, OpFits, In, SeenFits, FileType
    <3>1. f \in FileType /\ f.stage = file.stage
      BY <1>0, <3>0 DEF FileType, StoryType, OpType
    <3> HIDE DEF f
    <3>2. file' = f /\ op'[p].pc = "open"
      BY <2>1, <3>1, WriteIs
    <3>3. (Under => Under') /\ LedOp(p)'
      BY <3>1, <3>2 DEF Under, Scenes, LedOp, In
    <3>4. LedOps' /\ UNCHANGED <<song, wpc>>
      BY <1>d, <2>1, <3>1, <3>3
    <3> QED
      BY <3>1, <3>2, <3>4 DEF LedFile, Under, Track, Scenario, Scenes, SameKind
  <2> QED
    BY <1>12, <1>b, <2>1 DEF Content
<1>13. CASE Open(p)
  <2> DEFINE f == Staged("scenario", "awaiting_approval")
  <2>1. Write(p, f, "idle")
    BY <1>13 DEF Open
  <2>2. /\ f \in FileType /\ f.stage["scenario"] = "awaiting_approval"
        /\ f.stage["track"] = Track /\ f.stage["scenes"] = Scenes
    BY <1>0, StagedIs DEF Stages, Statuses, Track, Scenes
  <2> HIDE DEF f
  <2>3. file' = f /\ op'[p] = Idle
    BY <2>1, <2>2, WriteIs
  <2>4. (Under => Under') /\ LedOp(p)'
    BY <2>2, <2>3 DEF Under, Scenes, LedOp, In, Idle
  <2>5. LedOps' /\ UNCHANGED <<song, wpc>>
    BY <1>d, <2>1, <2>2, <2>4
  <2> QED
    BY <2>2, <2>3, <2>4, <2>5 DEF LedFile, Track, Scenario, SameKind
<1>14. CASE RetryTrack(p)
  BY <1>14, <1>c DEF RetryTrack
<1>15. CASE CheckActive(p)
  <2>1. CASE ~Leave(p)
    <3>1. /\ op'[p].pc = "submit" /\ \A q \in Pages \ {p} : op'[q] = op[q]
          /\ UNCHANGED <<file, wpc, song>>
      BY <1>0, <1>15, <2>1 DEF CheckActive, Types, OpType
    <3>2. LedOp(p)'
      BY <3>1 DEF LedOp, In
    <3> QED
      BY <1>a, <3>1, <3>2
  <2> QED
    BY <1>b, <2>1
<1>16. CASE Run(p)
  <2>1. /\ op[p].pc = "run" /\ op'[p] = Idle
        /\ file' = Staged("track", "running") /\ UNCHANGED <<song, wpc>>
        /\ song.id = op[p].id /\ wpc # "file"
    BY <1>16 DEF Run, At, Types, Excused
  <2>2. \A q \in Pages \ {p} : op'[q].pc = op[q].pc /\ op'[q].gate = op[q].gate
    BY <1>16 DEF Run, Types, OpType
  <2>3. Scenario' = Scenario /\ Track' = "running" /\ Scenes' = Scenes
    BY <1>0, <2>1, StagedIs DEF Stages, Statuses, Scenario, Track, Scenes
  <2>4. song # NoSong
    BY <1>0, <2>1 DEF OpFits, OpType, NoSong
  <2>5. LedFile'
    BY <2>1, <2>3, <2>4 DEF LedFile, Under, SameKind
  <2>6. \A q \in Pages \ {p} : LedOp(q)'
    BY <2>2, <2>3, RestLed DEF Under
  <2>7. LedOp(p)'
    BY <2>1 DEF LedOp, In, Idle
  <2> QED
    BY <2>5, <2>6, <2>7 DEF LedOps
<1> QED
  BY <1>1, <1>2, <1>3, <1>4, <1>5, <1>6, <1>7, <1>8, <1>9, <1>10, <1>11, <1>12, <1>13, <1>14,
     <1>15, <1>16 DEF PageStep

\* Every step keeps Led, or is blamed for it.
LEMMA StepLed == Types /\ Fits /\ Led /\ [Next]_vars => Led'
<1> SUFFICES ASSUME Types, Fits, Led, [Next]_vars, ~Skipped', ~Excused'
             PROVE  LedFile' /\ LedOps'
  BY DEF Led, LedOps, Excused
<1>1. SameKind /\ blame \subseteq blame'
  BY Monotone
<1>2. ~Skipped /\ ~Excused
  BY <1>1 DEF Skipped, Excused, SameKind
<1>3. LedFile /\ LedOps
  BY <1>2 DEF Led, LedOps, Excused
<1>4. CASE WorkerStep \/ WorkerDies \/ Cancel
  BY <1>1, <1>3, <1>4, WorkerLed
<1>5. ASSUME NEW p \in Pages, PageStep(p) PROVE LedFile' /\ LedOps'
  BY <1>1, <1>2, <1>3, <1>5, PageLed
<1>6. ASSUME NEW p \in Pages, PageDies(p) PROVE LedFile' /\ LedOps'
  <2>1. /\ op'[p] = Idle /\ \A q \in Pages \ {p} : op'[q] = op[q]
        /\ UNCHANGED <<file, song, wpc>>
    BY <1>6 DEF PageDies, Types
  <2>2. LedFile'
    BY <1>3, <2>1 DEF LedFile, Under, Track, Scenario, Scenes
  <2>3. \A q \in Pages \ {p} : LedOp(q)'
    BY <1>1, <1>3, <2>1, RestLed DEF Under, Scenes
  <2>4. LedOp(p)'
    BY <2>1 DEF LedOp, In, Idle
  <2> QED
    BY <2>2, <2>3, <2>4 DEF LedOps
<1>7. CASE UNCHANGED vars
  BY <1>1, <1>3, <1>7, RestLed DEF vars, LedFile, LedOps, Under, Track, Scenario, Scenes
<1> QED
  BY <1>4, <1>5, <1>6, <1>7 DEF Next

-----------------------------------------------------------------------------
(* Theorems                                                                *)

\* What a gate's requests, the worker's song and the project's file know of each other
\* holds whatever overlaps.
THEOREM GatesInvariant == Spec => []IInv
<1>1. IInv /\ [Next]_vars => IInv'
  BY StepTypes, StepFits, StepFed, StepLed DEF IInv
<1> QED
  BY <1>1, InitInv, PTL DEF Spec

\* Type correctness of the project's file, its song and the requests.
THEOREM GatesTypes == Spec => []TypeOK
<1>1. IInv => TypeOK
  BY DEF IInv, Types, Fits, SongFits, TypeOK, FileType, StoryType, SongType
<1> QED
  BY <1>1, GatesInvariant, PTL

\* web.py, _approve_project_stage: for any number of requests, presses and faults, an
\* approved scenario has its scenes, cut from this text for this track.
THEOREM GatesScenesAsApproved == Spec => []ScenesAsApproved
<1>1. IInv => ScenesAsApproved
  BY DEF IInv, Fed, FedFile, Clean, CutAsIs, ScenesAsApproved, Stage, Scenario
<1> QED
  BY <1>1, GatesInvariant, PTL

\* web.py, the buttons of a project's page: for any number of requests, presses and
\* faults, a project at rest has one that leads on, but for the three named causes.
THEOREM GatesNoDeadEnd == Spec => []NoDeadEnd
<1>1. IInv => NoDeadEnd
  <2> SUFFICES ASSUME IInv, Quiet, ~Skipped, ~Excused, Script = "approved",
                      Track \notin {"draft", "awaiting_approval", "failed"},
                      ~Under
               PROVE  ScenarioOpen
    BY DEF IInv, Fits, FileFits, NoDeadEnd, Excused, Under, Retriable, Stage, Script, Track, Scenes
  <2>1. LedFile /\ FileFits /\ file \in FileType
    BY DEF IInv, Led, Excused, Fits, Types
  <2>2. Track = "approved"
    <3>1. Track \in Statuses /\ Track # "running"
      BY <2>1 DEF FileType, Stages, Track, LedFile, Quiet
    <3>2. Track # "done"
      BY <2>1 DEF FileFits
    <3> QED
      BY <3>1, <3>2 DEF Statuses
  <2>3. file.kind = "clip" /\ Scenario \in {"draft", "awaiting_approval"}
    BY <2>1, <2>2 DEF LedFile, FileFits
  <2> QED
    BY <2>2, <2>3 DEF ScenarioOpen, Stage, Track, Scenario
<1> QED
  BY <1>1, GatesInvariant, PTL

-----------------------------------------------------------------------------
(* A chat session.                                                         *)

Told  == {w.project : w \in Wires}
Texts == {p.kind : p \in Told \cup {NoProject}} \cup {p.scenes : p \in Told \cup {NoProject}}
           \cup {"video"}
Exchange == [call : Nat, text : BOOLEAN, project : Told]
Chats == [there : BOOLEAN, log : Seq(Exchange), kind : Texts,
          project : [kind : Texts, scenes : Texts, given : BOOLEAN]]
Stands == {"idle", "open", "flock", "read", "check", "ask", "write", "unlink", "unlink2", "told"}
Codes == {r.got.code : r \in Replies}
           \cup {"none", "ok", "chat_busy", "chat_not_found", "chat_corrupt", "refused",
                 "bad_provider_config", "chat_truncated", "bad_model_json", "queue_unwritable"}
CallType == [at : Stands, op : {"turn", "delete"}, call : Nat, fd : Nat, holds : BOOLEAN,
             seen : Chats, strict : BOOLEAN, heard : Seq({r.truth : r \in Replies}), code : Codes]

StandsIn(t, S)  == th[t].at \in S
Active(t) == th[t].at # "idle"
Kept(t)   == StandsIn(t, {"told"}) /\ th[t].code = "ok" /\ th[t].op = "turn"

\* The places of an exchange in a session, and that there is one.
Where(chat, c) == {i \in DOMAIN chat.log : chat.log[i].call = c}
Once(chat, c)  == \E i \in DOMAIN chat.log : Where(chat, c) = {i}

ChatTypes ==
  /\ session \in Chats /\ lock \in Nat /\ inodes \in Nat
  /\ th \in [Thread -> CallType]
  /\ calls \in 0..MaxCalls /\ born \in BOOLEAN
  /\ answer \in [1..MaxCalls -> {"none", "no", "kept", "deleted"}]

\* Who works on the session holds the lock of its file, which is one file while the
\* session is there.
Exclusive ==
  /\ lock <= inodes
  /\ \A t \in Thread :
       /\ StandsIn(t, {"read", "check", "ask", "write", "unlink", "unlink2"}) => th[t].holds
       /\ StandsIn(t, {"idle", "open", "flock"}) => ~th[t].holds
       /\ ~StandsIn(t, {"idle", "open"}) => th[t].fd # NoLock
       /\ ~StandsIn(t, {"idle", "open"}) /\ session.there => th[t].fd = lock
  /\ \A t, u \in Thread : th[t].holds /\ th[u].holds /\ th[t].fd = th[u].fd => t = u

\* A call has a number of its own, not answered and not in the session before its time.
Numbered ==
  /\ ~born => session = NoFile /\ calls = 0
  /\ \A t \in Thread : Active(t) =>
       born /\ th[t].call \in 1..calls /\ answer[th[t].call] = "none"
  /\ \A t, u \in Thread : Active(t) /\ Active(u) /\ th[t].call = th[u].call => t = u
  /\ \A c \in 1..MaxCalls : c > calls => answer[c] = "none" /\ Where(session, c) = {}

\* What a call on its way has seen and done.
Working(t) ==
  /\ StandsIn(t, {"read", "check", "ask", "write"}) => th[t].op = "turn"
  /\ StandsIn(t, {"check", "ask"}) => session.there /\ th[t].seen = session
  /\ StandsIn(t, {"write"}) =>
       /\ session.there
       /\ \E reply \in Replies :
            Accepts(reply) /\ th[t].seen = Extended(session, th[t].call, reply)
  /\ StandsIn(t, {"unlink", "unlink2"}) => th[t].op = "delete"
  /\ StandsIn(t, {"unlink2"}) => ~session.there
  /\ StandsIn(t, {"told"}) /\ th[t].code = "ok" /\ th[t].op = "delete" => ~session.there
  /\ Active(t) /\ ~Kept(t) => Where(session, th[t].call) = {}
  /\ Kept(t) /\ session.there => Once(session, th[t].call)

Answered ==
  /\ Sound(session)
  /\ \A c \in 1..MaxCalls :
       /\ answer[c] = "deleted" => ~session.there
       /\ answer[c] = "kept" /\ session.there => Once(session, c)
       /\ answer[c] = "no" => Where(session, c) = {}

ChatInv == ChatTypes /\ Exclusive /\ Numbered /\ (\A t \in Thread : Working(t)) /\ Answered

-----------------------------------------------------------------------------

LEMMA MergedType ==
  ASSUME NEW chat \in Chats, NEW project \in Told
  PROVE  /\ Merged(chat, project) \in Chats
         /\ Merged(chat, project).there = chat.there
         /\ Merged(chat, project).log = chat.log
<1>1. Nul \in Texts /\ "video" \in Texts /\ project.kind \in Texts /\ project.scenes \in Texts
  <2>1. NoProject.kind = Nul
    BY DEF NoProject
  <2>2. QED
    BY <2>1 DEF Texts
<1>2. CASE ~project.given
  BY <1>2 DEF Merged, Chats
<1>3. CASE project.given
  <2> DEFINE kind   == IF project.kind = Nul THEN chat.project.kind ELSE project.kind
             scenes == IF project.scenes = Nul THEN chat.project.scenes ELSE project.scenes
             shown  == IF kind \in ChatKinds THEN kind ELSE Nul
             new    == [kind |-> kind, scenes |-> scenes, given |-> TRUE]
  <2>1. kind \in Texts /\ scenes \in Texts
    BY <1>1 DEF Chats
  <2>2. shown \in Texts
    BY <1>1, <2>1
  <2>3. new \in [kind : Texts, scenes : Texts, given : BOOLEAN]
    BY <2>1
  <2>4. Merged(chat, project) = [chat EXCEPT !.project = new, !.kind = shown]
    BY <1>3 DEF Merged
  <2> HIDE DEF kind, scenes, shown, new
  <2>5. QED
    BY <2>2, <2>3, <2>4 DEF Chats
<1>4. QED
  BY <1>2, <1>3

\* What a turn leaves in the session's log.
Entry(call, reply) ==
  [call |-> call, text |-> reply.form = "turn", project |-> reply.project]

LEMMA SessionExtends ==
  ASSUME NEW chat \in Chats, NEW call \in Nat, NEW reply \in Replies
  PROVE  LET longer == Extended(chat, call, reply)
         IN  /\ longer \in Chats /\ longer.there = chat.there
             /\ longer.project = Merged(chat, reply.project).project
             /\ longer.kind = Merged(chat, reply.project).kind
             /\ longer.log = Append(chat.log, Entry(call, reply))
             /\ DOMAIN longer.log = DOMAIN chat.log \cup {Len(chat.log) + 1}
             /\ Len(chat.log) \in Nat /\ DOMAIN chat.log = 1..Len(chat.log)
             /\ \A i \in DOMAIN chat.log : longer.log[i] = chat.log[i]
             /\ longer.log[Len(chat.log) + 1] = Entry(call, reply)
<1> DEFINE merged == Merged(chat, reply.project)
           longer == Extended(chat, call, reply)
           entry  == Entry(call, reply)
<1>1. reply.project \in Told
  BY DEF Replies, Told
<1>2. entry \in Exchange
  BY <1>1 DEF Exchange, Entry
<1>3. merged \in Chats /\ merged.there = chat.there /\ merged.log = chat.log
  BY <1>1, MergedType
<1>4. longer = [merged EXCEPT !.log = Append(@, entry)]
  BY DEF Extended, Entry
<1> HIDE DEF merged, entry, longer
<1>5. chat.log \in Seq(Exchange)
  BY DEF Chats
<1>6. Append(merged.log, entry) \in Seq(Exchange)
  BY <1>2, <1>3, <1>5
<1>7. longer \in Chats /\ longer.there = chat.there /\ longer.log = Append(chat.log, entry)
      /\ longer.project = merged.project /\ longer.kind = merged.kind
  BY <1>3, <1>4, <1>6 DEF Chats
<1>8. /\ DOMAIN longer.log = DOMAIN chat.log \cup {Len(chat.log) + 1}
      /\ Len(chat.log) \in Nat /\ DOMAIN chat.log = 1..Len(chat.log)
      /\ \A i \in DOMAIN chat.log : longer.log[i] = chat.log[i]
      /\ longer.log[Len(chat.log) + 1] = entry
  BY <1>2, <1>5, <1>7
<1>9. QED
  BY <1>7, <1>8 DEF merged, longer, entry

\* An exchange is added to the session under its own number alone.
LEMMA OthersStay ==
  ASSUME NEW chat \in Chats, NEW call \in Nat, NEW reply \in Replies, NEW c \in Nat
  PROVE  LET longer == Extended(chat, call, reply)
         IN  /\ c # call => Where(longer, c) = Where(chat, c)
             /\ c # call /\ Once(chat, c) => Once(longer, c)
             /\ c = call /\ Where(chat, c) = {} => Once(longer, c)
             /\ Accepts(reply) /\ Sound(chat) => Sound(longer)
<1> DEFINE longer == Extended(chat, call, reply)
           new    == Len(chat.log) + 1
<1>1. /\ DOMAIN longer.log = DOMAIN chat.log \cup {new} /\ new \notin DOMAIN chat.log
      /\ \A i \in DOMAIN chat.log : longer.log[i] = chat.log[i]
      /\ longer.log[new] = Entry(call, reply)
  BY SessionExtends
<1> HIDE DEF longer, new
<1>2. Entry(call, reply).call = call /\ (Accepts(reply) => Entry(call, reply).text = TRUE)
  BY DEF Entry, Accepts
<1>3. c # call => Where(longer, c) = Where(chat, c)
  BY <1>1, <1>2 DEF Where
<1>4. c = call /\ Where(chat, c) = {} => Where(longer, c) = {new}
  BY <1>1, <1>2 DEF Where
<1>5. Accepts(reply) /\ Sound(chat) => Sound(longer)
  BY <1>1, <1>2 DEF Sound
<1>6. c # call /\ Once(chat, c) => Once(longer, c)
  BY <1>1, <1>3 DEF Once
<1>7. QED
  BY <1>1, <1>3, <1>4, <1>5, <1>6 DEF Once, longer

-----------------------------------------------------------------------------

\* A thread at rest.
LEMMA NoCallIs ==
  /\ NoCall \in CallType /\ NoCall.at = "idle" /\ ~NoCall.holds /\ NoCall.fd = NoLock
  /\ NoFile \in Chats /\ NoFile.log = <<>> /\ ~NoFile.there
<1>1. NoProject.kind = Nul
  BY DEF NoProject
<1>2. Nul \in Texts
  BY <1>1 DEF Texts
<1>3. NoFile \in Chats /\ NoFile.log = <<>> /\ ~NoFile.there
  BY <1>2 DEF NoFile, Chats, NoProject
<1>4. NoCall \in CallType /\ NoCall.at = "idle" /\ ~NoCall.holds /\ NoCall.fd = NoLock
  BY <1>3 DEF NoCall, CallType, Stands, Codes, NoLock
<1>5. QED
  BY <1>3, <1>4

LEMMA ChatStarts == ChatInit => ChatInv
<1> SUFFICES ASSUME ChatInit PROVE ChatInv
  OBVIOUS
<1> USE DEF ChatInit
<1>2. NoFile \in Chats /\ NoFile.log = <<>> /\ ~NoFile.there
  BY NoCallIs
<1>3. NoCall \in CallType /\ NoCall.at = "idle" /\ ~NoCall.holds
  BY NoCallIs
<1>4. ChatTypes
  <2>1. session \in Chats /\ lock \in Nat /\ inodes \in Nat /\ calls \in 0..MaxCalls
    BY <1>2, ChatAssumption DEF NoLock
  <2>2. th \in [Thread -> CallType]
    BY <1>3
  <2>3. answer \in [1..MaxCalls -> {"none", "no", "kept", "deleted"}]
    OBVIOUS
  <2>4. QED
    BY <2>1, <2>2, <2>3 DEF ChatTypes
<1>5. \A c : Where(session, c) = {}
  BY <1>2 DEF Where
<1>6. Sound(session)
  BY <1>2 DEF Sound
<1>7. Exclusive /\ (\A t \in Thread : Working(t))
  BY <1>3 DEF Exclusive, Working, StandsIn, Active, Kept, NoLock
<1>8. Numbered /\ Answered
  BY <1>3, <1>5, <1>6, ChatAssumption DEF Numbered, Answered, Active
<1>9. QED
  BY <1>4, <1>7, <1>8 DEF ChatInv

\* One thread's record changes.
LEMMA Changed ==
  ASSUME ChatTypes, NEW t \in Thread, NEW new \in CallType, th' = [th EXCEPT ![t] = new]
  PROVE  /\ th' \in [Thread -> CallType]
         /\ th'[t] = new
         /\ \A u \in Thread \ {t} : th'[u] = th[u]
BY DEF ChatTypes

Others(t) == \A u \in Thread \ {t} : th'[u] = th[u]

LEMMA AnswerEffect ==
  ASSUME ChatTypes, NEW t \in Thread, NEW code \in Codes,
         NEW heard \in Seq({r.truth : r \in Replies}), Answer(t, code, heard)
  PROVE  /\ th' \in [Thread -> CallType] /\ Others(t)
         /\ th'[t] = [th[t] EXCEPT !.at = "told", !.code = code, !.heard = heard]
         /\ th'[t].at = "told" /\ th'[t].code = code
         /\ th'[t].op = th[t].op /\ th'[t].call = th[t].call
         /\ th'[t].fd = th[t].fd /\ th'[t].holds = th[t].holds
<1> DEFINE new == [th[t] EXCEPT !.at = "told", !.code = code, !.heard = heard]
<1>1. th[t] \in CallType
  BY DEF ChatTypes
<1>2. /\ new \in CallType /\ new.at = "told" /\ new.code = code
      /\ new.op = th[t].op /\ new.call = th[t].call
      /\ new.fd = th[t].fd /\ new.holds = th[t].holds
  BY <1>1 DEF CallType, Stands
<1>3. th' = [th EXCEPT ![t] = new]
  BY <1>1 DEF Answer, CallType, ChatTypes
<1> HIDE DEF new
<1>4. th' \in [Thread -> CallType] /\ Others(t) /\ th'[t] = new
  BY <1>2, <1>3, Changed DEF Others
<1>5. QED
  BY <1>2, <1>4 DEF new

LEMMA OpenLockEffect ==
  ASSUME ChatTypes, NEW t \in Thread, OpenLock(t)
  PROVE  /\ th' \in [Thread -> CallType] /\ Others(t)
         /\ th[t].at = "open" /\ th'[t].at = "flock" /\ th'[t].fd = lock'
         /\ th'[t].op = th[t].op /\ th'[t].call = th[t].call /\ th'[t].holds = th[t].holds
         /\ lock' \in Nat /\ inodes' \in Nat
<1> DEFINE fd  == IF lock = NoLock THEN inodes + 1 ELSE lock
           new == [th[t] EXCEPT !.fd = fd, !.at = "flock"]
<1>1. th[t] \in CallType /\ fd \in Nat /\ lock' = fd
  BY DEF ChatTypes, OpenLock
<1> HIDE DEF fd
<1>2. /\ new \in CallType /\ new.at = "flock" /\ new.fd = fd
      /\ new.op = th[t].op /\ new.call = th[t].call /\ new.holds = th[t].holds
  BY <1>1 DEF CallType, Stands
<1>3. th' = [th EXCEPT ![t] = new]
  BY <1>1 DEF OpenLock, CallType, ChatTypes
<1> HIDE DEF new
<1>4. th' \in [Thread -> CallType] /\ Others(t) /\ th'[t] = new
  BY <1>2, <1>3, Changed DEF Others
<1>5. QED
  BY <1>1, <1>2, <1>4 DEF OpenLock, ChatTypes

\* A step of a call that has opened the lock's file and writes nothing.
LEMMA QuietStep ==
  ASSUME ChatInv, NEW t \in Thread, NEW new \in CallType, th' = [th EXCEPT ![t] = new],
         UNCHANGED <<session, lock, inodes, calls, born, answer>>,
         ~StandsIn(t, {"idle", "open"}), new.at \notin {"idle", "open", "flock"},
         new.op = th[t].op, new.call = th[t].call, new.fd = th[t].fd,
         \/ new.holds = th[t].holds
         \/ \A u \in Thread : ~(th[u].holds /\ th[u].fd = th[t].fd),
         new.at \in {"read", "check", "ask", "write", "unlink", "unlink2"} => new.holds,
         Working(t)'
  PROVE  ChatInv'
<1>1. th' \in [Thread -> CallType] /\ th'[t] = new /\ Others(t)
  BY Changed DEF ChatInv, Others
<1>2. ChatTypes'
  BY <1>1 DEF ChatInv, ChatTypes
<1>3. Exclusive'
  BY <1>1 DEF ChatInv, ChatTypes, Exclusive, StandsIn, Others, CallType
<1>4. Numbered'
  BY <1>1 DEF ChatInv, Numbered, Active, StandsIn, Others, Where
<1>5. \A u \in Thread : Working(u)'
  <2>1. ASSUME NEW u \in Thread, u # t PROVE Working(u)'
    BY <1>1, <2>1 DEF ChatInv, Working, Active, Kept, StandsIn, Others, Where, Once
  <2>2. QED
    BY <2>1
<1>6. Answered'
  BY DEF ChatInv, Answered, Where, Once
<1>7. QED
  BY <1>2, <1>3, <1>4, <1>5, <1>6 DEF ChatInv

\* A call that is refused with its lock held, or for want of it.
LEMMA RefusedKeepsChat ==
  ASSUME ChatInv, NEW t \in Thread, NEW code \in Codes \ {"ok"},
         NEW heard \in Seq({r.truth : r \in Replies}), Answer(t, code, heard),
         ~StandsIn(t, {"idle", "open", "told"}),
         UNCHANGED <<session, lock, inodes, calls, born, answer>>
  PROVE  ChatInv'
<1> DEFINE new == [th[t] EXCEPT !.at = "told", !.code = code, !.heard = heard]
<1>1. ChatTypes /\ th[t] \in CallType
  BY DEF ChatInv, ChatTypes
<1>2. /\ new \in CallType /\ new.at = "told" /\ new.code = code
      /\ new.op = th[t].op /\ new.call = th[t].call
      /\ new.fd = th[t].fd /\ new.holds = th[t].holds
  BY <1>1 DEF CallType, Stands
<1>3. th' = [th EXCEPT ![t] = new]
  BY <1>1 DEF Answer, CallType, ChatTypes
<1> HIDE DEF new
<1>4. th'[t] = new
  BY <1>1, <1>2, <1>3, Changed
<1>5. Working(t)'
  BY <1>2, <1>4 DEF ChatInv, Working, Active, Kept, StandsIn, Where
<1>6. QED
  BY <1>2, <1>3, <1>5, QuietStep DEF StandsIn

LEMMA FlockKeepsChat ==
  ASSUME ChatInv, NEW t \in Thread, Flock(t)
  PROVE  ChatInv'
<1>1. ChatTypes /\ th[t] \in CallType /\ <<>> \in Seq({r.truth : r \in Replies})
      /\ UNCHANGED <<session, lock, inodes, calls, born, answer>> /\ th[t].at = "flock"
  BY DEF ChatInv, ChatTypes, Flock, Disk, Calls
<1>2. CASE \E u \in Thread : th[u].holds /\ th[u].fd = th[t].fd
  BY <1>1, <1>2, RefusedKeepsChat DEF Flock, StandsIn, Codes
<1>3. CASE ~\E u \in Thread : th[u].holds /\ th[u].fd = th[t].fd
  <2> DEFINE at  == IF th[t].op = "turn" THEN "read" ELSE "unlink"
             new == [th[t] EXCEPT !.holds = TRUE, !.at = at]
  <2>1. /\ new \in CallType /\ new.at = at /\ new.op = th[t].op /\ new.call = th[t].call
        /\ new.fd = th[t].fd /\ new.holds = TRUE
    BY <1>1 DEF CallType, Stands
  <2>2. th' = [th EXCEPT ![t] = new]
    BY <1>1, <1>3 DEF Flock, CallType, ChatTypes
  <2> HIDE DEF new
  <2>3. th'[t] = new
    BY <1>1, <2>1, <2>2, Changed
  <2>4. th[t].op \in {"turn", "delete"}
    BY <1>1 DEF CallType
  <2>5. Working(t)'
    BY <1>1, <2>1, <2>3, <2>4 DEF ChatInv, Working, Active, Kept, StandsIn, Where
  <2>6. QED
    BY <1>1, <1>3, <2>1, <2>2, <2>5, QuietStep DEF StandsIn
<1>4. QED
  BY <1>2, <1>3

LEMMA ReadKeepsChat ==
  ASSUME ChatInv, NEW t \in Thread, Read(t)
  PROVE  ChatInv'
<1>1. ChatTypes /\ th[t] \in CallType /\ <<>> \in Seq({r.truth : r \in Replies})
      /\ UNCHANGED <<session, lock, inodes, calls, born, answer>> /\ th[t].at = "read"
  BY DEF ChatInv, ChatTypes, Read, Disk, Calls
<1>2. CASE \/ Answer(t, "chat_not_found", <<>>)
           \/ Answer(t, "chat_corrupt", <<>>)
  BY <1>1, <1>2, RefusedKeepsChat DEF StandsIn, Codes
<1>3. CASE session.there /\ th' = [th EXCEPT ![t].seen = session, ![t].at = "check"]
  <2> DEFINE new == [th[t] EXCEPT !.seen = session, !.at = "check"]
  <2>1. /\ new \in CallType /\ new.at = "check" /\ new.op = th[t].op
        /\ new.call = th[t].call /\ new.seen = session
        /\ new.fd = th[t].fd /\ new.holds = th[t].holds
    BY <1>1 DEF CallType, Stands, ChatTypes
  <2>2. th' = [th EXCEPT ![t] = new]
    BY <1>1, <1>3 DEF CallType, ChatTypes
  <2> HIDE DEF new
  <2>3. th'[t] = new
    BY <1>1, <2>1, <2>2, Changed
  <2>4. Working(t)'
    <3>1. th[t].op = "turn" /\ Where(session, th[t].call) = {}
      BY <1>1 DEF ChatInv, Working, Active, Kept, StandsIn
    <3>2. Where(session, th[t].call)' = {}
      BY <1>1, <2>1, <2>3, <3>1 DEF Where
    <3>3. QED
      BY <1>1, <1>3, <2>1, <2>3, <3>1, <3>2 DEF Working, Active, Kept, StandsIn
  <2>5. new.holds
    BY <1>1, <2>1 DEF ChatInv, Exclusive, StandsIn
  <2>6. QED
    BY <1>1, <2>1, <2>2, <2>4, <2>5, QuietStep DEF StandsIn
<1>4. QED
  BY <1>2, <1>3 DEF Read

LEMMA CheckKeepsChat ==
  ASSUME ChatInv, NEW t \in Thread, Check(t)
  PROVE  ChatInv'
<1>1. ChatTypes /\ th[t] \in CallType /\ <<>> \in Seq({r.truth : r \in Replies})
      /\ UNCHANGED <<session, lock, inodes, calls, born, answer>> /\ th[t].at = "check"
  BY DEF ChatInv, ChatTypes, Check, Disk, Calls
<1>2. CASE \/ Answer(t, "refused", <<>>)
           \/ Answer(t, "bad_provider_config", <<>>)
  BY <1>1, <1>2, RefusedKeepsChat DEF StandsIn, Codes
<1>3. ASSUME NEW strict \in BOOLEAN, th' = [th EXCEPT ![t].strict = strict, ![t].at = "ask"]
      PROVE  ChatInv'
  <2> DEFINE new == [th[t] EXCEPT !.strict = strict, !.at = "ask"]
  <2>1. /\ new \in CallType /\ new.at = "ask" /\ new.op = th[t].op
        /\ new.call = th[t].call /\ new.seen = th[t].seen
        /\ new.fd = th[t].fd /\ new.holds = th[t].holds
    BY <1>1 DEF CallType, Stands, ChatTypes
  <2>2. th' = [th EXCEPT ![t] = new]
    BY <1>1, <1>3 DEF CallType, ChatTypes
  <2> HIDE DEF new
  <2>3. th'[t] = new
    BY <1>1, <2>1, <2>2, Changed
  <2>4. Working(t)'
    <3>1. /\ th[t].op = "turn" /\ Where(session, th[t].call) = {}
          /\ session.there /\ th[t].seen = session
      BY <1>1 DEF ChatInv, Working, Active, Kept, StandsIn
    <3>2. Where(session, th[t].call)' = {}
      BY <1>1, <2>1, <2>3, <3>1 DEF Where
    <3>3. QED
      BY <1>1, <1>3, <2>1, <2>3, <3>1, <3>2 DEF Working, Active, Kept, StandsIn
  <2>5. new.holds
    BY <1>1, <2>1 DEF ChatInv, Exclusive, StandsIn
  <2>6. QED
    BY <1>1, <2>1, <2>2, <2>4, <2>5, QuietStep DEF StandsIn
<1>4. QED
  <2>1. CASE \E entry \in Entries :
               /\ entry # "misspelt"
               /\ th' = [th EXCEPT ![t].strict = (entry = "json_object"), ![t].at = "ask"]
    <3>1. PICK entry \in Entries :
               th' = [th EXCEPT ![t].strict = (entry = "json_object"), ![t].at = "ask"]
      BY <2>1
    <3>2. (entry = "json_object") \in BOOLEAN
      OBVIOUS
    <3>3. QED
      BY <1>3, <3>1, <3>2
  <2>2. QED
    BY <1>2, <2>1 DEF Check

LEMMA TurnKeepsChat ==
  ASSUME ChatInv, NEW t \in Thread, Turn(t)
  PROVE  ChatInv'
<1> DEFINE Truths == {r.truth : r \in Replies}
<1>1. ChatTypes /\ th[t] \in CallType /\ th[t].heard \in Seq(Truths)
      /\ UNCHANGED <<session, lock, inodes, calls, born, answer>> /\ th[t].at = "ask"
  BY DEF ChatInv, ChatTypes, CallType, Turn, Disk, Calls
<1>2. /\ th[t].op = "turn" /\ Where(session, th[t].call) = {} /\ th[t].holds
      /\ session.there /\ th[t].seen = session
  BY <1>1 DEF ChatInv, Working, Exclusive, Active, Kept, StandsIn
<1>3. PICK reply \in Replies :
        LET heard == Append(th[t].heard, reply.truth)
        IN  \/ reply.got.code # "ok" /\ Answer(t, reply.got.code, heard)
            \/ Answer(t, "chat_truncated", heard)
            \/ Answer(t, "bad_model_json", heard)
            \/ /\ Accepts(reply)
               /\ th' = [th EXCEPT ![t].seen = Extended(@, th[t].call, reply),
                                   ![t].heard = heard, ![t].at = "write"]
            \/ th' = [th EXCEPT ![t].heard = heard]
  BY DEF Turn
<1> DEFINE heard == Append(th[t].heard, reply.truth)
<1>4. heard \in Seq(Truths) /\ reply.got.code \in Codes
  BY <1>1 DEF Codes
<1> HIDE DEF heard, Truths
<1>5. CASE \/ reply.got.code # "ok" /\ Answer(t, reply.got.code, heard)
           \/ Answer(t, "chat_truncated", heard)
           \/ Answer(t, "bad_model_json", heard)
  <2>1. {"chat_truncated", "bad_model_json"} \subseteq Codes \ {"ok"}
    BY DEF Codes
  <2>2. QED
    BY <1>1, <1>4, <1>5, <2>1, RefusedKeepsChat DEF StandsIn, Truths
<1>6. CASE /\ Accepts(reply)
           /\ th' = [th EXCEPT ![t].seen = Extended(@, th[t].call, reply),
                               ![t].heard = heard, ![t].at = "write"]
  <2> DEFINE seen == Extended(session, th[t].call, reply)
             new  == [th[t] EXCEPT !.seen = seen, !.heard = heard, !.at = "write"]
  <2>1. seen \in Chats
    BY <1>1, SessionExtends DEF ChatTypes, CallType
  <2> HIDE DEF seen
  <2>2. /\ new \in CallType /\ new.at = "write" /\ new.op = th[t].op
        /\ new.call = th[t].call /\ new.seen = seen
        /\ new.fd = th[t].fd /\ new.holds = th[t].holds
    BY <1>1, <1>4, <2>1 DEF CallType, Stands, ChatTypes, Truths
  <2>3. th' = [th EXCEPT ![t] = new]
    BY <1>1, <1>2, <1>6 DEF CallType, ChatTypes, seen
  <2> HIDE DEF new
  <2>4. th'[t] = new
    BY <1>1, <2>2, <2>3, Changed
  <2>5. Working(t)'
    <3>1. Where(session, th[t].call)' = {}
      BY <1>1, <1>2, <2>2, <2>4 DEF Where
    <3>2. th[t].seen' = Extended(session, th[t].call, reply)'
      BY <1>1, <2>2, <2>4 DEF seen
    <3>3. QED
      BY <1>1, <1>2, <1>6, <2>2, <2>4, <3>1, <3>2 DEF Working, Active, Kept, StandsIn
  <2>6. QED
    BY <1>1, <1>2, <2>2, <2>3, <2>5, QuietStep DEF StandsIn
<1>7. CASE th' = [th EXCEPT ![t].heard = heard]
  <2> DEFINE new == [th[t] EXCEPT !.heard = heard]
  <2>1. /\ new \in CallType /\ new.at = "ask" /\ new.op = th[t].op
        /\ new.call = th[t].call /\ new.seen = th[t].seen
        /\ new.fd = th[t].fd /\ new.holds = th[t].holds
    BY <1>1, <1>4 DEF CallType, Stands, ChatTypes, Truths
  <2>2. th' = [th EXCEPT ![t] = new]
    BY <1>1, <1>7 DEF CallType, ChatTypes
  <2> HIDE DEF new
  <2>3. th'[t] = new
    BY <1>1, <2>1, <2>2, Changed
  <2>4. Working(t)'
    <3>1. Where(session, th[t].call)' = {}
      BY <1>1, <1>2, <2>1, <2>3 DEF Where
    <3>2. QED
      BY <1>1, <1>2, <2>1, <2>3, <3>1 DEF Working, Active, Kept, StandsIn
  <2>5. QED
    BY <1>1, <1>2, <2>1, <2>2, <2>4, QuietStep DEF StandsIn
<1>8. QED
  BY <1>3, <1>5, <1>6, <1>7 DEF heard

LEMMA OpenLockKeepsChat ==
  ASSUME ChatInv, NEW t \in Thread, OpenLock(t)
  PROVE  ChatInv'
<1>1. /\ th' \in [Thread -> CallType] /\ Others(t)
      /\ th[t].at = "open" /\ th'[t].at = "flock" /\ th'[t].fd = lock'
      /\ th'[t].op = th[t].op /\ th'[t].call = th[t].call /\ th'[t].holds = th[t].holds
      /\ lock' \in Nat /\ inodes' \in Nat
  BY OpenLockEffect DEF ChatInv
<1>2. /\ UNCHANGED <<session, calls, born, answer>> /\ lock' # NoLock /\ lock' <= inodes'
      /\ lock # NoLock => lock' = lock
  BY DEF OpenLock, Calls, ChatInv, ChatTypes, Exclusive, NoLock
<1>3. ChatTypes'
  BY <1>1, <1>2 DEF ChatInv, ChatTypes
<1>4. ~th[t].holds
  BY <1>1 DEF ChatInv, Exclusive, StandsIn
<1>5. Exclusive'
  BY <1>1, <1>2, <1>4 DEF ChatInv, ChatTypes, Exclusive, StandsIn, Others, CallType
<1>6. Numbered'
  BY <1>1, <1>2 DEF ChatInv, Numbered, Active, StandsIn, Others, Where
<1>7. ASSUME NEW u \in Thread PROVE Working(u)'
  BY <1>1, <1>2 DEF ChatInv, Working, Active, Kept, StandsIn, Others, Where, Once
<1>8. Answered'
  BY <1>2 DEF ChatInv, Answered, Where, Once
<1>9. QED
  BY <1>3, <1>5, <1>6, <1>7, <1>8 DEF ChatInv

\* Nobody else is at work on a session that is there.
LEMMA AloneAtWork ==
  ASSUME ChatInv, session.there, NEW t \in Thread, NEW u \in Thread,
         StandsIn(t, {"read", "check", "ask", "write", "unlink"}),
         StandsIn(u, {"read", "check", "ask", "write", "unlink", "unlink2"})
  PROVE  t = u
BY DEF ChatInv, Exclusive, StandsIn

LEMMA WriteSessionKeepsChat ==
  ASSUME ChatInv, NEW t \in Thread, WriteSession(t)
  PROVE  ChatInv'
<1>1. /\ ChatTypes /\ th[t] \in CallType /\ th[t].heard \in Seq({r.truth : r \in Replies})
      /\ UNCHANGED <<lock, inodes, calls, born, answer>> /\ th[t].at = "write"
  BY DEF ChatInv, ChatTypes, CallType, WriteSession, Calls
<1>2. CASE UNCHANGED session /\ Answer(t, "queue_unwritable", th[t].heard)
  BY <1>1, <1>2, RefusedKeepsChat DEF StandsIn, Codes
<1>3. CASE session' = th[t].seen /\ Answer(t, "ok", th[t].heard)
  <2>1. PICK reply \in Replies :
           Accepts(reply) /\ session' = Extended(session, th[t].call, reply)
    BY <1>1, <1>3 DEF ChatInv, Working, StandsIn
  <2>2. /\ th' \in [Thread -> CallType] /\ Others(t)
        /\ th'[t].at = "told" /\ th'[t].code = "ok"
        /\ th'[t].op = th[t].op /\ th'[t].call = th[t].call
        /\ th'[t].fd = th[t].fd /\ th'[t].holds = th[t].holds
    <3>1. "ok" \in Codes
      BY DEF Codes
    <3>2. QED
      BY <1>1, <1>3, <3>1, AnswerEffect
  <2>3. /\ session.there /\ th[t].op = "turn" /\ th[t].holds
        /\ Where(session, th[t].call) = {} /\ Sound(session)
        /\ th[t].call \in 1..MaxCalls
    <3>1. th[t].call \in 1..calls /\ calls <= MaxCalls /\ calls \in Nat
      BY <1>1 DEF ChatInv, ChatTypes, Numbered, Active
    <3>2. th[t].call \in 1..MaxCalls
      BY <3>1, ChatAssumption
    <3>3. QED
      BY <1>1, <3>2 DEF ChatInv, Working, Answered, Exclusive, Active, Kept, StandsIn
  <2>4. session' \in Chats /\ session'.there
    BY <1>1, <2>1, <2>3, SessionExtends DEF ChatTypes
  <2>5. /\ Sound(session)' /\ Once(session, th[t].call)'
        /\ \A c \in Nat : c # th[t].call =>
             /\ Where(session, c)' = Where(session, c)
             /\ Once(session, c) => Once(session, c)'
    <3>1. \A c \in Nat :
             LET longer == Extended(session, th[t].call, reply)
             IN  /\ c # th[t].call => Where(longer, c) = Where(session, c)
                 /\ c # th[t].call /\ Once(session, c) => Once(longer, c)
                 /\ c = th[t].call /\ Where(session, c) = {} => Once(longer, c)
                 /\ Accepts(reply) /\ Sound(session) => Sound(longer)
      BY <2>3, OthersStay DEF ChatInv, ChatTypes
    <3>2. \A c : /\ Where(session, c)' = Where(session', c)
                 /\ Once(session, c)' <=> Once(session', c)
      BY DEF Where, Once
    <3>3. Sound(session)' <=> Sound(session')
      BY DEF Sound
    <3>4. QED
      BY <2>1, <2>2, <2>3, <3>1, <3>2, <3>3
  <2>6. ChatTypes'
    BY <1>1, <2>2, <2>4 DEF ChatTypes
  <2>7. Exclusive'
    BY <1>1, <2>2, <2>3 DEF ChatInv, Exclusive, StandsIn, Others
  <2>8. Numbered'
    BY <1>1, <2>2, <2>3, <2>5 DEF ChatInv, ChatTypes, Numbered, Active, StandsIn, Others, Where
  <2>9. ASSUME NEW u \in Thread PROVE Working(u)'
    <3>1. CASE u = t
      BY <1>1, <2>2, <2>3, <2>5, <3>1 DEF Working, Active, Kept, StandsIn
    <3>2. CASE u # t
      <4>1. th'[u] = th[u] /\ ~StandsIn(u, {"check", "ask", "write", "unlink", "unlink2"})
        BY <1>1, <2>2, <2>3, <3>2, AloneAtWork DEF StandsIn, Others
      <4>2. Active(u) => th[u].call \in Nat /\ th[u].call # th[t].call
        BY <1>1, <3>2 DEF ChatInv, ChatTypes, Numbered, Active, CallType
      <4>3. Working(u) /\ (StandsIn(u, {"told"}) /\ th[u].code = "ok" => th[u].op # "delete")
        BY <2>3 DEF ChatInv, Working
      <4>4. QED
        BY <2>3, <2>5, <4>1, <4>2, <4>3 DEF Working, Active, Kept, StandsIn
    <3>3. QED
      BY <3>1, <3>2
  <2>10. Answered'
    <3>1. answer[th[t].call] = "none"
      BY <1>1 DEF ChatInv, Numbered, Active
    <3>2. QED
      BY <1>1, <2>3, <2>5, <3>1 DEF ChatInv, Answered
  <2>11. QED
    BY <2>6, <2>7, <2>8, <2>9, <2>10 DEF ChatInv
<1>4. QED
  BY <1>2, <1>3 DEF WriteSession

LEMMA UnlinkKeepsChat ==
  ASSUME ChatInv, NEW t \in Thread, Unlink(t)
  PROVE  ChatInv'
<1>1. /\ ChatTypes /\ th[t] \in CallType /\ <<>> \in Seq({r.truth : r \in Replies})
      /\ UNCHANGED <<inodes, calls, born, answer>> /\ th[t].at \in {"unlink", "unlink2"}
  <2>1. ChatTypes /\ th[t] \in CallType /\ <<>> \in Seq({r.truth : r \in Replies})
    BY DEF ChatInv, ChatTypes
  <2>2. UNCHANGED <<inodes, calls, born, answer>> /\ th[t].at \in {"unlink", "unlink2"}
    BY DEF Unlink, Calls
  <2>3. QED
    BY <2>1, <2>2
<1>2. /\ th[t].op = "delete" /\ th[t].holds /\ Where(session, th[t].call) = {}
  BY <1>1 DEF ChatInv, Working, Exclusive, Active, Kept, StandsIn
<1>3. CASE th[t].at = "unlink" /\ session' = NoFile /\ UNCHANGED lock /\ Set(t, "unlink2")
  <2> DEFINE new == [th[t] EXCEPT !.at = "unlink2"]
  <2>1. /\ new \in CallType /\ new.at = "unlink2" /\ new.op = th[t].op
        /\ new.call = th[t].call /\ new.fd = th[t].fd /\ new.holds = th[t].holds
    BY <1>1 DEF CallType, Stands
  <2>2. th' = [th EXCEPT ![t] = new]
    BY <1>1, <1>3 DEF Set, CallType, ChatTypes
  <2> HIDE DEF new
  <2>3. th' \in [Thread -> CallType] /\ Others(t) /\ th'[t] = new
    BY <1>1, <2>1, <2>2, Changed DEF Others
  <2>4. session' \in Chats /\ ~session'.there /\ session'.log = <<>>
    <3>1. NoProject.kind = Nul
      BY DEF NoProject
    <3>2. Nul \in Texts
      BY <3>1 DEF Texts
    <3>3. QED
      BY <1>3, <3>2 DEF NoFile, Chats, NoProject
  <2>5. Sound(session)' /\ (\A c : Where(session, c)' = {})
    BY <2>4 DEF Sound, Where
  <2>6. ChatTypes'
    BY <1>1, <1>3, <2>3, <2>4 DEF ChatTypes
  <2>7. Exclusive'
    <3>1. Exclusive /\ UNCHANGED <<lock, inodes>> /\ ~session'.there
      BY <1>1, <1>3, <2>4 DEF ChatInv
    <3>2. /\ th[t].at = "unlink" /\ new.at = "unlink2"
          /\ new.fd = th[t].fd /\ new.holds = th[t].holds /\ th[t].holds
      BY <1>2, <1>3, <2>1
    <3>3. th'[t].at = "unlink2" /\ th'[t].fd = th[t].fd /\ th'[t].holds = th[t].holds
      BY <2>1, <2>3
    <3>4. ASSUME NEW u \in Thread
          PROVE  /\ StandsIn(u, {"read", "check", "ask", "write", "unlink", "unlink2"})' => th'[u].holds
                 /\ StandsIn(u, {"idle", "open", "flock"})' => ~th'[u].holds
                 /\ ~StandsIn(u, {"idle", "open"})' => th'[u].fd # NoLock
      <4>1. CASE u = t
        BY <3>1, <3>2, <3>3, <4>1 DEF Exclusive, StandsIn
      <4>2. CASE u # t
        BY <2>3, <3>1, <4>2 DEF Exclusive, StandsIn, Others
      <4>3. QED
        BY <4>1, <4>2
    <3>5. ASSUME NEW u \in Thread, NEW v \in Thread,
                 th'[u].holds, th'[v].holds, th'[u].fd = th'[v].fd
          PROVE  u = v
      <4>1. \A w \in Thread : (th'[w].holds => th[w].holds) /\ th'[w].fd = th[w].fd
        BY <2>3, <3>2, <3>3 DEF Others
      <4>2. QED
        BY <3>1, <3>5, <4>1 DEF Exclusive
    <3>6. QED
      BY <3>1, <3>4, <3>5 DEF Exclusive
  <2>8. Numbered'
    BY <1>1, <1>3, <2>1, <2>3, <2>5 DEF ChatInv, Numbered, Active, StandsIn, Others
  <2>9. ASSUME NEW u \in Thread PROVE Working(u)'
    <3>1. CASE u = t
      BY <1>2, <2>1, <2>3, <2>4, <2>5, <3>1 DEF Working, Active, Kept, StandsIn
    <3>2. CASE u # t
      <4>1. th'[u] = th[u]
        BY <2>3, <3>2 DEF Others
      <4>2. ~StandsIn(u, {"check", "ask", "write"})
        <5>1. StandsIn(u, {"check", "ask", "write"}) => session.there
          BY DEF ChatInv, Working, StandsIn
        <5>2. QED
          BY <1>3, <3>2, <5>1, AloneAtWork DEF StandsIn
      <4>3. Working(u)
        BY DEF ChatInv
      <4>4. QED
        BY <2>4, <2>5, <4>1, <4>2, <4>3 DEF Working, Active, Kept, StandsIn
    <3>3. QED
      BY <3>1, <3>2
  <2>10. Answered'
    BY <1>1, <2>4, <2>5 DEF ChatInv, Answered
  <2>11. QED
    BY <2>6, <2>7, <2>8, <2>9, <2>10 DEF ChatInv
<1>4. CASE th[t].at = "unlink2" /\ lock' = NoLock /\ UNCHANGED session /\ Answer(t, "ok", <<>>)
  <2>1. /\ th' \in [Thread -> CallType] /\ Others(t)
        /\ th'[t].at = "told" /\ th'[t].code = "ok"
        /\ th'[t].op = th[t].op /\ th'[t].call = th[t].call
        /\ th'[t].fd = th[t].fd /\ th'[t].holds = th[t].holds
    <3>1. "ok" \in Codes
      BY DEF Codes
    <3>2. QED
      BY <1>1, <1>4, <3>1, AnswerEffect
  <2>2. ~session.there
    BY <1>4 DEF ChatInv, Working, StandsIn
  <2>3. ChatTypes'
    BY <1>1, <1>4, <2>1 DEF ChatTypes, NoLock
  <2>4. Exclusive'
    BY <1>1, <1>2, <1>4, <2>1, <2>2 DEF ChatInv, ChatTypes, Exclusive, StandsIn, Others, NoLock
  <2>5. Numbered'
    BY <1>1, <1>4, <2>1 DEF ChatInv, Numbered, Active, StandsIn, Others, Where
  <2>6. ASSUME NEW u \in Thread PROVE Working(u)'
    BY <1>1, <1>2, <1>4, <2>1, <2>2 DEF ChatInv, Working, Active, Kept, StandsIn, Others, Where, Once
  <2>7. Answered'
    BY <1>1, <1>4 DEF ChatInv, Answered, Where, Once, Sound
  <2>8. QED
    BY <2>3, <2>4, <2>5, <2>6, <2>7 DEF ChatInv
<1>5. QED
  BY <1>3, <1>4 DEF Unlink

LEMMA ReplyKeepsChat ==
  ASSUME ChatInv, NEW t \in Thread, Reply(t)
  PROVE  ChatInv'
<1> DEFINE word == IF th[t].code # "ok" THEN "no"
                   ELSE IF th[t].op = "turn" THEN "kept" ELSE "deleted"
<1>1. /\ ChatTypes /\ UNCHANGED <<session, lock, inodes, calls, born>> /\ th[t].at = "told"
      /\ th' = [th EXCEPT ![t] = NoCall] /\ th[t] \in CallType
      /\ answer' = [answer EXCEPT ![th[t].call] = word]
  BY DEF ChatInv, ChatTypes, Reply, Disk
<1>2. /\ th' \in [Thread -> CallType] /\ Others(t) /\ th'[t] = NoCall
      /\ NoCall.at = "idle" /\ ~NoCall.holds
  BY <1>1, NoCallIs, Changed DEF Others
<1>3. /\ th[t].call \in 1..calls /\ calls <= MaxCalls /\ calls \in Nat /\ born
  BY <1>1 DEF ChatInv, ChatTypes, Numbered, Active
<1>4. th[t].call \in 1..MaxCalls
  BY <1>3, ChatAssumption
<1>5. /\ word \in {"no", "kept", "deleted"}
      /\ word = "deleted" => ~session.there
      /\ word = "kept" /\ session.there => Once(session, th[t].call)
      /\ word = "no" => Where(session, th[t].call) = {}
  BY <1>1 DEF ChatInv, Working, Active, Kept, StandsIn, CallType
<1> HIDE DEF word
<1>6. /\ answer' \in [1..MaxCalls -> {"none", "no", "kept", "deleted"}]
      /\ answer'[th[t].call] = word
      /\ \A c \in 1..MaxCalls : c # th[t].call => answer'[c] = answer[c]
  BY <1>1, <1>4, <1>5 DEF ChatTypes
<1>7. ChatTypes'
  BY <1>1, <1>2, <1>6 DEF ChatTypes
<1>8. Exclusive'
  BY <1>1, <1>2 DEF ChatInv, Exclusive, StandsIn, Others
<1>9. Numbered'
  <2>1. \A u \in Thread : (Active(u) => u # t /\ th[u].call \in 1..MaxCalls)'
    BY <1>1, <1>2, <1>3, ChatAssumption DEF ChatInv, Numbered, Active, Others
  <2>2. \A c \in 1..MaxCalls : c > calls => c # th[t].call
    BY <1>3
  <2>3. QED
    BY <1>1, <1>2, <1>3, <1>6, <2>1, <2>2 DEF ChatInv, Numbered, Active, Others, Where
<1>10. ASSUME NEW u \in Thread PROVE Working(u)'
  BY <1>1, <1>2 DEF ChatInv, Working, Active, Kept, StandsIn, Others, Where, Once
<1>11. Answered'
  BY <1>1, <1>5, <1>6 DEF ChatInv, Answered, Where, Once, Sound
<1>12. QED
  BY <1>7, <1>8, <1>9, <1>10, <1>11 DEF ChatInv

LEMMA CallKeepsChat ==
  ASSUME ChatInv, NEW t \in Thread, NEW does \in {"turn", "delete"}, Call(t, does)
  PROVE  ChatInv'
<1> DEFINE new == [NoCall EXCEPT !.at = "open", !.op = does, !.call = calls + 1]
<1>1. /\ ChatTypes /\ UNCHANGED <<session, lock, inodes, born, answer>> /\ th[t].at = "idle"
      /\ calls \in Nat /\ calls' = calls + 1 /\ calls' \in 1..MaxCalls /\ session.there
      /\ th' = [th EXCEPT ![t] = new]
  BY ChatAssumption DEF ChatInv, ChatTypes, Call, Disk
<1>2. /\ new \in CallType /\ new.at = "open" /\ new.call = calls + 1 /\ ~new.holds
  <2>1. NoCall \in CallType /\ calls + 1 \in Nat
    BY <1>1, NoCallIs
  <2>2. new \in CallType /\ new.at = "open" /\ new.call = calls + 1 /\ new.holds = NoCall.holds
    BY <2>1 DEF CallType, Stands
  <2>3. QED
    BY <2>2, NoCallIs
<1> HIDE DEF new
<1>3. th' \in [Thread -> CallType] /\ Others(t) /\ th'[t] = new
  BY <1>1, <1>2, Changed DEF Others
<1>4. born
  BY <1>1, NoCallIs DEF ChatInv, Numbered
<1>5. ChatTypes'
  BY <1>1, <1>3 DEF ChatTypes
<1>6. Exclusive'
  BY <1>1, <1>2, <1>3 DEF ChatInv, Exclusive, StandsIn, Others
<1>7. answer[calls + 1] = "none" /\ Where(session, calls + 1) = {}
  BY <1>1 DEF ChatInv, Numbered
<1>8. Numbered'
  BY <1>1, <1>2, <1>3, <1>4, <1>7 DEF ChatInv, ChatTypes, Numbered, Active, Others, Where
<1>9. ASSUME NEW u \in Thread PROVE Working(u)'
  <2>1. CASE u = t
    BY <1>1, <1>2, <1>3, <1>7, <2>1 DEF Working, Active, Kept, StandsIn, Where
  <2>2. CASE u # t
    BY <1>1, <1>3, <2>2 DEF ChatInv, Working, Active, Kept, StandsIn, Others, Where, Once
  <2>3. QED
    BY <2>1, <2>2
<1>10. Answered'
  BY <1>1 DEF ChatInv, Answered, Where, Once, Sound
<1>11. QED
  BY <1>5, <1>6, <1>8, <1>9, <1>10 DEF ChatInv

LEMMA CreateKeepsChat ==
  ASSUME ChatInv, Create
  PROVE  ChatInv'
<1>1. PICK kind \in {Nul, "video"} :
         session' = [NoFile EXCEPT !.there = TRUE, !.kind = kind]
  BY DEF Create
<1>2. UNCHANGED <<lock, inodes, th, calls, answer>> /\ ~born /\ born'
  BY DEF Create
<1>3. session' \in Chats /\ session'.log = <<>>
  <2>1. NoProject.kind = Nul
    BY DEF NoProject
  <2>2. Nul \in Texts /\ "video" \in Texts
    BY <2>1 DEF Texts
  <2>3. QED
    BY <1>1, <2>2, NoCallIs DEF Chats
<1>4. \A t \in Thread : ~Active(t)
  BY <1>2 DEF ChatInv, Numbered
<1>5. Sound(session)' /\ (\A c : Where(session, c)' = {})
  BY <1>3 DEF Sound, Where
<1>6. calls = 0 /\ \A c \in 1..MaxCalls : answer[c] = "none"
  BY <1>2 DEF ChatInv, Numbered
<1>7. ChatTypes'
  BY <1>2, <1>3 DEF ChatInv, ChatTypes
<1>8. Exclusive' /\ \A t \in Thread : Working(t)'
  BY <1>2, <1>4 DEF ChatInv, Exclusive, Working, Active, Kept, StandsIn
<1>9. Numbered' /\ Answered'
  BY <1>2, <1>4, <1>5, <1>6 DEF Numbered, Answered, Active
<1>10. QED
  BY <1>7, <1>8, <1>9 DEF ChatInv

LEMMA DieKeepsChat ==
  ASSUME ChatInv, Die
  PROVE  ChatInv'
<1>1. /\ th' = [t \in Thread |-> NoCall]
      /\ UNCHANGED <<session, lock, inodes, calls, born, answer>>
  BY DEF Die, Disk
<1>2. ChatTypes'
  BY <1>1, NoCallIs DEF ChatInv, ChatTypes
<1>3. Exclusive' /\ \A t \in Thread : Working(t)'
  BY <1>1, NoCallIs DEF ChatInv, Exclusive, Working, Active, Kept, StandsIn
<1>4. Numbered' /\ Answered'
  BY <1>1, NoCallIs DEF ChatInv, Numbered, Answered, Active, Where, Once, Sound
<1>5. QED
  BY <1>2, <1>3, <1>4 DEF ChatInv

LEMMA ChatStep == ChatInv /\ [ChatNext]_chatVars => ChatInv'
<1> SUFFICES ASSUME ChatInv, [ChatNext]_chatVars PROVE ChatInv'
  OBVIOUS
<1>1. CASE UNCHANGED chatVars
  BY <1>1 DEF chatVars, ChatInv, ChatTypes, Exclusive, Numbered, Working, Answered, Active, Kept,
              StandsIn, Where, Once, Sound
<1>2. CASE Create
  BY <1>2, CreateKeepsChat
<1>3. CASE Die
  BY <1>3, DieKeepsChat
<1>4. ASSUME NEW t \in Thread, Step(t) PROVE ChatInv'
  BY <1>4, OpenLockKeepsChat, FlockKeepsChat, ReadKeepsChat, CheckKeepsChat, TurnKeepsChat,
     WriteSessionKeepsChat, UnlinkKeepsChat, ReplyKeepsChat DEF Step
<1>5. ASSUME NEW t \in Thread, NEW does \in {"turn", "delete"}, Call(t, does) PROVE ChatInv'
  BY <1>5, CallKeepsChat
<1>6. QED
  BY <1>1, <1>2, <1>3, <1>4, <1>5 DEF ChatNext

\* The session, its lock and its calls are always as ChatInv says, whatever overlaps
\* and whoever dies (web.py's _locked_turn and _delete_chat).
THEOREM ChatHolds == ChatSpec => []ChatInv
<1>1. ChatInit => ChatInv
  BY ChatStarts
<1>2. ChatInv /\ [ChatNext]_chatVars => ChatInv'
  BY ChatStep
<1>3. QED
  BY <1>1, <1>2, PTL DEF ChatSpec

\* An answered turn is in the session once, a refused one is not, and a session whose
\* deletion was answered stays deleted (web.py's _locked_turn and _delete_chat).
THEOREM ChatKeepsExchanges == ChatSpec => []ExchangesKept
<1>1. ChatInv => ExchangesKept
  <2> SUFFICES ASSUME ChatInv PROVE ExchangesKept
    OBVIOUS
  <2> DEFINE Times(c) == Cardinality({i \in DOMAIN session.log : session.log[i].call = c})
  <2>1. \A c : Once(session, c) => Times(c) = 1
    BY FS_Singleton DEF Once, Where
  <2>2. \A c : Where(session, c) = {} => Times(c) = 0
    BY FS_EmptySet DEF Where
  <2>3. \A c \in 1..calls : c \in 1..MaxCalls
    BY ChatAssumption DEF ChatInv, ChatTypes
  <2> HIDE DEF Times
  <2>4. /\ Sound(session)
        /\ \A c \in 1..calls :
              /\ answer[c] = "deleted" => ~session.there
              /\ answer[c] = "kept" /\ session.there => Times(c) = 1
              /\ answer[c] = "no" => Times(c) = 0
    BY <2>1, <2>2, <2>3 DEF ChatInv, Answered
  <2>5. QED
    BY <2>4 DEF ExchangesKept, Times
<1>2. QED
  BY <1>1, ChatHolds, PTL

-----------------------------------------------------------------------------
(* What the session says of its project.                                   *)

Given(chat)   == {i \in DOMAIN chat.log : chat.log[i].project.given}
Said(chat, f) == {i \in Given(chat) : chat.log[i].project[f] # Nul}

\* v is what was said last in a field.
LastSaid(chat, f, v) ==
  IF Said(chat, f) = {} THEN v = Nul
  ELSE \E i \in Said(chat, f) :
         v = chat.log[i].project[f] /\ \A j \in Said(chat, f) : j <= i

Follows(chat) ==
  /\ LastSaid(chat, "kind", chat.project.kind)
  /\ LastSaid(chat, "scenes", chat.project.scenes)
  /\ Given(chat) # {} =>
       chat.kind = IF chat.project.kind \in ChatKinds THEN chat.project.kind ELSE Nul

LEMMA ExtendedFollows ==
  ASSUME NEW chat \in Chats, NEW call \in Nat, NEW reply \in Replies, Follows(chat)
  PROVE  Follows(Extended(chat, call, reply))
<1> DEFINE longer  == Extended(chat, call, reply)
           project == reply.project
           new     == Len(chat.log) + 1
           merged  == Merged(chat, project)
<1>1. /\ DOMAIN longer.log = DOMAIN chat.log \cup {new}
      /\ new \in Nat /\ \A i \in DOMAIN chat.log : i \in Nat /\ i < new
      /\ \A i \in DOMAIN chat.log : longer.log[i] = chat.log[i]
      /\ longer.log[new].project = project
      /\ longer.project = merged.project /\ longer.kind = merged.kind
  <2>1. Entry(call, reply).project = project
    BY DEF Entry
  <2>2. /\ DOMAIN longer.log = DOMAIN chat.log \cup {new}
        /\ \A i \in DOMAIN chat.log : longer.log[i] = chat.log[i]
        /\ longer.log[new] = Entry(call, reply)
        /\ longer.project = merged.project /\ longer.kind = merged.kind
    BY SessionExtends
  <2>3. new \in Nat /\ \A i \in DOMAIN chat.log : i \in Nat /\ i < new
    BY DEF Chats
  <2> HIDE DEF longer, new, merged, project
  <2>4. QED
    BY <2>1, <2>2, <2>3
<1> HIDE DEF longer, new, merged
<1>2. CASE ~project.given
  <2>1. merged = chat
    BY <1>2 DEF Merged, merged
  <2>2. Given(longer) = Given(chat)
    BY <1>1, <1>2 DEF Given
  <2>3. \A f : Said(longer, f) = Said(chat, f)
    BY <1>1, <2>2 DEF Said, Given
  <2>4. \A f, v : LastSaid(chat, f, v) => LastSaid(longer, f, v)
    BY <1>1, <2>3 DEF LastSaid, Said, Given
  <2>5. QED
    BY <1>1, <2>1, <2>2, <2>4 DEF Follows, longer
<1>3. CASE project.given
  <2> DEFINE kind   == IF project.kind = Nul THEN chat.project.kind ELSE project.kind
             scenes == IF project.scenes = Nul THEN chat.project.scenes ELSE project.scenes
  <2>1. /\ merged.project.kind = kind /\ merged.project.scenes = scenes
        /\ merged.kind = IF kind \in ChatKinds THEN kind ELSE Nul
    BY <1>3 DEF Merged, merged, Chats
  <2>2. Given(longer) = Given(chat) \cup {new}
    BY <1>1, <1>3 DEF Given
  <2>3. ASSUME NEW f, NEW v, LastSaid(chat, f, v)
        PROVE  LastSaid(longer, f, IF project[f] = Nul THEN v ELSE project[f])
    <3>1. CASE project[f] = Nul
      <4>1. Said(longer, f) = Said(chat, f)
        BY <1>1, <2>2, <3>1 DEF Said, Given
      <4>2. QED
        BY <1>1, <2>3, <3>1, <4>1 DEF LastSaid, Said, Given
    <3>2. CASE project[f] # Nul
      <4>1. Said(longer, f) = Said(chat, f) \cup {new}
        BY <1>1, <2>2, <3>2 DEF Said, Given
      <4>2. \A j \in Said(longer, f) : j <= new
        BY <1>1, <4>1 DEF Said, Given
      <4>3. QED
        BY <1>1, <3>2, <4>1, <4>2 DEF LastSaid
    <3>3. QED
      BY <3>1, <3>2
  <2>4. LastSaid(longer, "kind", kind) /\ LastSaid(longer, "scenes", scenes)
    BY <2>3 DEF Follows
  <2> HIDE DEF kind, scenes
  <2>5. QED
    BY <1>1, <2>1, <2>4 DEF Follows, longer
<1>4. QED
  BY <1>2, <1>3

\* The session is as it was, gone, new, or longer by an exchange.
LEMMA SessionMoves ==
  ASSUME ChatInv, [ChatNext]_chatVars
  PROVE  \/ session' = session
         \/ session' \in Chats /\ session'.log = <<>> /\ session'.project = NoProject
         \/ \E call \in Nat, reply \in Replies : session' = Extended(session, call, reply)
<1>1. CASE Create
  <2>1. PICK kind \in {Nul, "video"} :
           session' = [NoFile EXCEPT !.there = TRUE, !.kind = kind]
    BY <1>1 DEF Create
  <2>2. session'.project = NoProject /\ session'.log = <<>>
    BY <2>1 DEF NoFile
  <2>3. QED
    BY <1>1, <2>2, CreateKeepsChat DEF ChatInv, ChatTypes
<1>2. ASSUME NEW t \in Thread, WriteSession(t), session' # session
      PROVE  \E call \in Nat, reply \in Replies : session' = Extended(session, call, reply)
  <2>1. session' = th[t].seen /\ th[t].at = "write" /\ Working(t) /\ th[t] \in CallType
    BY <1>2 DEF WriteSession, ChatInv, ChatTypes
  <2>2. th[t].call \in Nat
    BY <2>1 DEF CallType
  <2>3. QED
    BY <2>1, <2>2 DEF Working, StandsIn
<1>3. ASSUME NEW t \in Thread, Unlink(t), session' # session
      PROVE  session' = NoFile
  BY <1>3 DEF Unlink
<1>4. NoFile \in Chats /\ NoFile.log = <<>> /\ NoFile.project = NoProject
  BY NoCallIs DEF NoFile
<1>5. ASSUME NEW t \in Thread, Step(t), ~WriteSession(t), ~Unlink(t) PROVE session' = session
  BY <1>5 DEF Step, OpenLock, Flock, Read, Check, Turn, Reply, Disk
<1>6. ASSUME \/ Die \/ UNCHANGED chatVars
             \/ \E t \in Thread : \E does \in {"turn", "delete"} : Call(t, does)
      PROVE  session' = session
  BY <1>6 DEF Die, chatVars, Call, Disk
<1>7. QED
  BY <1>1, <1>2, <1>3, <1>4, <1>5, <1>6 DEF ChatNext

\* What the session says of its project is what its turns have last said of it, field by
\* field, and its kind is the project's (web.py's _locked_turn, where it merges a turn).
THEOREM ChatProjectFollows == ChatSpec => []ProjectFollows
<1>1. ASSUME NEW chat \in Chats, chat.log = <<>>, chat.project = NoProject
      PROVE  Follows(chat)
  <2>1. Given(chat) = {}
    BY <1>1 DEF Given
  <2>2. \A f : Said(chat, f) = {}
    BY <2>1 DEF Said
  <2>3. NoProject.kind = Nul /\ NoProject.scenes = Nul
    BY DEF NoProject
  <2>4. QED
    BY <1>1, <2>1, <2>2, <2>3 DEF Follows, LastSaid
<1>2. ChatInit => Follows(session)
  <2>1. NoFile.project = NoProject
    BY DEF NoFile
  <2>2. QED
    BY <1>1, <2>1, NoCallIs DEF ChatInit
<1>3. ChatInv /\ Follows(session) /\ [ChatNext]_chatVars => Follows(session)'
  <2> SUFFICES ASSUME ChatInv, Follows(session), [ChatNext]_chatVars PROVE Follows(session')
    BY DEF Follows, LastSaid, Said, Given
  <2>1. session \in Chats
    BY DEF ChatInv, ChatTypes
  <2>2. QED
    BY <1>1, <2>1, SessionMoves, ExtendedFollows
<1>4. ChatInv /\ Follows(session) => ProjectFollows
  <2> SUFFICES ASSUME ChatInv, Follows(session) PROVE ProjectFollows
    OBVIOUS
  <2> DEFINE told    == {i \in DOMAIN session.log : session.log[i].project.given}
             said(f) == {i \in told : session.log[i].project[f] # Nul}
             last(f) == CHOOSE i \in said(f) : \A j \in said(f) : j <= i
  <2>1. told = Given(session) /\ \A f : said(f) = Said(session, f)
    BY DEF Given, Said
  <2>2. \A f : \A i \in said(f) : i \in Nat
    BY DEF ChatInv, ChatTypes, Chats
  <2> HIDE DEF told, said
  <2>3. ASSUME NEW f, NEW v, LastSaid(session, f, v)
        PROVE  v = IF said(f) = {} THEN Nul ELSE session.log[last(f)].project[f]
    <3>1. CASE said(f) = {}
      BY <2>1, <2>3, <3>1 DEF LastSaid
    <3>2. CASE said(f) # {}
      <4>1. PICK i \in said(f) :
               v = session.log[i].project[f] /\ \A j \in said(f) : j <= i
        BY <2>1, <2>3, <3>2 DEF LastSaid
      <4>2. last(f) \in said(f) /\ \A j \in said(f) : j <= last(f)
        BY <4>1
      <4>3. last(f) = i
        BY <2>2, <4>1, <4>2
      <4> HIDE DEF last
      <4>4. QED
        BY <3>2, <4>1, <4>3
    <3>3. QED
      BY <3>1, <3>2
  <2>4. \A f \in {"kind", "scenes"} :
          session.project[f] = IF said(f) = {} THEN Nul ELSE session.log[last(f)].project[f]
    BY <2>3 DEF Follows
  <2>5. QED
    BY <2>1, <2>4 DEF ProjectFollows, Follows, told, said
<1>5. QED
  BY <1>2, <1>3, <1>4, ChatHolds, PTL DEF ChatSpec
=============================================================================
