------------------------------ MODULE ClipGates ------------------------------
(***************************************************************************)
(* The gates of a clip or song project before its scenes: the script is    *)
(* approved and a song job runs, the track is approved, a scenario is      *)
(* written and approved, the scenes are cut from it and the chain of       *)
(* ProjectChain begins.  Requests of the web server (h3_48gb/web.py) and   *)
(* the worker's song job share project.json; a request looks once, works   *)
(* (an LLM turn takes a minute) and then writes, so what it saw may be     *)
(* gone by then.  Every step is one read or one locked write.              *)
(*                                                                         *)
(* A take is named by the press that asked for it, as is a scenario; the   *)
(* take of an imported track is always the same one.                       *)
(***************************************************************************)
EXTENDS Naturals, FiniteSets

CONSTANTS Pages,        \* requests the web server handles at a time
          MaxPresses,   \* bound on the buttons pressed
          MaxFaults,    \* bound on deaths and failed songs
          Null

ASSUME GatesAssumption == MaxPresses \in Nat /\ MaxFaults \in Nat

VARIABLES file,      \* project.json
          song,      \* the project's song job in pending/ or running/
          wpc,       \* the worker
          op,        \* where each request is, and what it saw
          presses, faults,
          blame      \* what happened that a property makes an exception of (history)

vars == <<file, song, wpc, op, presses, faults, blame>>

Kinds  == {"clip", "legacy", "song"}   \* legacy: a clip from before the scenario stage
Stages == {"script", "track", "scenario", "scenes"}
Statuses == {"draft", "awaiting_approval", "approved", "running", "done", "failed"}
Imported == 0
TakeIds == 0..MaxPresses \cup {Null}
NoStory == [n |-> 0, of |-> Null]
NoCut   == [story |-> NoStory, take |-> Null]
NoSong  == [state |-> "none", id |-> 0, cancel |-> FALSE]
Idle    == [pc |-> "idle", gate |-> Null, id |-> 0, seen |-> Null, stale |-> FALSE]

Init ==
  /\ \E kind \in Kinds, import \in BOOLEAN, sglang \in BOOLEAN :
       /\ import => kind # "song"
       /\ file = [kind |-> kind, import |-> import, sglang |-> sglang,
                  stage |-> [s \in Stages |->
                     CASE s = "script" -> "awaiting_approval"
                       [] s = "scenario" /\ kind # "clip" -> "approved"
                       [] OTHER -> "draft"],
                  take |-> Null, story |-> NoStory, cut |-> NoCut]
  /\ song = NoSong /\ wpc = "idle"
  /\ op = [p \in Pages |-> Idle]
  /\ presses = 0 /\ faults = 0 /\ blame = {}

Stage(s) == file.stage[s]
Staged(s, v) == [file EXCEPT !.stage[s] = v]

Fault == faults < MaxFaults /\ faults' = faults + 1

-----------------------------------------------------------------------------
(* How a request looks and writes                                          *)

At(p, pc) == op[p].pc = pc

\* A button: the request reads the project.
Look(p, pc, gate) ==
  /\ At(p, "idle")
  /\ presses < MaxPresses
  /\ presses' = presses + 1
  /\ op' = [op EXCEPT ![p] = [pc |-> pc, gate |-> gate, id |-> presses + 1,
                              seen |-> IF pc \in {"cut", "content"} THEN file ELSE Null, stale |-> FALSE]]
  /\ UNCHANGED <<file, song, wpc, faults, blame>>

Leave(p) ==
  /\ op' = [op EXCEPT ![p] = Idle]
  /\ UNCHANGED <<file, song, wpc, presses, faults, blame>>

Goto(p, pc) == IF pc = "idle" THEN Idle ELSE [op[p] EXCEPT !.pc = pc]

\* The track is approved while another song is asked for already.
Unheard(gate) == gate = "track" /\ song # NoSong /\ wpc # "file"

\* Whoever else is under way has seen a project that is no more.
Write(p, f, pc) ==
  /\ file' = f
  /\ op' = [q \in Pages |->
       IF q = p THEN Goto(p, pc)
       ELSE IF f # file /\ ~At(q, "idle") THEN [op[q] EXCEPT !.stale = TRUE] ELSE op[q]]
  /\ blame' = blame
       \cup (IF op[p].stale \/ (At(p, "approve") /\ Unheard(op[p].gate)) THEN {"raced"} ELSE {})
       \cup (IF At(p, "cut") /\ op[p].seen # file THEN {"saved"} ELSE {})
  /\ UNCHANGED <<song, wpc, presses, faults>>

-----------------------------------------------------------------------------
(* approve/script, approve/track, approve/scenario: what a gate starts     *)
(* comes first, the approval last                                          *)

ApproveScript(p) ==
  /\ Stage("script") = "awaiting_approval"
  /\ Look(p, IF file.sglang /\ file.import THEN "measure" ELSE "submit", "script")

\* _measure_imported_track: a track that cannot be read or is too short is refused.
Measure(p) ==
  /\ At(p, "measure")
  /\ Leave(p) \/ Write(p, [file EXCEPT !.take = Imported], "measured")

Measured(p) ==
  /\ At(p, "measured")
  /\ Write(p, Staged("track", "approved"), "approve")

\* _submit_project_song_job: one song job of a project at a time (its output stem).
Submit(p) ==
  /\ At(p, "submit")
  /\ \/ song # NoSong /\ Leave(p)
     \/ /\ song = NoSong
        /\ song' = [state |-> "pending", id |-> op[p].id, cancel |-> FALSE]
        /\ op' = [op EXCEPT ![p].pc = IF op[p].gate = "retry" THEN "run" ELSE "approve"]
        /\ blame' = blame
             \cup (IF op[p].stale THEN {"raced"} ELSE {})
             \cup (IF op[p].gate = "script" /\ Stage("track") # "draft" THEN {"again"} ELSE {})
        /\ UNCHANGED <<file, wpc, presses, faults>>

\* A project from before the scenario stage is cut here; a song is done here.
ApproveTrack(p) ==
  /\ Stage("track") = "awaiting_approval"
  /\ Look(p, CASE file.kind = "song" -> "noScenes"
               [] /\ file.kind # "song"
                  /\ Stage("scenario") = "approved" /\ file.story = NoStory -> "cut"
               [] OTHER -> "approve", "track")

NoScenes(p) ==
  /\ At(p, "noScenes")
  /\ Write(p, Staged("scenes", "done"), "approve")

\* Mutant: the scenario is approved before its scenes are cut.
ApproveScenarioFirst(p) ==
  /\ file.kind = "clip"
  /\ Stage("scenario") = "awaiting_approval"
  /\ Look(p, "approve", "scenario")

ApproveScenario(p) ==
  /\ file.kind = "clip"
  /\ Stage("scenario") = "awaiting_approval"
  /\ Look(p, "cut", "scenario")

\* build_clip_scenes of what was seen, or its refusal; the project is saved whole.
Cut(p) ==
  /\ At(p, "cut")
  /\ \/ Leave(p)
     \/ LET seen == op[p].seen
        IN Write(p, [seen EXCEPT !.cut = [story |-> seen.story, take |-> seen.take]], "advance")

\* advance_project submits the first scene, or cannot, and leaves the stage it set.
Advance(p) ==
  /\ At(p, "advance")
  /\ \/ Leave(p)
     \/ \E pc \in {"approve", "idle"} : Write(p, Staged("scenes", "running"), pc)

ApproveStage(p) ==
  /\ At(p, "approve")
  /\ Write(p, Staged(op[p].gate, "approved"), "idle")

-----------------------------------------------------------------------------
(* scenario/generate, PUT scenario, track/retry                            *)

\* _scenario_gate_project and the gate's own status.
ScenarioOpen ==
  /\ file.kind # "song"
  /\ Stage("track") = "approved"
  /\ Stage("scenario") \in {"draft", "awaiting_approval"}

Generate(p) == ScenarioOpen /\ Look(p, "content", "scenario")
Edit(p)     == ScenarioOpen /\ Look(p, "content", "scenario")

\* The scenario covers the track that was seen; a turn that failed or does not, is
\* refused.  The content is written before the gate is opened.
Content(p) ==
  /\ At(p, "content")
  /\ \/ Leave(p)
     \/ Write(p, [file EXCEPT !.story = [n |-> op[p].id, of |-> op[p].seen.take]], "open")

Open(p) ==
  /\ At(p, "open")
  /\ Write(p, Staged("scenario", "awaiting_approval"), "idle")

\* Mutant: a song that failed cannot be tried again.
RetriableUnlessFailed ==
  /\ Stage("script") = "approved"
  /\ Stage("track") \in {"draft", "awaiting_approval"}

Retriable ==
  /\ Stage("script") = "approved"
  /\ Stage("track") \in {"draft", "awaiting_approval", "failed"}

RetryTrack(p) == Retriable /\ Look(p, "active", "retry")

\* project_is_active: refused while a job of the project waits or runs.
CheckActive(p) ==
  /\ At(p, "active")
  /\ \/ Leave(p)
     \/ /\ song = NoSong
        /\ op' = [op EXCEPT ![p].pc = "submit"]
        /\ UNCHANGED <<file, song, wpc, presses, faults, blame>>

\* The submit has succeeded: only now the stage is running.
Run(p) ==
  /\ At(p, "run")
  /\ file' = Staged("track", "running")
  /\ op' = [q \in Pages |-> IF q = p THEN Idle
                            ELSE IF At(q, "idle") THEN op[q] ELSE [op[q] EXCEPT !.stale = TRUE]]
  /\ blame' = blame \cup (IF op[p].stale THEN {"raced"} ELSE {})
                    \cup (IF song.id # op[p].id \/ wpc = "file" THEN {"outran"} ELSE {})
  /\ UNCHANGED <<song, wpc, presses, faults>>

\* The song that goes was a retry's: its stage is running, or is just to be said so.
Strands == IF Stage("track") = "running" \/ \E p \in Pages : At(p, "run")
           THEN {"withdrawn"} ELSE {}

\* The queue page withdraws the waiting song, or (sglang) marks the running one; the
\* project is not told.
Cancel ==
  /\ song # NoSong
  /\ presses < MaxPresses /\ presses' = presses + 1
  /\ \/ song.state = "pending" /\ song' = NoSong /\ blame' = blame \cup Strands
     \/ song.state = "running" /\ file.sglang /\ song' = [song EXCEPT !.cancel = TRUE]
        /\ UNCHANGED blame
  /\ UNCHANGED <<file, wpc, op, faults>>

PageStep(p) ==
  \/ ApproveScript(p) \/ Measure(p) \/ Measured(p) \/ Submit(p)
  \/ ApproveTrack(p) \/ NoScenes(p) \/ ApproveScenario(p) \/ Cut(p) \/ Advance(p)
  \/ ApproveStage(p)
  \/ Generate(p) \/ Edit(p) \/ Content(p) \/ Open(p)
  \/ RetryTrack(p) \/ CheckActive(p) \/ Run(p)

-----------------------------------------------------------------------------
(* The worker's song job                                                   *)

WorkerWrites(f, pc) ==
  /\ file' = f
  /\ wpc' = pc
  /\ UNCHANGED <<song, op, presses, blame>>

Claim ==
  /\ wpc = "idle" /\ song.state = "pending"
  /\ song' = [song EXCEPT !.state = "running"]
  /\ wpc' = "sing"
  /\ UNCHANGED <<file, op, presses, faults, blame>>

\* run_song or align_track, then update_track; or an exception.
Sing ==
  /\ wpc = "sing"
  /\ \/ /\ WorkerWrites([file EXCEPT !.take = IF file.import THEN Imported ELSE song.id], "tell")
        /\ UNCHANGED faults
     \/ WorkerWrites(file, "fail") /\ Fault

Tell ==
  /\ wpc = "tell"
  /\ WorkerWrites(Staged("track", "awaiting_approval"), "file")
  /\ UNCHANGED faults

\* _mark_track_failed
MarkTrackFailed ==
  /\ wpc = "fail"
  /\ WorkerWrites(Staged("track", "failed"), "file")
  /\ UNCHANGED faults

\* The marker and finish; advance_project finds no scenes of a project this young.
FileSong ==
  /\ wpc = "file"
  /\ wpc' = "idle" /\ song' = NoSong
  /\ UNCHANGED <<file, op, presses, faults, blame>>

WorkerStep == Claim \/ Sing \/ Tell \/ MarkTrackFailed \/ FileSong

\* reconcile: a song with a marker is filed, one that was cancelled too, any other waits again.
WorkerDies ==
  /\ wpc # "idle" /\ Fault
  /\ wpc' = "idle"
  /\ \/ song' = IF song.cancel THEN NoSong ELSE [song EXCEPT !.state = "pending"]
     \/ wpc = "file" /\ song' = NoSong
  /\ blame' = blame \cup (IF song' = NoSong /\ wpc # "file" THEN Strands ELSE {})
                    \cup (IF song' # NoSong /\ wpc = "file" THEN {"resung"} ELSE {})
  /\ UNCHANGED <<file, op, presses>>

PageDies(p) ==
  /\ ~At(p, "idle") /\ Fault
  /\ op' = [op EXCEPT ![p] = Idle]
  /\ UNCHANGED <<file, song, wpc, presses, blame>>

Next ==
  \/ WorkerStep \/ WorkerDies \/ Cancel
  \/ \E p \in Pages : PageStep(p) \/ PageDies(p)

Spec == Init /\ [][Next]_vars

-----------------------------------------------------------------------------
(* Properties                                                              *)

\* Stages have a stage's status, takes and scenarios were asked for by a press, and a
\* job that runs is the worker's.
TypeOK ==
  /\ file.kind \in Kinds /\ file.import \in BOOLEAN /\ file.sglang \in BOOLEAN
  /\ file.stage \in [Stages -> Statuses]
  /\ file.take \in TakeIds
  /\ file.story.n \in 0..MaxPresses /\ file.story.of \in TakeIds
  /\ file.cut.take \in TakeIds
  /\ song.state \in {"none", "pending", "running"}
  /\ song.state = "running" <=> wpc # "idle"
  /\ presses \in 0..MaxPresses /\ faults \in 0..MaxFaults

\* The histories in which a request wrote over what it had not seen: after another
\* write, or beside a song it had not heard; or one song was asked for or sung twice.
Overtaken == {"raced", "again", "resung"}

\* An approved scenario has its scenes: they were cut from this text, and the text was
\* written for this track, whatever was generated, edited or sung in between, but for
\* the same overlaps (_approve_project_stage: build_clip_scenes before the approval).
ScenesAsApproved ==
  /\ file.kind = "clip" /\ Stage("scenario") = "approved"
  /\ blame \cap Overtaken = {}
  => /\ file.cut = [story |-> file.story, take |-> file.take]
     /\ file.story.of = file.take

Quiet == song = NoSong /\ wpc = "idle" /\ \A p \in Pages : At(p, "idle")

\* An imported track on sglang is approved by the script's gate, which for a project
\* from before the scenario stage leaves out the cut that approve/track would make.
Skipped == file.kind = "legacy" /\ file.import /\ file.sglang

\* When nothing is under way some button leads on, whatever died, failed or was refused:
\* no stage is left running, no approval without what it starts.  Known to strand a
\* project: a retried song that is cancelled or over before its stage says running, a
\* whole-file save over another's writes, and the skipped cut above
\* (_approve_project_stage, _retry_project_track, _cancel_job, _mark_track_failed).
NoDeadEnd ==
  Quiet /\ ~Skipped /\ blame \cap {"withdrawn", "outran", "saved"} = {} =>
    \/ Stage("script") = "awaiting_approval" \/ Stage("track") = "awaiting_approval"
    \/ Retriable \/ ScenarioOpen
    \/ Stage("scenes") \in {"running", "done"}
=============================================================================
