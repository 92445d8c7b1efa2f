------------------------------ MODULE ClipScenes ------------------------------
(***************************************************************************)
(* How a clip's scenes come out of its song: the sections heard in the     *)
(* track (songrun.py), the scenario that a model, a person or a procedure  *)
(* writes for it, the gate's validation, and build_clip_scenes, which      *)
(* folds, splits and snaps the sections to what the engine renders         *)
(* (web.py).                                                               *)
(*                                                                         *)
(* A prompt is the number of the section it was written for, 0 the gap's   *)
(* template.  A passport is the text that describes one frame: a number,   *)
(* 0 for none.                                                             *)
(***************************************************************************)
EXTENDS FrameGrid, FiniteSets, Sequences, SequencesExt

CONSTANTS
    Songs,       \* tracks: [duration, count, lines, heard]
    Turns,       \* scenarios a model may answer with
    Edits,       \* scenarios a person may put
    MaxWrites    \* bound: scenarios that are written, each over the one before

Unsung == -1

VARIABLES
    sglang,      \* the machine's engine
    track,       \* [duration, starts, undersung] of project.json
    scenario,    \* scenario_scenes
    writes,      \* the bound's counter
    pc,          \* "song", "gate", "snap", "built", "refused"
    for,         \* what is being built: "scenes", "scenario", "video"
    segs,        \* the cut that is being snapped
    carry,       \* what the scenes so far owe the next one
    scenes,      \* the scenes built
    clamped      \* history: the Mac's 5..10 s moved one of them

vars == <<sglang, track, scenario, writes, pc, for, segs, carry, scenes, clamped>>

Init ==
    /\ sglang \in BOOLEAN
    /\ \E song \in Songs : track = [song |-> song]
    /\ scenario = <<>> /\ writes = 0
    /\ pc = "song" /\ for = "scenes"
    /\ segs = <<>> /\ carry = 0 /\ scenes = <<>> /\ clamped = FALSE

-----------------------------------------------------------------------------
(* The sections of the track.  A line is its section and the segments of   *)
(* the transcript that its words are found in (_line_matches_segment).     *)

None == 0
LeastOf(S) == CHOOSE x \in S : \A y \in S : x <= y

\* Mutant: the pointer does not advance.
AheadAll(line, pointer) == line.found

\* _match_lines_to_segments: the segment of the line before, or the first one
\* behind the pointer, which never goes back.
Ahead(line, pointer) == {k \in line.found : k >= pointer}
Matches(lines) ==
    LET Match(acc, line) ==
            LET ahead == Ahead(line, acc.pointer)
                hit == IF acc.before \in line.found THEN acc.before
                       ELSE IF ahead # {} THEN LeastOf(ahead) ELSE None
            IN  [hits |-> Append(acc.hits, hit), before |-> hit,
                 pointer |-> IF hit >= acc.pointer THEN hit + 1 ELSE acc.pointer]
    IN  FoldLeft(Match, [hits |-> <<>>, before |-> None, pointer |-> 1], lines).hits

\* check_lyrics_sung: a section starts where its first line that was heard is.
SectionStarts(song, hits) ==
    [i \in 1..song.count |->
        LET own == {k \in DOMAIN hits : song.lines[k].section = i /\ hits[k] # None}
        IN  IF own = {} THEN Unsung ELSE song.heard[hits[LeastOf(own)]]]

\* Less than 60 % of the last third of the lines was heard.
Undersung(hits) ==
    LET tail == ((Len(hits) * 2) \div 3 + 1)..Len(hits)
        found == {k \in tail : hits[k] # None}
    IN  tail # {} /\ 5 * Cardinality(found) < 3 * Cardinality(tail)

\* run_song and align_track; without lyrics there are no sections.
AlignTrack ==
    /\ pc = "song"
    /\ LET hits == Matches(track.song.lines)
       IN  track' = [duration |-> track.song.duration,
                     starts |-> SectionStarts(track.song, hits),
                     undersung |-> Undersung(hits)]
    /\ pc' = "gate"
    /\ UNCHANGED <<sglang, scenario, writes, for, segs, carry, scenes, clamped>>

-----------------------------------------------------------------------------
(* The cut.                                                                *)

Segment(start, end, sung, fresh, in, by) ==
    [start |-> start, end |-> end, sung |-> sung, fresh |-> fresh, in |-> in, by |-> by]
Length(seg) == seg.end - seg.start
Total(s) == FoldLeft(LAMBDA acc, seg : acc + Length(seg), 0, s)
Near(a, b) == a - b <= Tolerance /\ b - a <= Tolerance

\* _clip_raw_segments: a sung section lasts until the next one, the end of the
\* track for the last.
RawSegments(duration, starts) ==
    LET sung == {i \in DOMAIN starts : starts[i] # Unsung}
        known == SetToSortSeq(sung, LAMBDA i, j : \/ starts[i] < starts[j]
                                                  \/ starts[i] = starts[j] /\ i < j)
        gap == Segment(0, IF sung = {} THEN duration ELSE starts[known[1]], FALSE, FALSE, 0, 0)
        End(k) == IF k < Len(known) THEN starts[known[k + 1]] ELSE duration
    IN  (IF sung = {} \/ starts[known[1]] > 0 THEN <<gap>> ELSE <<>>)
        \o [k \in DOMAIN known |->
              Segment(starts[known[k]], End(k), TRUE, FALSE, 0, known[k])]

\* _fold_short_segments: a short one extends the segment before it, or else gives
\* its start to the next.  Breaks survive either way, a passport only forwards.
FoldShort(s, least, sungToo) ==
    LET Nothing == [out |-> <<>>, carried |-> FALSE, from |-> 0, fresh |-> FALSE, in |-> 0]
        Take(acc, seg) ==
            LET start == IF acc.carried THEN acc.from ELSE seg.start
                fresh == seg.fresh \/ acc.fresh
                in == IF acc.in # 0 THEN acc.in ELSE seg.in
                short == (sungToo \/ ~seg.sung) /\ seg.end - start < least
                kept == [seg EXCEPT !.start = start, !.fresh = fresh, !.in = in]
            IN  IF ~short THEN [Nothing EXCEPT !.out = Append(acc.out, kept)]
                ELSE IF acc.out # <<>>
                THEN [acc EXCEPT !.out[Len(acc.out)] =
                         [@ EXCEPT !.end = seg.end, !.fresh = @ \/ seg.fresh]]
                ELSE [acc EXCEPT !.carried = TRUE, !.from = start, !.fresh = fresh, !.in = in]
        done == FoldLeft(Take, Nothing, s)
    IN  IF done.carried
        THEN <<[Last(s) EXCEPT !.start = done.from, !.fresh = done.fresh, !.in = done.in]>>
        ELSE done.out

\* _split_long_segment: equal pieces of one prompt; only the first opens where
\* the section does.
Split(seg) ==
    LET n == (Length(seg) + SceneMax - 1) \div SceneMax
        per == Length(seg) \div n
    IN  [i \in 1..n |->
            [seg EXCEPT !.start = seg.start + (i - 1) * per, !.end = seg.start + i * per,
                        !.fresh = @ /\ i = 1, !.in = IF i = 1 THEN @ ELSE 0]]

Cut(s) ==
    LET folded == FoldShort(s, SceneMin, TRUE)
    IN  FlattenSeq([k \in DOMAIN folded |->
            IF Length(folded[k]) > SceneMax THEN Split(folded[k]) ELSE <<folded[k]>>])

\* _check_coverage_shape.
Tiles(s, duration) ==
    /\ s # <<>> => Near(s[1].start, 0)
    /\ \A k \in 1..(Len(s) - 1) : Near(s[k].end, s[k + 1].start)
    /\ Near(Total(s), duration)

-----------------------------------------------------------------------------
(* The gate.  A section of a scenario is [start, end, dur, fresh, in, out, *)
(* by].                                                                    *)

InOrder(s) ==
    LET order == SetToSortSeq(DOMAIN s, LAMBDA i, j : \/ s[i].start < s[j].start
                                                      \/ s[i].start = s[j].start /\ i < j)
    IN  [k \in DOMAIN s |-> s[order[k]]]

\* _validate_scenario_scenes.
Valid(s, duration) ==
    LET o == InOrder(s)
    IN  /\ s # <<>>
        /\ \A k \in DOMAIN s : s[k].end > s[k].start
        /\ Near(o[1].start, 0)
        /\ \A k \in 1..(Len(s) - 1) : Near(o[k].end, o[k + 1].start)
        /\ Near(o[Len(s)].end, duration)
        /\ \A k \in DOMAIN s : Length(s[k]) >= SceneMin - Tolerance
        /\ \A k \in DOMAIN s : SceneMin - Tolerance <= s[k].dur /\ s[k].dur <= SceneMax + Tolerance

\* _scenario_turn_to_scenes: a section that continues another opens on the frame
\* the one before it, in the model's list, ends on.
Chain(turn) ==
    [k \in DOMAIN turn |->
        IF k > 1 /\ ~turn[k].fresh THEN [turn[k] EXCEPT !.in = turn[k - 1].out] ELSE turn[k]]

\* Mutant: the break goes the way of the tag and the proposed length.
SegmentsUnbroken(s) ==
    LET o == InOrder(s)
    IN  [k \in DOMAIN o |-> Segment(o[k].start, o[k].end, TRUE, FALSE, o[k].in, o[k].by)]

\* _scenario_segments: the passport of a last frame and the proposed length have
\* no reader.
ScenarioSegments(s) ==
    LET o == InOrder(s)
    IN  [k \in DOMAIN o |-> Segment(o[k].start, o[k].end, TRUE, o[k].fresh, o[k].in, o[k].by)]

\* _equal_scenario_scenes.
EqualScenes(duration) ==
    LET n == (duration + SceneMax - 1) \div SceneMax
        per == duration \div n
    IN  [i \in 1..n |->
            [start |-> (i - 1) * per, end |-> IF i = n THEN duration ELSE i * per,
             dur |-> per, fresh |-> FALSE, in |-> 0, out |-> 0, by |-> 0]]

Gate == pc \in {"gate", "refused"} /\ writes < MaxWrites
Accepted(S) == {s \in S : Valid(s, track.duration)}
Write(s) ==
    /\ scenario' = s /\ pc' = "gate"
    /\ writes' = writes + 1

\* POST scenario/generate, with a model's turn.
Generate ==
    /\ Gate
    /\ \E s \in Accepted({Chain(turn) : turn \in Turns}) : Write(s)
    /\ UNCHANGED <<sglang, track, for, segs, carry, scenes, clamped>>

\* PUT scenario.
Put ==
    /\ Gate
    /\ \E s \in Accepted(Edits) : Write(s)
    /\ UNCHANGED <<sglang, track, for, segs, carry, scenes, clamped>>

\* scenario/generate without a model, on sglang.
GenerateEqual ==
    /\ Gate /\ sglang
    /\ \E s \in Accepted({EqualScenes(track.duration)}) : Write(s)
    /\ UNCHANGED <<sglang, track, for, segs, carry, scenes, clamped>>

Start(s, what) ==
    /\ segs' = s /\ for' = what /\ pc' = "snap"
    /\ carry' = 0 /\ scenes' = <<>> /\ clamped' = FALSE

\* The same on the Mac: the scenes of the track itself are built first.
GenerateProcedural ==
    /\ Gate /\ ~sglang
    /\ LET raw == RawSegments(track.duration, track.starts)
           cut == Cut(IF Len(raw) > 1 THEN FoldShort(raw, GapThreshold, FALSE) ELSE raw)
       IN  Tiles(cut, track.duration) /\ Start(cut, "scenario")
    /\ UNCHANGED <<sglang, track, scenario, writes>>

\* approve/scenario.
Approve ==
    /\ pc = "gate" /\ scenario # <<>>
    /\ LET raw == ScenarioSegments(scenario)
       IN  IF Tiles(raw, track.duration) /\ Tiles(Cut(raw), track.duration)
           THEN Start(Cut(raw), "scenes")
           ELSE pc' = "refused" /\ UNCHANGED <<for, segs, carry, scenes, clamped>>
    /\ UNCHANGED <<sglang, track, scenario, writes>>

-----------------------------------------------------------------------------
(* The snap, scene by scene.                                               *)

Chained(k) == k > 1 /\ ~segs[k].fresh

SnapScene ==
    LET k == Len(scenes) + 1
        seg == segs[k]
        frames == SnapClip(sglang, Length(seg), carry, Chained(k), k = Len(segs))
    IN  /\ pc = "snap" /\ k <= Len(segs)
        /\ scenes' = Append(scenes, [frames |-> frames, fresh |-> seg.fresh,
                                     in |-> seg.in, by |-> seg.by])
        /\ carry' = Length(seg) + carry - frames * Frame
        /\ clamped' = (clamped \/ (~sglang /\ frames #
               AtOrBelow(Target(Length(seg), carry), Remainder(sglang, Chained(k)))))
        /\ UNCHANGED <<sglang, track, scenario, writes, pc, for, segs>>

SnappedTotal == FoldLeft(LAMBDA acc, s : acc + s.frames * Frame, 0, scenes)

\* The totals that assembly can trim or pad to the track.
Covers ==
    IF sglang
    THEN /\ track.duration - Tolerance <= SnappedTotal
         /\ SnappedTotal < track.duration + Chunk * Frame + Tolerance
         /\ Last(scenes).frames * Frame <= 15 * Second
    ELSE /\ track.duration - Shortfall - Tolerance <= SnappedTotal
         /\ SnappedTotal <= track.duration + Tolerance

\* _procedural_scenario_scenes: the lengths laid end to end, the last one up to
\* the end of the track.
AsScenario ==
    LET At(k) == FoldLeft(LAMBDA acc, s : acc + s.frames * Frame, 0, SubSeq(scenes, 1, k))
    IN  [k \in DOMAIN scenes |->
            [start |-> At(k - 1), end |-> IF k = Len(scenes) THEN track.duration ELSE At(k),
             dur |-> scenes[k].frames * Frame, fresh |-> FALSE, in |-> 0, out |-> 0,
             by |-> scenes[k].by]]

Built ==
    /\ pc = "snap" /\ Len(scenes) = Len(segs)
    /\ IF for = "scenes"
       THEN pc' = (IF Covers THEN "built" ELSE "refused") /\ UNCHANGED <<scenario, writes>>
       ELSE IF Covers /\ Accepted({AsScenario}) # {}
       THEN Write(AsScenario)
       ELSE pc' = "gate" /\ UNCHANGED <<scenario, writes>>
    /\ UNCHANGED <<sglang, track, for, segs, carry, scenes, clamped>>

Next ==
    \/ AlignTrack
    \/ Generate \/ Put \/ GenerateEqual \/ GenerateProcedural
    \/ Approve \/ SnapScene \/ Built

Spec == Init /\ [][Next]_vars

-----------------------------------------------------------------------------
(* The properties.                                                         *)

\* Where the built scene k opens on the track, before the snap.
Opens(k) == segs[k].start

\* The sections in the order of the track.
Told == InOrder(scenario)

\* A scenario the gate has accepted, whoever wrote it, is built, but where the
\* tolerances of its seams add up or the Mac's 5 to 10 seconds have moved a scene.
ScenarioBuilds ==
    pc = "refused" =>
        \/ ~sglang /\ clamped
        \/ ~Near(Total(scenario), track.duration)

\* Scene k opens on the passport of the section that opens there, unless that one
\* has none and is absorbed: the next one's is taken in its place.
PassportFits(k) ==
    scenes[k].in # 0 =>
        \E i \in DOMAIN Told :
            /\ Near(Told[i].start, Opens(k))
            /\ \/ Told[i].in = scenes[k].in
               \/ Told[i].in = 0 /\ Length(Told[i]) < SceneMin

\* A break before section i is in front of the scene in which the section opens;
\* only sections under five seconds, which the fold absorbs, can lie between.
BreakKept(i) ==
    Told[i].fresh =>
        \E k \in DOMAIN scenes :
            LET between == {j \in 1..i : /\ Told[j].start + Tolerance >= Opens(k)
                                         /\ Length(Told[j]) >= SceneMin}
            IN  /\ scenes[k].fresh /\ Opens(k) <= Told[i].start + Tolerance
                /\ Cardinality(between) <= 1

\* The scenes open as the author of the scenario said: on the passports of the
\* frames that open them, and anew where there is a break.
OpeningsKept ==
    pc = "built" /\ for = "scenes" =>
        /\ \A k \in DOMAIN scenes : PassportFits(k)
        /\ \A i \in DOMAIN Told : BreakKept(i)

\* The sections of the track start in the order they are sung in, and two at one
\* time only where nothing that is heard lies between them.
SectionsFollow ==
    pc # "song" /\ for # "video" =>
        LET at == track.starts
            Heard(i) == at[i] # Unsung
        IN  \A i, j \in DOMAIN at : i < j /\ Heard(i) /\ Heard(j) =>
                /\ at[i] <= at[j]
                /\ at[i] = at[j] => \A k \in i..j : Heard(k) => at[k] = at[i]
=============================================================================
