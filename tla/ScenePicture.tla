----------------------------- MODULE ScenePicture -----------------------------
(***************************************************************************)
(* From the scenes that web.py has built to the film: what assemble.py     *)
(* asks of the engine for every scene, what it cuts off the clip it gets,  *)
(* and what it does to fit the picture to the track.  A chained scene      *)
(* starts from the latent tail of the one before it on the Mac, from its   *)
(* last frame on sglang; a tail may be missing.                            *)
(***************************************************************************)
EXTENDS ClipScenes

CONSTANTS
    Videos,      \* scenes of a video: sequences of [dur, fresh]
    MaxRedos     \* bound: presses of a scene's retry

VARIABLES
    shots,       \* per scene: Unshot or [frames, drop, tail, piece]
    stuck,       \* why the next scene cannot be submitted: "no", "off", "streak", "corrupt"
    film,        \* Unfilmed, Unfit or the film's length
    redos        \* the bound's counter

picture == <<shots, stuck, film, redos>>
all == <<vars, picture>>

Unshot == [frames |-> 0]
Unfilmed == -1
Unfit == -2

PictureInit ==
    /\ Init
    /\ shots = <<>> /\ stuck = "no" /\ film = Unfilmed /\ redos = 0

-----------------------------------------------------------------------------
(* The scenes.                                                             *)

\* PUT scenes, then approve/script.  On the Mac the lengths stay as they are.
PutScenes ==
    /\ pc = "song"
    /\ \E v \in Videos :
         LET In(k) == IF sglang THEN 3 * Second <= v[k].dur /\ v[k].dur <= 15 * Second
                      ELSE SceneMin <= v[k].dur /\ v[k].dur <= SceneMax
             Continues(k) == k > 1 /\ ~v[k].fresh
             Stored(k) == IF sglang THEN SnapVideo(v[k].dur, Continues(k)) ELSE RoundFrames(v[k].dur)
         IN  /\ \A k \in DOMAIN v : In(k)
             /\ segs' = [k \in DOMAIN v |-> Segment(0, v[k].dur, TRUE, v[k].fresh, 0, 0)]
             /\ scenes' = [k \in DOMAIN v |->
                             [frames |-> Stored(k), fresh |-> v[k].fresh, in |-> 0, by |-> 0]]
    /\ for' = "video" /\ pc' = "built"
    /\ UNCHANGED <<sglang, track, scenario, writes, carry, clamped, picture>>

Todo == {k \in DOMAIN scenes : k \notin DOMAIN shots \/ shots[k] = Unshot}
\* claim_next_scene: the scene whose turn it is.
Turn(k) == pc = "built" /\ stuck = "no" /\ Todo # {} /\ k = LeastOf(Todo)

Shoot(k, frames, drop, tail, piece) ==
    /\ shots' = [i \in DOMAIN scenes |->
                   IF i = k THEN [frames |-> frames, drop |-> drop, tail |-> tail, piece |-> piece]
                   ELSE IF i \in DOMAIN shots THEN shots[i] ELSE Unshot]
    /\ UNCHANGED <<vars, stuck, film, redos>>
Refuse(why) == stuck' = why /\ UNCHANGED <<vars, shots, film, redos>>

\* What a scene asks for: its own frames after those it repeats.
AskedLatent(k) == scenes[k].frames + Overlap(FALSE, TRUE)
AskedSglang(k) == scenes[k].frames + Overlap(TRUE, Chained(k))

\* parse: what sglang turns down of a length.
Sound(asked) ==
    /\ asked % Chunk = Offset
    /\ 3 * Second <= asked * Frame /\ asked * Frame <= 15 * Second

\* No frame to start from: the clip cannot be read, or (on the Mac) none of its
\* last seconds is sound.
NoFrame == Refuse("corrupt")

\* The length that the engine renders when it is asked for frames.
AlignNumFrames(frames) == AtOrAbove(frames, Offset)

\* Every scene but the last saves its tail, which may not get to the disk.
Tails(k) == IF sglang \/ k = Len(scenes) THEN {FALSE} ELSE BOOLEAN

\* Where scene k is on the track: the scenes before it, on the grid.
Before(k) == FoldLeft(LAMBDA acc, s : acc + s.frames, 0, SubSeq(scenes, 1, k - 1))
Piece(k) == Before(k) - Overlap(TRUE, Chained(k))

-----------------------------------------------------------------------------
(* _submit_next_scene, and the job it submits to its end.                  *)

\* A scene that continues none, on the Mac: from text alone.
ShootPlain(k) ==
    /\ Turn(k) /\ ~sglang /\ ~Chained(k)
    /\ \E tail \in Tails(k) : Shoot(k, AlignNumFrames(scenes[k].frames), 0, tail, 0)

\* From the tail of the scene before: the render repeats it.
ShootLatent(k) ==
    /\ Turn(k) /\ ~sglang /\ Chained(k) /\ shots[k - 1].tail
    /\ IF AskedLatent(k) % Chunk # Offset THEN Refuse("off")
       ELSE \E tail \in Tails(k) : Shoot(k, AskedLatent(k), Overlap(FALSE, TRUE), tail, 0)

\* Mutant: the one frame that a keyframe repeats.
KeyframeDropOne == 1
\* _KEYFRAME_FALLBACK_DROP_FRAMES
KeyframeDrop == 5

MaxFallbacks == 3
\* _consecutive_keyframe_fallbacks: the drop that is on record says so.
Streak(k) ==
    LET other == {i \in 1..(k - 1) : shots[i].drop # KeyframeDrop}
    IN  k - 1 - (IF other = {} THEN 0 ELSE CHOOSE i \in other : \A j \in other : j <= i)

\* The tail is missing: from a frame of the scene before, if one in its last
\* seconds is sound.
ShootKeyframe(k) ==
    /\ Turn(k) /\ ~sglang /\ Chained(k) /\ ~shots[k - 1].tail
    /\ IF Streak(k) + 1 >= MaxFallbacks THEN Refuse("streak")
       ELSE \/ NoFrame
            \/ \E tail \in Tails(k) :
                  Shoot(k, AlignNumFrames(scenes[k].frames), KeyframeDrop, tail, 0)

\* _submit_next_scene_sglang, with what sglang_args.parse refuses.
ShootSglang(k) ==
    /\ Turn(k) /\ sglang
    /\ IF ~Sound(AskedSglang(k)) THEN Refuse("off")
       ELSE \/ Chained(k) /\ NoFrame
            \/ Shoot(k, AskedSglang(k), Overlap(TRUE, Chained(k)), FALSE,
                     IF for = "video" THEN 0 ELSE Piece(k))

\* A scene's retry: it is shot again, with the scenes that continue it.
Redo(k) ==
    /\ pc = "built" /\ redos < MaxRedos
    /\ k \in DOMAIN shots /\ shots[k] # Unshot
    /\ shots' = [i \in DOMAIN shots |->
                   IF i = k \/ (i > k /\ \A j \in (k + 1)..i : Chained(j)) THEN Unshot ELSE shots[i]]
    /\ stuck' = "no" /\ film' = Unfilmed /\ redos' = redos + 1
    /\ UNCHANGED vars

-----------------------------------------------------------------------------
(* assemble.run                                                            *)

Kept(k) == shots[k].frames - shots[k].drop
PictureTotal == FoldLeft(LAMBDA acc, s : acc + (s.frames - s.drop) * Frame, 0, shots)

\* Where scene k is in the film.
FilmedBefore(k) == FoldLeft(LAMBDA acc, s : acc + s.frames - s.drop, 0, SubSeq(shots, 1, k - 1))

DurationTolerance == Second \div 2

\* The end is padded with a frozen frame; only on sglang it is trimmed.
Padded(length) == IF track.duration - length > Tolerance THEN track.duration ELSE length
Trimmed(length) ==
    LET over == length - track.duration
    IN  IF sglang /\ Tolerance < over /\ over <= Chunk * Frame + DurationTolerance
        THEN track.duration ELSE length
Off(length) == IF length > track.duration THEN length - track.duration ELSE track.duration - length

Assemble ==
    /\ pc = "built" /\ Todo = {} /\ film = Unfilmed
    /\ LET length == Trimmed(Padded(PictureTotal))
       IN  film' = IF for = "video" THEN PictureTotal
                   ELSE IF Off(length) <= DurationTolerance THEN length ELSE Unfit
    /\ UNCHANGED <<vars, shots, stuck, redos>>

Shooting ==
    \E k \in DOMAIN scenes :
        ShootPlain(k) \/ ShootLatent(k) \/ ShootKeyframe(k) \/ ShootSglang(k) \/ Redo(k)

PictureNext ==
    \/ Next /\ UNCHANGED picture
    \/ PutScenes \/ Shooting \/ Assemble

PictureSpec == PictureInit /\ [][PictureNext]_all

-----------------------------------------------------------------------------
(* The properties.                                                         *)

\* The lengths of a video are put on the grid on sglang only.
Ungridded == for = "video" /\ ~sglang

\* The picture runs in time with the track whatever tails are lost and scenes
\* shot again: every scene can be asked for, what is kept of its clip is what the
\* timeline has for it, its piece of the track is the one the film plays over
\* it, and a film of a clip is never turned down for its length.
PictureInTime ==
    \/ Ungridded
    \/ /\ stuck # "off"
       /\ \A k \in DOMAIN shots : shots[k] # Unshot => Kept(k) = scenes[k].frames
       /\ sglang /\ for # "video" /\ film # Unfilmed =>
             \A k \in DOMAIN shots : shots[k].piece + shots[k].drop = FilmedBefore(k)
       /\ film # Unfit
=============================================================================
