------------------------------ MODULE FrameGrid ------------------------------
(***************************************************************************)
(* The grid of lengths that H3 can render, and what web.py does to put a   *)
(* scene's length on it.  Time is in ticks of 1/1440 s: a frame is 60 and  *)
(* the tolerance of 0.05 s is 72, so that no sum of the code is rounded.   *)
(***************************************************************************)
EXTENDS Integers

Second == 1440
Frame == 60
SceneMin == 5 * Second
SceneMax == 10 * Second
GapThreshold == 2160
Tolerance == 72
Shortfall == Second

Chunk == 17
Offset == 5

\* A scene that continues another repeats frames of it: the latent tail on the
\* Mac, the keyframe on sglang.
Overlap(sglang, chained) == IF ~chained THEN 0 ELSE IF sglang THEN 1 ELSE 22
Remainder(sglang, chained) == (Offset - Overlap(sglang, chained)) % Chunk

\* What sglang accepts, in delivered frames: 3 to 15 seconds are requested.
Low(chained) == 73 - Overlap(TRUE, chained)
High(chained) == 345 - Overlap(TRUE, chained)

AtOrBelow(frames, r) ==
    LET least == IF r # 0 THEN r ELSE Chunk
        point == frames - ((frames - r) % Chunk)
    IN  IF point >= least THEN point ELSE least

AtOrAbove(frames, r) ==
    LET point == AtOrBelow(frames, r)
    IN  IF point >= frames THEN point ELSE point + Chunk

Nearest(frames, r) ==
    LET below == AtOrBelow(frames, r)
        above == AtOrAbove(frames, r)
    IN  IF frames - below <= above - frames THEN below ELSE above

\* Python's round: a half goes to the even frame.
RoundFrames(ticks) ==
    LET q == ticks \div Frame
        rest == ticks % Frame
    IN  IF 2 * rest < Frame \/ (2 * rest = Frame /\ q % 2 = 0) THEN q ELSE q + 1

Clamp(x, low, high) == IF x < low THEN low ELSE IF x > high THEN high ELSE x

\* _snap_video_scenes_sglang: a video scene goes to the nearest point.
SnapVideo(ticks, chained) ==
    Clamp(Nearest(RoundFrames(ticks), Remainder(TRUE, chained)), Low(chained), High(chained))

\* The target of a clip's scene, in frames, and the point below it.
Target(ticks, carry) ==
    LET f == RoundFrames(ticks + carry) IN IF f < Offset THEN Offset ELSE f

\* Mutant: the last scene goes down like the others.
SnapDown(sglang, ticks, carry, chained, last) ==
    LET r == Remainder(sglang, chained)
        low == IF sglang THEN Low(chained) ELSE SceneMin \div Frame
        high == IF sglang THEN High(chained) ELSE SceneMax \div Frame
        below == AtOrBelow(Target(ticks, carry), r)
    IN  IF below < low THEN AtOrAbove(low, r)
        ELSE IF below > high THEN AtOrBelow(high, r)
        ELSE below

\* _snap_scene_duration: down, so that a render is not longer than promised, and
\* what is cut off goes to the next scene; up for the last scene on sglang.
SnapClip(sglang, ticks, carry, chained, last) ==
    LET r == Remainder(sglang, chained)
        low == IF sglang THEN Low(chained) ELSE SceneMin \div Frame
        high == IF sglang THEN High(chained) ELSE SceneMax \div Frame
        below == AtOrBelow(Target(ticks, carry), r)
    IN  IF sglang /\ last THEN AtOrAbove(Target(ticks, carry), r)
        ELSE IF below < low THEN AtOrAbove(low, r)
        ELSE IF below > high THEN AtOrBelow(high, r)
        ELSE below
=============================================================================
