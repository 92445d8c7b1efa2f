------------------------------- MODULE MCClips --------------------------------
\* Songs of one to seven sections and scenarios of one to seven.
EXTENDS ScenePicture

S(seconds) == seconds * Second
Line(section, found) == [section |-> section, found |-> found]

MCSongs ==
    { [duration |-> S(20), count |-> 0, lines |-> <<>>, heard |-> <<>>],
      [duration |-> S(70), count |-> 0, lines |-> <<>>, heard |-> <<>>] }
    \cup { [duration |-> S(37), count |-> 3, heard |-> <<S(2), S(6), S(19)>>,
            lines |-> <<Line(1, f[1]), Line(2, f[2]), Line(2, f[3]), Line(3, f[4])>>] :
              f \in [1..4 -> {{}, {1}, {2, 3}, {1, 3}}] }

\* Sections end to end, gap between two of them; the seventh of a song is as long
\* as the first.
Laid(lens, gap) ==
    LET At[k \in 0..Len(lens)] == IF k = 0 THEN 0 ELSE At[k - 1] + lens[k] + gap
    IN  [k \in DOMAIN lens |-> [start |-> At[k - 1], end |-> At[k - 1] + lens[k]]]

\* 4.975 s passes the gate and is folded.
Short == 7164
Lengths ==
    { <<S(10), S(10)>>, <<S(7), S(13)>>, <<S(3), S(17)>>, <<Short, S(15)>>, <<S(15), Short>>,
      <<S(5), S(5), S(10)>>, <<Short, S(5), S(10)>>, <<S(10), Short, S(5)>>,
      <<Short, S(10), Short>>, [k \in 1..4 |-> S(5)], [k \in 1..7 |-> S(10)] }

Section(at, k, fresh, in, out) ==
    [start |-> at.start, end |-> at.end, dur |-> S(7), fresh |-> fresh,
     in |-> IF in THEN 2 * k ELSE 0, out |-> IF out THEN 2 * k + 1 ELSE 0, by |-> k]
Flags(n) == IF n < 4 THEN [1..n -> BOOLEAN] ELSE {[k \in 1..n |-> FALSE]}
Sections(outs) ==
    UNION { { [k \in DOMAIN l |-> Section(Laid(l, gap)[k], k, fresh[k], in[k], outs)] :
                gap \in {0, 48}, fresh \in Flags(Len(l)), in \in Flags(Len(l)) } : l \in Lengths }

MCTurns == Sections(TRUE)
MCEdits == Sections(FALSE) \cup { Reverse(s) : s \in {e \in Sections(FALSE) : Len(e) = 2} }

\* Videos: lengths on and off the grid, at the ends of what is accepted.
Cast(durs, fresh) == [k \in DOMAIN durs |-> [dur |-> durs[k], fresh |-> fresh[k]]]
MCVideos ==
    { Cast(d, f) : d \in {<<S(3), S(15), S(6)>>, <<S(5), S(6), S(10)>>, <<S(7) + 30, S(7), S(7)>>},
                   f \in [1..3 -> BOOLEAN] }
=============================================================================
