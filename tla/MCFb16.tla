------------------------------- MODULE MCFb16 -------------------------------
(* One row of eight pixels in two pieces of four, two colours, one of them *)
(* dithered with period 2; sends of three pixels or more by fingerprint.   *)
EXTENDS Fb16

CONSTANTS White

Span(l, r) == [l |-> l, t |-> 0, r |-> r, b |-> 1]

MCColours == {Black, White}
MCFlat == {Black}
MCJunk == << >>

(* Rectangles apart, over the edges and the screen, for a list of two; and *)
(* GDI's clip.                                                             *)
MCBoxes == {Span(0, 2), Span(4, 5), Span(7, 9)}
MCLimits == {Span(2, 5), Span(6, 6)}

(* Strips of a line, each as long as a piece and not aligned with it,      *)
(* aligned, or under HashMin; and a scanline list.                         *)
MCStrips == {<<Span(1, 5), Span(5, 9)>>, <<Span(0, 4), Span(4, 8)>>, <<Span(2, 4), Span(4, 6)>>}
MCSpans == {[spans |-> Area(Span(0, 1)) \cup Area(Span(2, 4)), box |-> Span(0, 4)]}

(* Copies in phase, from the screen and from outside it.                   *)
MCMoves == {<<4, 0>>, <<-6, 0>>}

MCDrawings == {[p \in A |-> c] : A \in {Area(a) : a \in MCBoxes \cup {Span(3, 4), Span(5, 6)}}
                                         \cup {s.spans : s \in MCSpans},
                                 c \in {Black, White}}
=============================================================================
