------------------------------- MODULE MCDd16 -------------------------------
(* A row of four or six pixels in pieces of two, two colours; any send     *)
(* goes by fingerprints.  A behaviour is that of one kind of program.      *)
EXTENDS Dd16

CONSTANTS White, Programs

Span(l, r) == [l |-> l, t |-> 0, r |-> r, b |-> 1]

None == {}
MCColours == {Black, White}
MCFlat == {Black, White}

WholeBoxes == {Span(0, Width)}
FrameBoxes == {Span(0, Width), Span(0, 2)}
ApartBoxes == {Span(0, Width), Span(0, 2), Span(4, 6)}
MCPictures == {[p \in Pixels |-> IF p[1] = 1 THEN White ELSE Black]}
ApartMoves == {<<4, 0>>}
Tri(l) == [box |-> Span(l, l + 2), px |-> {<<l, 0>>}, c |-> White]
OneTri == {Tri(2)}
TwoTris == {Tri(0), Tri(2)}
OtherTris == {Tri(0), [Tri(2) EXCEPT !.c = Black]}
MCLockBoxes == {Span(0, 2)}
MCGdiBoxes == {Span(2, 4)}

(* For the disagreements README names: what they need, and no more.        *)
OddBoxes == {Span(0, 4), Span(1, 3), Span(2, 4)}
HalfBoxes == {Span(0, 4), Span(0, 2), Span(2, 4)}
WideTris == {[box |-> Span(0, 4), px |-> {<<0, 0>>}, c |-> White]}
TwoLockBoxes == {Span(0, 2), Span(2, 4)}
UnderTris == {Tri(2), [Tri(2) EXCEPT !.c = Black]}

(* What the program uses beside fills and Flip; "gdi": another one draws.  *)
(* Bounds: one that ends its contexts fills hidden buffers, and whole; one *)
(* of "whites", hidden ones whole and the shown one in part.               *)
VARIABLE program

MCInit == Init /\ program \in Programs

Sizes == CASE program \in {"copies", "blends"} -> Boxes
           [] program \in {"locks", "gdi", "whites", "strays"} -> FrameBoxes
           [] program \in {"frames", "ends"} -> WholeBoxes

(* The colours of a program's triangles, where one is enough.              *)
TriColours == CASE program = "ends" -> {White}
                [] program = "whites" -> {Black}
                [] OTHER -> Colours

MCNext ==
  /\ \/ \E k \in Buffers, a \in Sizes, c \in Colours :
          /\ program = "ends" => k # front
          /\ program = "whites" => IF k = front THEN ~Whole(a) ELSE Whole(a)
          /\ BltFill(k, a, c)
     \/ Flip \/ Create16 \/ Destroy16
     \/ program \in {"copies", "blends"} /\ (BltCopy \/ BltSelf)
     \/ program \in {"locks", "gdi", "strays"} /\ (Lock \/ WriteLocked \/ Unlock)
     \/ /\ program \in {"locks", "gdi"}
        /\ \E k, s \in Buffers, a \in Sizes, c \in Colours : BltOwn(k, s, a, c)
     \/ program \in {"gdi", "strays"} /\ Gdi
     \/ program \in {"frames", "ends", "whites", "blends", "strays"} /\ ContextCreate
     \/ /\ program \in {"frames", "ends", "whites", "blends", "strays"}
        /\ \E k \in Buffers, t \in Tris : t.c \in TriColours /\ Triangle(k, t)
     \/ program = "ends" /\ ContextEnd
  /\ UNCHANGED program

MCSpec == MCInit /\ [][MCNext]_<<vars, program>>

(* A program of frames draws on the hidden buffer only, once it flips, and *)
(* no more triangles than a frame's description holds.                     *)
FramesOnly == program = "frames" => direct # "yes" /\ \A k \in 0 .. 1 : buf[k].d = << >>
=============================================================================
