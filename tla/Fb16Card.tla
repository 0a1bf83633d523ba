------------------------------ MODULE Fb16Card ------------------------------
(***************************************************************************)
(* What the Mach8 card shows of a 5-6-5 frame buffer in RAM, and the row   *)
(* fingerprints by which a send skips what the card shows already          *)
(* (src/drivers/mach8_display/src/fb16.c).  No state: operators on a card, *)
(* a record of                                                             *)
(*    px : what each pixel of the card shows;                              *)
(*    fp : for each piece of a row, the pixels its fingerprint was taken   *)
(*         from, or NoFp (the code's 0).                                   *)
(* A fingerprint is the piece's content, so that two contents never share  *)
(* one: collisions of the 32-bit hash are left out.  The pointer is not in *)
(* px: every send, fill and copy lifts it first (see Pointer).             *)
(***************************************************************************)
EXTENDS Integers, FiniteSets

CONSTANTS
  Width, Height,   \* m8_scr_x, m8_scr_y
  Colours,         \* 5-6-5 colours
  Flat,            \* those that dither to one palette index at every phase
  Black,           \* colour 0
  SegW,            \* M8_FB16_SEG_W: pixels of a piece
  HashMin,         \* M8_FB16_HASH_MIN
  SolidMin,        \* M8_FB16_SOLID_MIN
  Dither,          \* 4: the period of the dither, both ways
  HashMem          \* FALSE: no memory for the fingerprints

(* The modes are 640 and 800 wide: whole pieces, each of an even width.    *)
ASSUME GeometryAssumption ==
  /\ Width \in Nat \ {0} /\ Height \in Nat \ {0}
  /\ SegW \in Nat \ {0} /\ Dither \in Nat \ {0}
  /\ Width % SegW = 0 /\ SegW % 2 = 0
  /\ HashMin \in Nat /\ SolidMin \in Nat
  /\ HashMem \in BOOLEAN

ASSUME ColourAssumption == Black \in Colours /\ Flat \subseteq Colours

-----------------------------------------------------------------------------
(* Rectangles and pieces.                                                  *)

Pixels == (0 .. Width - 1) \X (0 .. Height - 1)

Rect == [l : Int, t : Int, r : Int, b : Int]

Screen == [l |-> 0, t |-> 0, r |-> Width, b |-> Height]

(* The rectangle's pixels, clipped to the screen; r and b are exclusive.   *)
Area(a) == {p \in Pixels : a.l <= p[1] /\ p[1] < a.r /\ a.t <= p[2] /\ p[2] < a.b}

(* Host transfers carry two pixels a word.                                 *)
Widen(a) == [l |-> a.l - (a.l % 2), t |-> a.t, r |-> a.r + (a.r % 2), b |-> a.b]

Piece(p) == <<p[1] \div SegW, p[2]>>

Pieces == {Piece(p) : p \in Pixels}

InPiece(s) == {p \in Pixels : Piece(p) = s}

Touched(a) == {Piece(p) : p \in Area(a)}

-----------------------------------------------------------------------------
(* What the card shows and what a fingerprint holds.                       *)

(* Colour c dithered at p: only x & 3 and y & 3 matter.                    *)
Shown(p, c) == IF c \in Flat THEN <<c>> ELSE <<c, p[1] % Dither, p[2] % Dither>>

NoFp == << >>

Content(ram, s) == [p \in InPiece(s) |-> ram[p]]

(* m8_fb16_forget: the pieces under a no longer known to match the card.   *)
Forget(v, a) == [v EXCEPT !.fp = [s \in Pieces |-> IF s \in Touched(a) THEN NoFp ELSE @[s]]]

(* Mutant of Known: the pieces covered in part take the fingerprint too.   *)
KnownInPart(v, a, c) ==
  [v EXCEPT !.fp = [s \in Pieces |->
     IF ~HashMem \/ s \notin Touched(a) THEN @[s] ELSE [p \in InPiece(s) |-> c]]]

(* m8_fb16_known: a fill of c the card shows exactly.                      *)
Known(v, a, c) ==
  [v EXCEPT !.fp = [s \in Pieces |->
     IF ~HashMem \/ s \notin Touched(a) THEN @[s]
     ELSE IF InPiece(s) \subseteq Area(a) THEN [p \in InPiece(s) |-> c]
     ELSE NoFp]]

(* Pixels of the set A put on the card as RAM holds them.                  *)
Write(v, ram, A) ==
  [v EXCEPT !.px = [p \in Pixels |-> IF p \in A THEN Shown(p, ram[p]) ELSE @[p]]]

(* Pixels of the set A filled with c, whatever RAM holds.                  *)
Fill(v, A, c) == [v EXCEPT !.px = [p \in Pixels |-> IF p \in A THEN Shown(p, c) ELSE @[p]]]

-----------------------------------------------------------------------------
(* m8_fb16_send: a rectangle to the card.                                  *)

(* A send of a by pieces, not whole: fingerprints decide what goes.        *)
Fingerprinted(a, whole) ==
  HashMem /\ ~whole /\ Cardinality(Area(Widen(a))) >= HashMin

Differs(v, ram, a) == {s \in Touched(a) : v.fp[s] # Content(ram, s)}

(* m8_fb16_changed, row by row: from the first differing piece to the last.*)
Changed(v, ram, a) ==
  LET D == Differs(v, ram, a)
  IN  {p \in Area(a) : \E s1, s2 \in D : /\ s1[2] = p[2] /\ s2[2] = p[2]
                                         /\ s1[1] <= Piece(p)[1] /\ Piece(p)[1] <= s2[1]}

(* Every piece under a takes the fingerprint of its RAM, all of it, though *)
(* only the part inside a is sent.                                         *)
SendChanged(v, ram, a) ==
  [Write(v, ram, Changed(v, ram, a)) EXCEPT
     !.fp = [s \in Pieces |-> IF s \in Touched(a) THEN Content(ram, s) ELSE @[s]]]

(* Mutant of SendWhole: the pieces are not forgotten.                      *)
SendWholeKept(v, ram, a) == Write(v, ram, Area(a))

SendWhole(v, ram, a) == Forget(Write(v, ram, Area(a)), a)

Send(v, ram, a, whole) ==
  IF Fingerprinted(a, whole) THEN SendChanged(v, ram, Widen(a))
                             ELSE SendWhole(v, ram, Widen(a))

-----------------------------------------------------------------------------
(* Fills, flushes and copies.                                              *)

(* m8_fb16_solid: one 4x4 block and engine copies of it, or a plain fill.  *)
Solid(v, a, c) == Known(Fill(v, Area(a), c), a, c)

(* m8_fb16_uniform, past m8_fb16_flush's threshold.                        *)
OneColour(ram, a, c) ==
  /\ Area(a) # {} /\ Cardinality(Area(a)) >= SolidMin
  /\ \A p \in Area(a) : ram[p] = c

(* m8_fb16_flush                                                           *)
Flush(v, ram, a) ==
  IF \E c \in Colours : OneColour(ram, a, c)
  THEN Solid(v, a, CHOOSE c \in Colours : OneColour(ram, a, c))
  ELSE Send(v, ram, a, FALSE)

Exact == 2   \* the rectangle is what changed: M8_SEND_EXACT

(* m8_fb16_send_rect: `solid' 0 is scanned, 1 is one colour, 2 goes whole. *)
SendRect(v, ram, a, solid) ==
  CASE solid = Exact -> Send(v, ram, a, TRUE)
    [] solid = 1     -> IF Area(a) = {} THEN v
                        ELSE Solid(v, a, ram[CHOOSE p \in Area(a) :
                                     \A q \in Area(a) : p[1] <= q[1] /\ p[2] <= q[2]])
    [] OTHER         -> Flush(v, ram, a)

(* m8_fb16_copy_rect: a copy that moves by whole dither periods, inside    *)
(* the screen, is the card's own.                                          *)
InPhase(a, dx, dy) ==
  /\ dx % Dither = 0 /\ dy % Dither = 0
  /\ a.l >= 0 /\ a.t >= 0 /\ a.r <= Width /\ a.b <= Height
  /\ a.l + dx >= 0 /\ a.t + dy >= 0 /\ a.r + dx <= Width /\ a.b + dy <= Height

(* Mutant of CardCopy: the pieces copied onto are not forgotten.           *)
CardCopyKept(v, a, dx, dy) ==
  [v EXCEPT !.px = [p \in Pixels |->
     IF p \in Area(a) THEN @[<<p[1] + dx, p[2] + dy>>] ELSE @[p]]]

CardCopy(v, a, dx, dy) ==
  Forget([v EXCEPT !.px = [p \in Pixels |->
            IF p \in Area(a) THEN @[<<p[1] + dx, p[2] + dy>>] ELSE @[p]]], a)

(* m8_fb16_send_all, after the mode is set: one fill, nothing known, all   *)
(* of the frame buffer.                                                    *)
SendAll(v, ram) == Send(Forget(Fill(v, Pixels, Black), Screen), ram, Screen, FALSE)
=============================================================================
