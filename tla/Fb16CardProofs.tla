--------------------------- MODULE Fb16CardProofs ---------------------------
(***************************************************************************)
(* What the sends, fills and copies of Fb16Card do to a card: for the      *)
(* proofs about Fb16 and Dd16.  And what both need of numbers and rows.    *)
(***************************************************************************)
EXTENDS Fb16Card, SequencesExt, FiniteSetTheorems, TLAPS, WellFoundedInduction

-----------------------------------------------------------------------------
(* The operators of Fb16Card.                                              *)

IsCard(v) == /\ DOMAIN v = {"px", "fp"}
             /\ DOMAIN v.px = Pixels /\ DOMAIN v.fp = Pieces
             /\ ~HashMem => \A s \in Pieces : v.fp[s] = NoFp

Synced(v, mem, p) == v.px[p] = Shown(p, mem[p])

Honest(v, p) == v.fp[Piece(p)] = NoFp \/ v.px[p] = Shown(p, v.fp[Piece(p)][p])

(* A pixel of the screen is a pair of integers in a piece of its own row.  *)
LEMMA PixelFacts ==
  ASSUME NEW p \in Pixels
  PROVE  /\ Piece(p) \in Pieces /\ p \in InPiece(Piece(p))
         /\ Piece(p)[2] = p[2] /\ Piece(p)[1] \in Int
         /\ p[1] \in Int /\ p[2] \in Int
  BY GeometryAssumption DEF Pixels, Pieces, Piece, InPiece

(* Widening to even columns loses nothing.                                 *)
LEMMA WidenFacts ==
  ASSUME NEW a \in Rect
  PROVE  Widen(a) \in Rect /\ Area(a) \subseteq Area(Widen(a))
<1>1. Widen(a) = [l |-> a.l - (a.l % 2), t |-> a.t, r |-> a.r + (a.r % 2), b |-> a.b]
  BY DEF Widen
<1>2. a.l % 2 \in 0 .. 1 /\ a.r % 2 \in 0 .. 1
  BY DEF Rect
<1>3. Widen(a) \in Rect
  BY <1>1, <1>2 DEF Rect
<1>4. ASSUME NEW p \in Area(a)
      PROVE  p \in Area(Widen(a))
  <2>1. p \in Pixels /\ a.l <= p[1] /\ p[1] < a.r /\ a.t <= p[2] /\ p[2] < a.b
    BY DEF Area
  <2>2. p[1] \in Int /\ p[2] \in Int
    BY <2>1, PixelFacts
  <2>3. Widen(a).l <= p[1] /\ p[1] < Widen(a).r /\ Widen(a).t <= p[2] /\ p[2] < Widen(a).b
    BY <1>1, <1>2, <2>1, <2>2 DEF Rect
  <2> QED
    BY <2>1, <2>3 DEF Area
<1> QED
  BY <1>3, <1>4

LEMMA WriteFacts ==
  ASSUME NEW v, IsCard(v), NEW mem, NEW A
  PROVE  /\ IsCard(Write(v, mem, A))
         /\ Write(v, mem, A).fp = v.fp
         /\ \A p \in Pixels : Write(v, mem, A).px[p] =
                                IF p \in A THEN Shown(p, mem[p]) ELSE v.px[p]
  BY DEF Write, IsCard

LEMMA FillFacts ==
  ASSUME NEW v, IsCard(v), NEW A, NEW c
  PROVE  /\ IsCard(Fill(v, A, c))
         /\ Fill(v, A, c).fp = v.fp
         /\ \A p \in Pixels : Fill(v, A, c).px[p] =
                                IF p \in A THEN Shown(p, c) ELSE v.px[p]
  BY DEF Fill, IsCard

LEMMA ForgetFacts ==
  ASSUME NEW v, IsCard(v), NEW a
  PROVE  /\ IsCard(Forget(v, a))
         /\ Forget(v, a).px = v.px
         /\ \A s \in Pieces : Forget(v, a).fp[s] =
                                IF s \in Touched(a) THEN NoFp ELSE v.fp[s]
  BY DEF Forget, IsCard

LEMMA KnownFacts ==
  ASSUME NEW v, IsCard(v), NEW a, NEW c
  PROVE  /\ IsCard(Known(v, a, c))
         /\ Known(v, a, c).px = v.px
         /\ \A s \in Pieces : Known(v, a, c).fp[s] =
              IF ~HashMem \/ s \notin Touched(a) THEN v.fp[s]
              ELSE IF InPiece(s) \subseteq Area(a) THEN [p \in InPiece(s) |-> c]
              ELSE NoFp
  BY DEF Known, IsCard

(* A send by pieces of a, in the situations where it is complete: outside  *)
(* of a, the card already shows what the touched pieces hold.              *)
LEMMA SendChangedFacts ==
  ASSUME NEW v, IsCard(v), NEW mem, NEW a, HashMem, \A p \in Pixels : Honest(v, p)
  PROVE  LET w == SendChanged(v, mem, a) IN
         /\ IsCard(w)
         /\ \A p \in Area(a) : Synced(w, mem, p)
         /\ \A p \in Pixels \ Area(a) : w.px[p] = v.px[p]
         /\ \A p \in Pixels : Piece(p) \notin Touched(a) => Honest(w, p)
         /\ \A p \in Pixels : Piece(p) \in Touched(a) /\ Synced(w, mem, p) => Honest(w, p)
<1> DEFINE w == SendChanged(v, mem, a)
           x == Write(v, mem, Changed(v, mem, a))
<1>1. IsCard(x) /\ x.fp = v.fp
  BY WriteFacts
<1>2. /\ IsCard(w) /\ w.px = x.px
      /\ \A s \in Pieces : w.fp[s] = IF s \in Touched(a) THEN Content(mem, s) ELSE v.fp[s]
  BY <1>1 DEF SendChanged, IsCard
<1>3. \A p \in Pixels : w.px[p] = IF p \in Changed(v, mem, a) THEN Shown(p, mem[p]) ELSE v.px[p]
  BY <1>2, WriteFacts
<1>4. Area(a) \subseteq Pixels /\ Changed(v, mem, a) \subseteq Area(a)
  BY DEF Area, Changed
<1>5. ASSUME NEW p \in Area(a)
      PROVE  Synced(w, mem, p)
  <2>1. p \in Pixels /\ Piece(p) \in Touched(a)
    BY <1>4 DEF Touched
  <2>2. CASE p \in Changed(v, mem, a)
    BY <1>3, <2>1, <2>2 DEF Synced
  <2>3. CASE p \notin Changed(v, mem, a)
    <3>1. Piece(p) \notin Differs(v, mem, a)
      <4> SUFFICES ASSUME Piece(p) \in Differs(v, mem, a)
                   PROVE  FALSE
        OBVIOUS
      <4>1. /\ Piece(p)[2] = p[2]
            /\ Piece(p)[1] <= Piece(p)[1]
        BY <2>1, PixelFacts
      <4>2. p \in Changed(v, mem, a)
        BY <4>1 DEF Changed
      <4> QED
        BY <4>2, <2>3
    <3>2. v.fp[Piece(p)] = Content(mem, Piece(p))
      BY <3>1, <2>1 DEF Differs
    <3>3. p \in InPiece(Piece(p))
      BY <2>1, PixelFacts
    <3>4. Content(mem, Piece(p)) # NoFp /\ Content(mem, Piece(p))[p] = mem[p]
      <4>1. DOMAIN Content(mem, Piece(p)) = InPiece(Piece(p))
        BY DEF Content
      <4>2. DOMAIN NoFp = {}
        BY DEF NoFp
      <4>3. Content(mem, Piece(p)) # NoFp
        BY <4>1, <4>2, <3>3
      <4> QED
        BY <3>3, <4>3 DEF Content
    <3>5. v.px[p] = Shown(p, mem[p])
      BY <3>2, <3>4, <2>1 DEF Honest
    <3> QED
      BY <3>5, <1>3, <2>1, <2>3 DEF Synced
  <2> QED
    BY <2>2, <2>3
<1>6. ASSUME NEW p \in Pixels \ Area(a)
      PROVE  w.px[p] = v.px[p]
  BY <1>3, <1>4
<1>7. ASSUME NEW p \in Pixels, Piece(p) \notin Touched(a)
      PROVE  Honest(w, p)
  <2>1. p \notin Area(a)
    BY <1>7 DEF Touched
  <2>2. w.fp[Piece(p)] = v.fp[Piece(p)] /\ w.px[p] = v.px[p]
    BY <1>2, <1>6, <1>7, <2>1, PixelFacts
  <2> QED
    BY <2>2 DEF Honest
<1>8. ASSUME NEW p \in Pixels, Piece(p) \in Touched(a), Synced(w, mem, p)
      PROVE  Honest(w, p)
  <2>1. w.fp[Piece(p)] = Content(mem, Piece(p)) /\ p \in InPiece(Piece(p))
    BY <1>2, <1>8, PixelFacts
  <2>2. w.fp[Piece(p)][p] = mem[p]
    BY <2>1 DEF Content
  <2> QED
    BY <2>2, <1>8 DEF Honest, Synced
<1> QED
  BY <1>2, <1>5, <1>6, <1>7, <1>8

(* A whole send: complete, and its pieces are forgotten.                   *)
LEMMA SendWholeFacts ==
  ASSUME NEW v, IsCard(v), NEW mem, NEW a, \A p \in Pixels : Honest(v, p)
  PROVE  LET w == SendWhole(v, mem, a) IN
         /\ IsCard(w)
         /\ \A p \in Area(a) : Synced(w, mem, p)
         /\ \A p \in Pixels \ Area(a) : w.px[p] = v.px[p]
         /\ \A p \in Pixels : Honest(w, p)
<1> DEFINE w == SendWhole(v, mem, a)
           x == Write(v, mem, Area(a))
<1>1. IsCard(x) /\ x.fp = v.fp
  BY WriteFacts
<1>2. /\ IsCard(w) /\ w.px = x.px
      /\ \A s \in Pieces : w.fp[s] = IF s \in Touched(a) THEN NoFp ELSE v.fp[s]
  BY <1>1, ForgetFacts DEF SendWhole
<1>3. \A p \in Pixels : w.px[p] = IF p \in Area(a) THEN Shown(p, mem[p]) ELSE v.px[p]
  BY <1>2, WriteFacts
<1>4. Area(a) \subseteq Pixels
  BY DEF Area
<1>5. ASSUME NEW p \in Pixels
      PROVE  Honest(w, p)
  <2>1. CASE Piece(p) \in Touched(a)
    BY <1>2, <2>1, PixelFacts DEF Honest
  <2>2. CASE Piece(p) \notin Touched(a)
    <3>1. p \notin Area(a)
      BY <2>2 DEF Touched
    <3>2. w.fp[Piece(p)] = v.fp[Piece(p)] /\ w.px[p] = v.px[p]
      BY <1>2, <1>3, <2>2, <3>1, PixelFacts
    <3> QED
      BY <3>2 DEF Honest
  <2> QED
    BY <2>1, <2>2
<1> QED
  BY <1>2, <1>3, <1>4, <1>5 DEF Synced

(* A fill, as a part of the screen that RAM holds in one colour or not.    *)
LEMMA SolidFacts ==
  ASSUME NEW v, IsCard(v), NEW a, NEW c, \A p \in Pixels : Honest(v, p)
  PROVE  LET w == Solid(v, a, c) IN
         /\ IsCard(w)
         /\ \A p \in Area(a) : w.px[p] = Shown(p, c)
         /\ \A p \in Pixels \ Area(a) : w.px[p] = v.px[p]
         /\ \A p \in Pixels : Honest(w, p)
<1> DEFINE w == Solid(v, a, c)
           x == Fill(v, Area(a), c)
<1>1. IsCard(x) /\ x.fp = v.fp
  BY FillFacts
<1>2. /\ IsCard(w) /\ w.px = x.px
      /\ \A s \in Pieces : w.fp[s] =
              IF ~HashMem \/ s \notin Touched(a) THEN v.fp[s]
              ELSE IF InPiece(s) \subseteq Area(a) THEN [p \in InPiece(s) |-> c]
              ELSE NoFp
  BY <1>1, KnownFacts DEF Solid
<1>3. \A p \in Pixels : w.px[p] = IF p \in Area(a) THEN Shown(p, c) ELSE v.px[p]
  BY <1>2, FillFacts
<1>4. Area(a) \subseteq Pixels
  BY DEF Area
<1>5. ASSUME NEW p \in Pixels
      PROVE  Honest(w, p)
  <2>1. Piece(p) \in Pieces /\ p \in InPiece(Piece(p))
    BY PixelFacts
  <2>2. CASE ~HashMem
    BY <1>2, <2>1, <2>2 DEF IsCard, Honest
  <2>3. CASE HashMem /\ Piece(p) \notin Touched(a)
    <3>1. p \notin Area(a)
      BY <2>3 DEF Touched
    <3>2. w.fp[Piece(p)] = v.fp[Piece(p)] /\ w.px[p] = v.px[p]
      BY <1>2, <1>3, <2>1, <2>3, <3>1
    <3> QED
      BY <3>2 DEF Honest
  <2>4. CASE HashMem /\ Piece(p) \in Touched(a) /\ InPiece(Piece(p)) \subseteq Area(a)
    <3>1. w.fp[Piece(p)] = [q \in InPiece(Piece(p)) |-> c]
      BY <1>2, <2>1, <2>4
    <3>2. w.fp[Piece(p)][p] = c /\ p \in Area(a)
      BY <2>1, <2>4, <3>1
    <3> QED
      BY <1>3, <3>2 DEF Honest
  <2>5. CASE HashMem /\ Piece(p) \in Touched(a) /\ ~(InPiece(Piece(p)) \subseteq Area(a))
    BY <1>2, <2>1, <2>5 DEF Honest
  <2> QED
    BY <2>2, <2>3, <2>4, <2>5
<1> QED
  BY <1>2, <1>3, <1>4, <1>5

(* Flush puts a on the card as RAM has it, spoils nothing else, and leaves *)
(* true fingerprints if the pieces it touches were in order outside a.     *)
LEMMA FlushFacts ==
  ASSUME NEW v, IsCard(v), NEW mem, NEW a \in Rect,
         \A p \in Pixels : Honest(v, p)
  PROVE  LET w == Flush(v, mem, a) IN
         /\ IsCard(w)
         /\ \A p \in Area(a) : Synced(w, mem, p)
         /\ \A p \in Pixels \ Area(a) : Synced(v, mem, p) => Synced(w, mem, p)
         /\ (Fingerprinted(a, FALSE) =>
               \A p \in Pixels \ Area(a) : Piece(p) \in Touched(Widen(a)) => Synced(v, mem, p))
            => \A p \in Pixels : Honest(w, p)
<1> DEFINE w == Flush(v, mem, a)
           wide == Widen(a)
<1>1. wide \in Rect /\ Area(a) \subseteq Area(wide) /\ Area(wide) \subseteq Pixels
      /\ Area(a) \subseteq Pixels
  BY WidenFacts DEF Area
<1>2. CASE \E c \in Colours : OneColour(mem, a, c)
  <2> DEFINE c == CHOOSE c \in Colours : OneColour(mem, a, c)
  <2>1. OneColour(mem, a, c) /\ w = Solid(v, a, c)
    BY <1>2 DEF Flush
  <2>2. \A p \in Area(a) : mem[p] = c
    BY <2>1 DEF OneColour
  <2> HIDE DEF c
  <2>3. /\ IsCard(w)
        /\ \A p \in Area(a) : w.px[p] = Shown(p, c)
        /\ \A p \in Pixels \ Area(a) : w.px[p] = v.px[p]
        /\ \A p \in Pixels : Honest(w, p)
    BY <2>1, SolidFacts
  <2>4. /\ \A p \in Area(a) : Synced(w, mem, p)
        /\ \A p \in Pixels \ Area(a) : Synced(v, mem, p) => Synced(w, mem, p)
    BY <2>2, <2>3 DEF Synced
  <2> QED
    BY <2>3, <2>4
<1>3. CASE ~(\E c \in Colours : OneColour(mem, a, c)) /\ Fingerprinted(a, FALSE)
  <2>1. w = SendChanged(v, mem, wide) /\ HashMem
    BY <1>3 DEF Flush, Send, Fingerprinted
  <2>2. /\ IsCard(w)
        /\ \A p \in Area(wide) : Synced(w, mem, p)
        /\ \A p \in Pixels \ Area(wide) : w.px[p] = v.px[p]
        /\ \A p \in Pixels : Piece(p) \notin Touched(wide) => Honest(w, p)
        /\ \A p \in Pixels : Piece(p) \in Touched(wide) /\ Synced(w, mem, p) => Honest(w, p)
    BY <2>1, SendChangedFacts
  <2>3. \A p \in Pixels : Synced(v, mem, p) => Synced(w, mem, p)
    BY <2>2 DEF Synced
  <2>4. ASSUME \A p \in Pixels \ Area(a) :
                 Piece(p) \in Touched(Widen(a)) => Synced(v, mem, p),
               NEW p \in Pixels
        PROVE  Honest(w, p)
    BY <1>1, <2>2, <2>3, <2>4
  <2> QED
    BY <1>1, <1>3, <2>2, <2>3, <2>4
<1>4. CASE ~(\E c \in Colours : OneColour(mem, a, c)) /\ ~Fingerprinted(a, FALSE)
  <2>1. w = SendWhole(v, mem, wide)
    BY <1>4 DEF Flush, Send
  <2>2. /\ IsCard(w)
        /\ \A p \in Area(wide) : Synced(w, mem, p)
        /\ \A p \in Pixels \ Area(wide) : w.px[p] = v.px[p]
        /\ \A p \in Pixels : Honest(w, p)
    BY <2>1, SendWholeFacts
  <2> QED
    BY <1>1, <2>2 DEF Synced
<1> QED
  BY <1>2, <1>3, <1>4

(* Whatever the card and the fingerprints hold, a flush keeps their shape. *)
LEMMA FlushTypeFacts ==
  ASSUME NEW v, IsCard(v), NEW mem, NEW a
  PROVE  IsCard(Flush(v, mem, a))
<1>1. \A x, A : IsCard(x) => IsCard(Write(x, mem, A))
  BY WriteFacts
<1>2. \A x, A, c : IsCard(x) => IsCard(Fill(x, A, c))
  BY FillFacts
<1>3. ASSUME NEW c
      PROVE  IsCard(Solid(v, a, c))
  <2>1. IsCard(Fill(v, Area(a), c))
    BY <1>2
  <2> QED
    BY <2>1, KnownFacts DEF Solid
<1>4. IsCard(SendWhole(v, mem, Widen(a)))
  BY <1>1, ForgetFacts DEF SendWhole
<1>5. ASSUME HashMem
      PROVE  IsCard(SendChanged(v, mem, Widen(a)))
  BY <1>1, <1>5 DEF SendChanged, IsCard
<1> QED
  BY <1>3, <1>4, <1>5 DEF Flush, Send, Fingerprinted

(* After a mode set the card shows RAM, with true fingerprints.            *)
LEMMA SendAllFacts ==
  ASSUME NEW v, IsCard(v), NEW mem
  PROVE  LET w == SendAll(v, mem) IN
         /\ IsCard(w)
         /\ \A p \in Pixels : Synced(w, mem, p) /\ Honest(w, p)
<1> DEFINE w == SendAll(v, mem)
           x == Fill(v, Pixels, Black)
           y == Forget(x, Screen)
           wide == Widen(Screen)
<1>1. IsCard(x) /\ IsCard(y)
  BY FillFacts, ForgetFacts
<1>2. Screen \in Rect /\ Area(Screen) = Pixels
  <2>1. Screen \in Rect
    BY GeometryAssumption DEF Screen, Rect
  <2>2. \A p \in Pixels : 0 <= p[1] /\ p[1] < Width /\ 0 <= p[2] /\ p[2] < Height
    BY GeometryAssumption DEF Pixels
  <2> QED
    BY <2>1, <2>2 DEF Area, Screen
<1>3. Area(wide) = Pixels
  BY <1>2, WidenFacts DEF Area
<1>4. \A s \in Pieces : s \in Touched(Screen)
  BY <1>2 DEF Touched, Pieces
<1>5. \A p \in Pixels : Honest(y, p)
  BY <1>1, <1>4, ForgetFacts, PixelFacts DEF Honest
<1>6. CASE Fingerprinted(Screen, FALSE)
  <2>1. w = SendChanged(y, mem, wide) /\ HashMem
    BY <1>6 DEF SendAll, Send, Fingerprinted
  <2>2. /\ IsCard(w)
        /\ \A p \in Area(wide) : Synced(w, mem, p)
        /\ \A p \in Pixels : Piece(p) \notin Touched(wide) => Honest(w, p)
        /\ \A p \in Pixels : Piece(p) \in Touched(wide) /\ Synced(w, mem, p) => Honest(w, p)
    BY <1>1, <1>5, <2>1, SendChangedFacts
  <2> QED
    BY <1>3, <2>2
<1>7. CASE ~Fingerprinted(Screen, FALSE)
  <2>1. w = SendWhole(y, mem, wide)
    BY <1>7 DEF SendAll, Send
  <2>2. /\ IsCard(w)
        /\ \A p \in Area(wide) : Synced(w, mem, p)
        /\ \A p \in Pixels : Honest(w, p)
    BY <1>1, <1>5, <2>1, SendWholeFacts
  <2> QED
    BY <1>3, <2>2
<1> QED
  BY <1>6, <1>7

-----------------------------------------------------------------------------
(* Copies by whole dither periods.                                         *)

LEMMA ModShift ==
  ASSUME NEW m \in Nat \ {0}, NEW x \in Int, NEW d \in Int, d % m = 0
  PROVE  (x + d) % m = x % m
<1> DEFINE k == d \div m
           q == x \div m
           r == x % m
           q2 == (x + d) \div m
           r2 == (x + d) % m
<1>1. d = m * k /\ k \in Int
  OBVIOUS
<1>2. x = m * q + r /\ q \in Int /\ r \in 0 .. m - 1
  OBVIOUS
<1>3. x + d = m * q2 + r2 /\ q2 \in Int /\ r2 \in 0 .. m - 1
  OBVIOUS
<1> HIDE DEF k, q, r, q2, r2
<1>4. m * (q + k - q2) = r2 - r
  BY <1>1, <1>2, <1>3
<1>5. q + k - q2 \in Int /\ r2 - r < m /\ -m < r2 - r
  BY <1>1, <1>2, <1>3
<1>6. ASSUME NEW z \in Int, m * z < m, -m < m * z
      PROVE  z = 0
  <2>1. CASE z >= 1
    <3>1. m * (z - 1) >= 0
      BY <2>1
    <3> QED
      BY <1>6, <3>1
  <2>2. CASE z <= -1
    <3>1. m * (-1 - z) >= 0
      BY <2>2
    <3> QED
      BY <1>6, <3>1
  <2> QED
    BY <2>1, <2>2
<1>7. q + k - q2 = 0
  BY <1>4, <1>5, <1>6
<1>8. r2 - r = 0
  BY <1>4, <1>7
<1> QED
  BY <1>2, <1>3, <1>8 DEF r, r2

(* The card's copy is the copy RAM made, and the rest stands.              *)
LEMMA CardCopyFacts ==
  ASSUME NEW v, IsCard(v), NEW a \in Rect, NEW dx \in Int, NEW dy \in Int,
         InPhase(a, dx, dy), NEW mem, NEW copied,
         \A p \in Pixels : Honest(v, p),
         \A p \in Pixels : Synced(v, mem, p),
         \A p \in Pixels : copied[p] =
            IF p \in Area(a) /\ <<p[1] + dx, p[2] + dy>> \in Pixels
            THEN mem[<<p[1] + dx, p[2] + dy>>] ELSE mem[p]
  PROVE  LET w == CardCopy(v, a, dx, dy) IN
         /\ IsCard(w)
         /\ \A p \in Pixels : Synced(w, copied, p) /\ Honest(w, p)
<1> DEFINE x == [v EXCEPT !.px = [p \in Pixels |->
                   IF p \in Area(a) THEN @[<<p[1] + dx, p[2] + dy>>] ELSE @[p]]]
           w == CardCopy(v, a, dx, dy)
<1>1. /\ IsCard(x) /\ x.fp = v.fp
      /\ \A p \in Pixels : x.px[p] = IF p \in Area(a) THEN v.px[<<p[1] + dx, p[2] + dy>>]
                                                      ELSE v.px[p]
  BY DEF IsCard
<1> HIDE DEF x
<1>2. w = Forget(x, a)
  BY DEF CardCopy, x
<1>3. /\ IsCard(w) /\ w.px = x.px
      /\ \A s \in Pieces : w.fp[s] = IF s \in Touched(a) THEN NoFp ELSE x.fp[s]
  BY <1>1, <1>2, ForgetFacts
<1>4. ASSUME NEW p \in Area(a)
      PROVE  LET q == <<p[1] + dx, p[2] + dy>> IN
             q \in Pixels /\ \A c : Shown(q, c) = Shown(p, c)
  <2>1. p \in Pixels /\ p[1] \in Int /\ p[2] \in Int
        /\ a.l <= p[1] /\ p[1] < a.r /\ a.t <= p[2] /\ p[2] < a.b
    BY PixelFacts DEF Area
  <2>2. /\ 0 <= p[1] + dx /\ p[1] + dx < Width
        /\ 0 <= p[2] + dy /\ p[2] + dy < Height
    BY <2>1, GeometryAssumption DEF InPhase, Rect
  <2>3. <<p[1] + dx, p[2] + dy>> \in Pixels
    BY <2>1, <2>2, GeometryAssumption DEF Pixels
  <2>4. (p[1] + dx) % Dither = p[1] % Dither /\ (p[2] + dy) % Dither = p[2] % Dither
    BY <2>1, ModShift, GeometryAssumption DEF InPhase
  <2> QED
    BY <2>3, <2>4 DEF Shown
<1>5. ASSUME NEW p \in Pixels
      PROVE  Synced(w, copied, p)
  <2>1. CASE p \in Area(a)
    <3> DEFINE q == <<p[1] + dx, p[2] + dy>>
    <3>1. q \in Pixels /\ \A c : Shown(q, c) = Shown(p, c)
      BY <1>4, <2>1
    <3>2. copied[p] = mem[q] /\ w.px[p] = v.px[q] /\ v.px[q] = Shown(q, mem[q])
      BY <1>1, <1>3, <2>1, <3>1 DEF Synced
    <3> HIDE DEF q
    <3> QED
      BY <3>1, <3>2 DEF Synced
  <2>2. CASE p \notin Area(a)
    BY <1>1, <1>3, <2>2 DEF Synced
  <2> QED
    BY <2>1, <2>2
<1>6. ASSUME NEW p \in Pixels
      PROVE  Honest(w, p)
  <2>1. Piece(p) \in Pieces
    BY PixelFacts
  <2>2. CASE Piece(p) \in Touched(a)
    BY <1>3, <2>1, <2>2 DEF Honest
  <2>3. CASE Piece(p) \notin Touched(a)
    <3>1. p \notin Area(a)
      BY <2>3 DEF Touched
    <3> QED
      BY <1>1, <1>3, <2>1, <2>3, <3>1 DEF Honest
  <2> QED
    BY <2>2, <2>3
<1> QED
  BY <1>3, <1>5, <1>6

-----------------------------------------------------------------------------
(* Rectangles whose columns begin and end at multiples of n.               *)

Aligned(n) == {a \in Rect : a.l % n = 0 /\ a.r % n = 0}

AllHonest(v) == \A p \in Pixels : Honest(v, p)

(* Two columns of one piece are on the same side of a piece's beginning.   *)
LEMMA SameSide ==
  ASSUME NEW m \in Nat \ {0}, NEW x \in Int, NEW y \in Int, NEW l \in Int,
         x \div m = y \div m, l % m = 0
  PROVE  l <= x <=> l <= y
<1> DEFINE q  == x \div m
           j  == l \div m
           rx == x % m
           ry == y % m
<1>1. x = m * q + rx /\ y = m * q + ry /\ q \in Int /\ rx \in 0 .. m - 1 /\ ry \in 0 .. m - 1
  OBVIOUS
<1>2. l = m * j /\ j \in Int
  OBVIOUS
<1> HIDE DEF q, j, rx, ry
<1>3. CASE j <= q
  <2>1. m * (q - j) >= 0
    BY <1>1, <1>2, <1>3
  <2>2. m * q >= m * j
    BY <1>1, <1>2, <2>1
  <2> QED
    BY <1>1, <1>2, <2>2
<1>4. CASE j >= q + 1
  <2>1. m * (j - q - 1) >= 0
    BY <1>1, <1>2, <1>4
  <2>2. m * j >= m * q + m
    BY <1>1, <1>2, <2>1
  <2> QED
    BY <1>1, <1>2, <2>2
<1> QED
  BY <1>1, <1>2, <1>3, <1>4

(* A multiple of an even number is even.                                   *)
LEMMA EvenMultiple ==
  ASSUME NEW m \in Nat \ {0}, m % 2 = 0, NEW x \in Int, x % m = 0
  PROVE  x % 2 = 0
<1> DEFINE i == m \div 2
           j == x \div m
<1>1. m = 2 * i /\ i \in Int /\ x = m * j /\ j \in Int
  OBVIOUS
<1> HIDE DEF i, j
<1>2. x = 2 * (i * j) /\ i * j \in Int
  BY <1>1
<1> DEFINE z == i * j
<1> HIDE DEF z
<1>3. x = 2 * z /\ z \in Int
  BY <1>2 DEF z
<1> QED
  BY <1>3

LEMMA AlignedFacts ==
  /\ Aligned(SegW) \subseteq Aligned(2)
  /\ Screen \in Aligned(SegW)
<1>1. ASSUME NEW a \in Aligned(SegW) PROVE a \in Aligned(2)
  <2>1. a \in Rect /\ a.l \in Int /\ a.r \in Int /\ a.l % SegW = 0 /\ a.r % SegW = 0
    BY DEF Aligned, Rect
  <2>2. a.l % 2 = 0 /\ a.r % 2 = 0
    BY <2>1, EvenMultiple, GeometryAssumption
  <2> QED
    BY <2>1, <2>2 DEF Aligned
<1>2. Screen \in Rect /\ Screen.l = 0 /\ Screen.r = Width
  BY GeometryAssumption DEF Screen, Rect
<1>3. 0 % SegW = 0
  BY GeometryAssumption
<1> QED
  BY <1>1, <1>2, <1>3, GeometryAssumption DEF Aligned

(* An even rectangle goes to the card as it is.                            *)
LEMMA WidenEven ==
  ASSUME NEW a \in Aligned(2)
  PROVE  Widen(a) = a
<1>1. a = [l |-> a.l, t |-> a.t, r |-> a.r, b |-> a.b] /\ a.l \in Int /\ a.r \in Int
      /\ a.l % 2 = 0 /\ a.r % 2 = 0
  BY DEF Aligned, Rect
<1>2. a.l - (a.l % 2) = a.l /\ a.r + (a.r % 2) = a.r
  BY <1>1
<1> QED
  BY <1>1, <1>2 DEF Widen

(* A rectangle of whole pieces touches none in part.                       *)
LEMMA WholePieces ==
  ASSUME NEW a \in Aligned(SegW), NEW p \in Pixels \ Area(a)
  PROVE  Piece(p) \notin Touched(a)
<1> SUFFICES ASSUME NEW q \in Area(a), Piece(q) = Piece(p) PROVE FALSE
  BY DEF Touched
<1>1. /\ q \in Pixels /\ a.l <= q[1] /\ q[1] < a.r /\ a.t <= q[2] /\ q[2] < a.b
  BY DEF Area
<1>2. /\ p[1] \in Int /\ q[1] \in Int /\ p[2] = q[2] /\ p[1] \div SegW = q[1] \div SegW
  BY <1>1, PixelFacts DEF Piece
<1>3. a.l \in Int /\ a.r \in Int /\ a.l % SegW = 0 /\ a.r % SegW = 0
  BY DEF Aligned, Rect
<1>4. a.l <= p[1]
  BY <1>1, <1>2, <1>3, SameSide, GeometryAssumption
<1>5. ~(a.r <= p[1])
  <2>1. a.r <= p[1] <=> a.r <= q[1]
    BY <1>2, <1>3, SameSide, GeometryAssumption
  <2> QED
    BY <1>1, <1>2, <1>3, <2>1
<1> QED
  BY <1>1, <1>2, <1>3, <1>4, <1>5 DEF Area

(* Sends of whole pieces, and any that goes whole, leave true fingerprints.*)
LEMMA FlushHonest ==
  ASSUME NEW v, IsCard(v), AllHonest(v), NEW mem, NEW a \in Aligned(SegW)
  PROVE  AllHonest(Flush(v, mem, a))
<1>1. a \in Rect /\ Widen(a) = a
  BY AlignedFacts, WidenEven DEF Aligned
<1>2. \A p \in Pixels \ Area(a) : Piece(p) \notin Touched(Widen(a))
  BY <1>1, WholePieces
<1>3. \A p \in Pixels : Honest(v, p)
  BY DEF AllHonest
<1> QED
  BY <1>1, <1>2, <1>3, FlushFacts DEF AllHonest

LEMMA SendRectHonest ==
  ASSUME NEW v, IsCard(v), AllHonest(v), NEW mem, NEW a, NEW solid,
         a \in Aligned(SegW) \/ solid = Exact
  PROVE  AllHonest(SendRect(v, mem, a, solid))
<1>1. \A p \in Pixels : Honest(v, p)
  BY DEF AllHonest
<1>2. AllHonest(Send(v, mem, a, TRUE))
  <2>1. ~Fingerprinted(a, TRUE)
    BY DEF Fingerprinted
  <2>2. \A p \in Pixels : Honest(SendWhole(v, mem, Widen(a)), p)
    BY ONLY IsCard(v), <1>1, SendWholeFacts
  <2> QED
    BY <2>1, <2>2 DEF Send, AllHonest
<1>3. \A c : AllHonest(Solid(v, a, c))
  <2> SUFFICES ASSUME NEW c PROVE AllHonest(Solid(v, a, c))
    OBVIOUS
  <2>1. \A p \in Pixels : Honest(Solid(v, a, c), p)
    BY ONLY IsCard(v), <1>1, SolidFacts
  <2> QED
    BY ONLY <2>1 DEF AllHonest
<1>4. CASE a \in Aligned(SegW)
  <2>1. AllHonest(Flush(v, mem, a))
    BY <1>4, FlushHonest
  <2> QED
    BY <1>2, <1>3, <2>1 DEF SendRect
<1>5. CASE solid = Exact
  BY <1>2, <1>3, <1>5 DEF SendRect, Exact
<1> QED
  BY <1>4, <1>5

(* A copy of the card's own drops the fingerprints it makes untrue.        *)
LEMMA CopyHonest ==
  ASSUME NEW v, IsCard(v), AllHonest(v), NEW a, NEW dx, NEW dy
  PROVE  AllHonest(CardCopy(v, a, dx, dy))
<1> DEFINE x == [v EXCEPT !.px = [p \in Pixels |->
                   IF p \in Area(a) THEN @[<<p[1] + dx, p[2] + dy>>] ELSE @[p]]]
           w == CardCopy(v, a, dx, dy)
<1>1. /\ IsCard(x) /\ x.fp = v.fp
      /\ \A p \in Pixels \ Area(a) : x.px[p] = v.px[p]
  BY DEF IsCard
<1>2. w = Forget(x, a)
  BY DEF CardCopy
<1> HIDE DEF x
<1>3. /\ w.px = x.px
      /\ \A s \in Pieces : w.fp[s] = IF s \in Touched(a) THEN NoFp ELSE x.fp[s]
  BY <1>1, <1>2, ForgetFacts
<1> HIDE DEF w
<1>4. ASSUME NEW p \in Pixels PROVE Honest(w, p)
  <2>1. Piece(p) \in Pieces
    BY PixelFacts
  <2>2. CASE Piece(p) \in Touched(a)
    BY <1>3, <2>1, <2>2 DEF Honest
  <2>3. CASE Piece(p) \notin Touched(a)
    <3>1. p \notin Area(a)
      BY <2>3 DEF Touched
    <3>2. w.px[p] = v.px[p] /\ w.fp[Piece(p)] = v.fp[Piece(p)]
      BY <1>1, <1>3, <2>1, <2>3, <3>1
    <3> QED
      BY <3>2 DEF Honest, AllHonest
  <2> QED
    BY <2>2, <2>3
<1> QED
  BY <1>4 DEF AllHonest, w

(* What is forgotten speaks for nothing.                                   *)
LEMMA ForgetHonest ==
  ASSUME NEW v, IsCard(v)
  PROVE  /\ AllHonest(Forget(v, Screen))
         /\ \A a : AllHonest(v) => AllHonest(Forget(v, a))
<1>1. \A p \in Pixels : Piece(p) \in Pieces /\ Piece(p) \in Touched(Screen)
  <2>1. ASSUME NEW p \in Pixels PROVE p \in Area(Screen)
    BY GeometryAssumption DEF Area, Screen, Pixels
  <2> QED
    BY <2>1, PixelFacts DEF Touched
<1>2. \A p \in Pixels : Honest(Forget(v, Screen), p)
  BY <1>1, ForgetFacts DEF Honest
<1>3. ASSUME NEW a, AllHonest(v), NEW p \in Pixels PROVE Honest(Forget(v, a), p)
  <2>1. Forget(v, a).px = v.px
        /\ Forget(v, a).fp[Piece(p)] \in {NoFp, v.fp[Piece(p)]}
    BY <1>1, ForgetFacts
  <2> QED
    BY <1>3, <2>1 DEF Honest, AllHonest
<1> QED
  BY <1>2, <1>3 DEF AllHonest

(* A send changes nothing on the card but its even rectangle.              *)
LEMMA SendOnly ==
  ASSUME NEW v, IsCard(v), NEW mem, NEW a \in Aligned(2), NEW p \in Pixels \ Area(a)
  PROVE  SendRect(v, mem, a, 0).px[p] = v.px[p]
<1>1. Widen(a) = a
  BY WidenEven
<1>2. \A c : Solid(v, a, c).px[p] = v.px[p]
  <2> SUFFICES ASSUME NEW c PROVE Solid(v, a, c).px[p] = v.px[p]
    OBVIOUS
  <2>1. IsCard(Fill(v, Area(a), c)) /\ Fill(v, Area(a), c).px[p] = v.px[p]
    BY FillFacts
  <2> QED
    BY <2>1, KnownFacts DEF Solid
<1>3. SendWhole(v, mem, a).px[p] = v.px[p]
  <2>1. IsCard(Write(v, mem, Area(a))) /\ Write(v, mem, Area(a)).px[p] = v.px[p]
    BY WriteFacts
  <2> QED
    BY <2>1, ForgetFacts DEF SendWhole
<1>4. SendChanged(v, mem, a).px[p] = v.px[p]
  <2> DEFINE x == Write(v, mem, Changed(v, mem, a))
  <2>1. p \notin Changed(v, mem, a)
    BY DEF Changed
  <2>2. IsCard(x) /\ x.px[p] = v.px[p]
    BY <2>1, WriteFacts
  <2>3. SendChanged(v, mem, a).px = x.px
    BY DEF SendChanged
  <2> QED
    BY <2>2, <2>3
<1>5. SendRect(v, mem, a, 0) = Flush(v, mem, a)
  BY DEF SendRect, Exact
<1> QED
  BY <1>1, <1>2, <1>3, <1>4, <1>5 DEF Flush, Send

-----------------------------------------------------------------------------
(* Numbers, finite sets and sequences.                                     *)

(* A set of naturals has a least.                                          *)
LEMMA NatMin ==
  ASSUME NEW T, T \subseteq Nat, T # {}
  PROVE  \E x \in T : \A y \in T : x <= y
<1> DEFINE R == OpToRel(<, Nat)
<1>1. \A x, y \in Nat : y < x => <<y, x>> \in R
  <2> SUFFICES ASSUME NEW x \in Nat, NEW y \in Nat, y < x PROVE <<y, x>> \in R
    OBVIOUS
  <2>1. R = {ss \in Nat \X Nat : ss[1] < ss[2]}
    BY DEF OpToRel
  <2> QED
    BY <2>1
<1>2. IsWellFoundedOn(R, Nat)
  BY NatLessThanWellFounded
<1> HIDE DEF R
<1>3. PICK x \in T : \A y \in T : ~(<<y, x>> \in R)
  BY <1>2, WFMin
<1>4. \A y \in T : x <= y
  <2> SUFFICES ASSUME NEW y \in T PROVE x <= y
    OBVIOUS
  <2>1. x \in Nat /\ y \in Nat /\ ~(y < x)
    BY <1>1, <1>3
  <2> QED
    BY <2>1
<1> QED
  BY <1>4

(* Induction: a set that holds 0 and every successor holds every natural.  *)
LEMMA Induct ==
  ASSUME NEW S, 0 \in S, \A n \in Nat : n \in S => n + 1 \in S
  PROVE  \A n \in Nat : n \in S
<1> SUFFICES ASSUME Nat \ S # {} PROVE FALSE
  OBVIOUS
<1>1. PICK n \in Nat \ S : \A m \in Nat \ S : n <= m
  BY NatMin
<1>2. n - 1 \in Nat /\ n - 1 \notin Nat \ S
  BY <1>1
<1> QED
  BY <1>2

(* The least and the greatest of two.                                      *)
LEMMA MinMaxTwo ==
  ASSUME NEW x \in Int, NEW y \in Int
  PROVE  /\ Min({x, y}) \in Int /\ Min({x, y}) <= x /\ Min({x, y}) <= y
         /\ Max({x, y}) \in Int /\ Max({x, y}) >= x /\ Max({x, y}) >= y
<1>1. \E m \in {x, y} : \A z \in {x, y} : m <= z
  OBVIOUS
<1>2. \E m \in {x, y} : \A z \in {x, y} : m >= z
  OBVIOUS
<1>3. Min({x, y}) \in {x, y} /\ \A z \in {x, y} : Min({x, y}) <= z
  BY <1>1 DEF Min
<1>4. Max({x, y}) \in {x, y} /\ \A z \in {x, y} : Max({x, y}) >= z
  BY <1>2 DEF Max
<1> QED
  BY <1>3, <1>4

(* The sequence made of a finite set has its elements, each of them.       *)
LEMMA SeqOfSet ==
  ASSUME NEW S, IsFiniteSet(S)
  PROVE  LET s == SetToSeq(S) n == Cardinality(S) IN
         /\ n \in Nat /\ DOMAIN s = 1 .. n /\ \A i \in 1 .. n : s[i] \in S
         /\ \A x \in S : \E i \in 1 .. n : s[i] = x
<1> DEFINE n == Cardinality(S)
           s == SetToSeq(S)
<1>1. n \in Nat /\ ExistsBijection(1 .. n, S)
  BY FS_CardinalityType
<1>2. \E f \in [1 .. n -> S] : IsInjective(f)
  BY <1>1 DEF ExistsBijection, Bijection, Injection, IsInjective
<1>3. s \in [1 .. n -> S] /\ IsInjective(s)
  BY <1>2 DEF SetToSeq
<1>4. s \in Injection(1 .. n, S)
  BY <1>3 DEF Injection, IsInjective
<1>5. s \in Surjection(1 .. n, S)
  <2>1. IsFiniteSet(1 .. n) /\ Cardinality(1 .. n) = n
    BY <1>1, FS_Interval
  <2> QED
    BY <1>4, <2>1, FS_Injection
<1> QED
  BY <1>1, <1>3, <1>5 DEF Surjection

(* What is in a row is in a row of more.                                   *)
LEMMA SeqWider ==
  ASSUME NEW X, NEW Y, X \subseteq Y, NEW s \in Seq(X)
  PROVE  s \in Seq(Y)
<1>1. s \in [1 .. Len(s) -> X] /\ Len(s) \in Nat
  OBVIOUS
<1>2. s \in [1 .. Len(s) -> Y]
  BY <1>1
<1> QED
  BY <1>1, <1>2

(* What a lock's end leaves of the list.                                   *)
LEMMA Removed ==
  ASSUME NEW X, NEW s \in Seq(X), NEW i \in DOMAIN s
  PROVE  /\ DOMAIN RemoveAt(s, i) = 1 .. Len(s) - 1
         /\ \A j \in 1 .. Len(s) - 1 : RemoveAt(s, i)[j] = IF j < i THEN s[j] ELSE s[j + 1]
<1>1. i \in 1 .. Len(s) /\ Len(s) \in Nat /\ DOMAIN s = 1 .. Len(s)
  OBVIOUS
<1> DEFINE x == SubSeq(s, 1, i - 1)
           y == SubSeq(s, i + 1, Len(s))
<1>2. /\ x \in Seq(X) /\ Len(x) = i - 1 /\ (\A j \in 1 .. i - 1 : x[j] = s[j])
  BY <1>1
<1>3. /\ y \in Seq(X) /\ Len(y) = Len(s) - i /\ (\A j \in 1 .. Len(s) - i : y[j] = s[j + i])
  BY <1>1
<1>4. RemoveAt(s, i) = x \o y
  BY DEF RemoveAt
<1> HIDE DEF x, y
<1>5. DOMAIN (x \o y) = 1 .. Len(s) - 1
  <2>1. DOMAIN (x \o y) = 1 .. Len(x) + Len(y)
    BY <1>2, <1>3
  <2>2. Len(x) + Len(y) = Len(s) - 1
    BY <1>1, <1>2, <1>3
  <2> QED
    BY <2>1, <2>2
<1>6. ASSUME NEW j \in 1 .. Len(s) - 1
      PROVE  (x \o y)[j] = IF j < i THEN s[j] ELSE s[j + 1]
  <2>1. Len(x) \in Nat /\ Len(y) \in Nat /\ j \in 1 .. Len(x) + Len(y)
    BY <1>1, <1>2, <1>3
  <2>2. (x \o y)[j] = IF j <= Len(x) THEN x[j] ELSE y[j - Len(x)]
    BY SMTT(60), <1>2, <1>3, <2>1
  <2>3. CASE j < i
    <3>1. j \in 1 .. i - 1 /\ j <= Len(x)
      BY <1>1, <1>2, <2>3
    <3> QED
      BY <1>2, <2>2, <2>3, <3>1
  <2>4. CASE ~(j < i)
    <3>1. j - Len(x) \in 1 .. Len(s) - i /\ (j - Len(x)) + i = j + 1 /\ ~(j <= Len(x))
      BY <1>1, <1>2, <2>4
    <3>2. y[j - Len(x)] = s[j + 1]
      BY <1>3, <3>1
    <3> QED
      BY <2>2, <2>4, <3>1, <3>2
  <2> QED
    BY <2>3, <2>4
<1> QED
  BY <1>4, <1>5, <1>6

(* A bounded set of numbers has a greatest.                                *)
LEMMA NatMax ==
  ASSUME NEW n \in Nat, NEW T, T \subseteq 0 .. n, T # {}
  PROVE  \E x \in T : \A y \in T : y <= x
<1> DEFINE S == {n - x : x \in T}
<1>1. S \subseteq Nat /\ S # {}
  <2>1. \A x \in T : n - x \in Nat
    OBVIOUS
  <2>2. PICK x \in T : TRUE
    OBVIOUS
  <2>3. n - x \in S
    BY <2>2
  <2> QED
    BY <2>1, <2>3
<1>2. \A y \in T : n - y \in S
  OBVIOUS
<1>3. \A z \in S : \E x \in T : z = n - x
  OBVIOUS
<1> HIDE DEF S
<1>s. PICK s \in S : \A z \in S : s <= z
  BY <1>1, NatMin
<1>x. PICK x \in T : s = n - x
  BY <1>3, <1>s
<1>4. ASSUME NEW y \in T PROVE y <= x
  <2>1. s <= n - y
    BY <1>2, <1>s
  <2>2. x \in Int /\ y \in Int /\ s = n - x
    BY <1>x
  <2> QED
    BY <2>1, <2>2
<1> QED
  BY <1>4

(* A changed row lies in a run of changed rows.                            *)
LEMMA RunAround ==
  ASSUME NEW h \in Nat, NEW Rows, Rows \subseteq 0 .. h - 1, NEW y \in Rows
  PROVE  \E u \in Rows, v \in Rows : /\ u <= y /\ y <= v /\ u .. v \subseteq Rows
                                     /\ u - 1 \notin Rows /\ v + 1 \notin Rows
<1> DEFINE Below == {n \in Nat : y - n - 1 \notin Rows}
           Above == {n \in Nat : y + n + 1 \notin Rows}
<1>1. y \in Nat
  OBVIOUS
<1>2. Below # {}
  <2>1. y - y - 1 \notin Rows
    BY <1>1
  <2> QED
    BY <1>1, <2>1
<1>3. Above # {}
  <2>1. y + h + 1 \notin Rows
    BY <1>1
  <2> QED
    BY <2>1
<1>4. PICK m \in Below : \A n \in Below : m <= n
  BY <1>2, NatMin
<1>5. PICK k \in Above : \A n \in Above : k <= n
  BY <1>3, NatMin
<1>6. m \in Nat /\ k \in Nat /\ y - m - 1 \notin Rows /\ y + k + 1 \notin Rows
  OBVIOUS
<1>7. ASSUME NEW z \in y - m .. y + k PROVE z \in Rows
  <2>1. CASE z = y
    BY <2>1
  <2>2. CASE z < y
    <3> DEFINE n == y - z - 1
    <3>1. n \in Nat /\ n < m /\ y - n - 1 = z
      BY <1>1, <1>6, <2>2
    <3> HIDE DEF n
    <3>2. n \notin Below
      BY <1>4, <1>6, <3>1
    <3>3. y - n - 1 \in Rows
      BY <3>1, <3>2
    <3> QED
      BY <3>1, <3>3
  <2>3. CASE z > y
    <3> DEFINE n == z - y - 1
    <3>1. n \in Nat /\ n < k /\ y + n + 1 = z
      BY <1>1, <1>6, <2>3
    <3> HIDE DEF n
    <3>2. n \notin Above
      BY <1>5, <1>6, <3>1
    <3>3. y + n + 1 \in Rows
      BY <3>1, <3>2
    <3> QED
      BY <3>1, <3>3
  <2> QED
    BY <1>1, <1>6, <2>1, <2>2, <2>3
<1>8. y - m \in Rows /\ y + k \in Rows
  BY <1>1, <1>6, <1>7
<1> QED
  BY <1>1, <1>6, <1>7, <1>8

(* Finitely many integers have a least one.                                *)
LEMMA LeastIndex ==
  ASSUME NEW n \in Nat \ {0}, NEW f \in [1 .. n -> Int]
  PROVE  \E k \in 1 .. n : \A j \in 1 .. n : f[k] <= f[j]
<1> DEFINE T == {m \in 1 .. n : \A k \in 1 .. m : \E j \in 1 .. m : f[j] < f[k]}
<1>1. SUFFICES ASSUME T # {} PROVE FALSE
  <2>1. n \notin T
    OBVIOUS
  <2>2. \E k \in 1 .. n : \A j \in 1 .. n : ~(f[j] < f[k])
    BY <2>1
  <2>3. \A k, j \in 1 .. n : f[k] \in Int /\ f[j] \in Int
    OBVIOUS
  <2> QED
    BY <2>2, <2>3
<1>2. PICK x \in T : \A y \in T : x <= y
  <2>1. T \subseteq Nat
    OBVIOUS
  <2> HIDE DEF T
  <2> QED
    BY <1>1, <2>1, NatMin
<1>3. x \in 1 .. n /\ x # 1
  <2>1. x \in 1 .. n /\ \E j \in 1 .. x : f[j] < f[x]
    BY <1>2
  <2>2. x = 1 => \A j \in 1 .. x : j = 1
    OBVIOUS
  <2>3. f[1] \in Int
    OBVIOUS
  <2> QED
    BY <2>1, <2>2, <2>3
<1>4. x - 1 \in 1 .. n /\ x - 1 \notin T
  <2>1. x - 1 \in 1 .. n /\ ~(x <= x - 1)
    BY <1>3
  <2> HIDE DEF T
  <2> QED
    BY <1>2, <2>1
<1>5. PICK k \in 1 .. x - 1 : \A j \in 1 .. x - 1 : f[k] <= f[j]
  BY <1>4
<1>6. \A j \in 1 .. x : j = x \/ j \in 1 .. x - 1
  BY <1>3
<1>7. CASE f[x] < f[k]
  <2>1. \A j \in 1 .. x : ~(f[j] < f[x])
    BY <1>3, <1>5, <1>6, <1>7
  <2> QED
    BY <1>2, <1>3, <2>1
<1>8. CASE ~(f[x] < f[k])
  <2>1. \A j \in 1 .. x : ~(f[j] < f[k])
    BY <1>3, <1>5, <1>6, <1>8
  <2> QED
    BY <1>2, <1>3, <1>5, <2>1
<1> QED
  BY <1>7, <1>8

-----------------------------------------------------------------------------
(* The same of whole sends and fills.                                      *)

(* The whole screen is a rectangle.                                        *)
LEMMA ScreenFacts == Screen \in Rect /\ Area(Screen) = Pixels
<1>1. Screen \in Rect
  BY GeometryAssumption DEF Screen, Rect
<1>2. \A p \in Pixels : 0 <= p[1] /\ p[1] < Width /\ 0 <= p[2] /\ p[2] < Height
  BY GeometryAssumption DEF Pixels
<1> QED
  BY <1>1, <1>2 DEF Area, Screen

(* Every send and fill leaves a card.                                      *)
LEMMA SendType ==
  ASSUME NEW v, IsCard(v), NEW mem, NEW a, NEW whole
  PROVE  IsCard(Send(v, mem, a, whole))
<1>1. \A x, A : IsCard(x) => IsCard(Write(x, mem, A))
  BY WriteFacts
<1>2. IsCard(SendWhole(v, mem, Widen(a)))
  BY <1>1, ForgetFacts DEF SendWhole
<1>3. ASSUME HashMem
      PROVE  IsCard(SendChanged(v, mem, Widen(a)))
  BY <1>1, <1>3 DEF SendChanged, IsCard
<1> QED
  BY <1>2, <1>3 DEF Send, Fingerprinted

(* A solid fill leaves a card.                                             *)
LEMMA SolidType ==
  ASSUME NEW v, IsCard(v), NEW a, NEW c
  PROVE  IsCard(Solid(v, a, c))
<1>1. IsCard(Fill(v, Area(a), c))
  BY FillFacts
<1> QED
  BY <1>1, KnownFacts DEF Solid

(* A send leaves a card.                                                   *)
LEMMA SendRectType ==
  ASSUME NEW v, IsCard(v), NEW mem, NEW a, NEW solid
  PROVE  IsCard(SendRect(v, mem, a, solid))
<1>1. IsCard(Send(v, mem, a, TRUE)) /\ \A c : IsCard(Solid(v, a, c))
  BY SendType, SolidType
<1>2. IsCard(Flush(v, mem, a))
  BY FlushTypeFacts
<1> QED
  BY <1>1, <1>2 DEF SendRect

(* One send puts its rectangle on the card, and spoils no pixel that was   *)
(* shown already.                                                          *)
LEMMA SendShows ==
  ASSUME NEW v, IsCard(v), AllHonest(v), NEW mem, NEW a \in Rect, NEW solid \in {0, Exact}
  PROVE  LET w == SendRect(v, mem, a, solid) IN
         /\ IsCard(w)
         /\ \A p \in Area(a) : Synced(w, mem, p)
         /\ \A p \in Pixels : Synced(v, mem, p) => Synced(w, mem, p)
<1>1. \A p \in Pixels : Honest(v, p)
  BY DEF AllHonest
<1>2. Widen(a) \in Rect /\ Area(a) \subseteq Area(Widen(a)) /\ Area(Widen(a)) \subseteq Pixels
  BY WidenFacts DEF Area
<1>3. CASE solid = Exact
  <2> DEFINE w == SendWhole(v, mem, Widen(a))
  <2>1. SendRect(v, mem, a, solid) = w
    <3>1. SendRect(v, mem, a, solid) = Send(v, mem, a, TRUE)
      BY <1>3 DEF SendRect, Exact
    <3>2. ~Fingerprinted(a, TRUE)
      BY DEF Fingerprinted
    <3> QED
      BY <3>1, <3>2 DEF Send
  <2>2. /\ IsCard(w)
        /\ \A p \in Area(Widen(a)) : Synced(w, mem, p)
        /\ \A p \in Pixels \ Area(Widen(a)) : w.px[p] = v.px[p]
    BY <1>1, SendWholeFacts
  <2> HIDE DEF w
  <2>3. \A p \in Pixels : Synced(v, mem, p) => Synced(w, mem, p)
    BY <2>2 DEF Synced
  <2> QED
    BY <1>2, <2>1, <2>2, <2>3
<1>4. CASE solid = 0
  <2> DEFINE w == Flush(v, mem, a)
  <2>1. SendRect(v, mem, a, solid) = w
    BY <1>4 DEF SendRect, Exact
  <2>2. /\ IsCard(w)
        /\ \A p \in Area(a) : Synced(w, mem, p)
        /\ \A p \in Pixels \ Area(a) : Synced(v, mem, p) => Synced(w, mem, p)
    BY <1>1, FlushFacts
  <2> HIDE DEF w
  <2> QED
    BY <2>1, <2>2
<1> QED
  BY <1>3, <1>4

(* A send of what is of one colour: the first pixel's colour fills it.     *)
LEMMA SolidShows ==
  ASSUME NEW v, IsCard(v), AllHonest(v), NEW mem, NEW a \in Rect, NEW c,
         \A p \in Area(a) : mem[p] = c, Area(a) # {}
  PROVE  LET w == SendRect(v, mem, a, 1) IN
         \A p \in Pixels : (p \in Area(a) \/ Synced(v, mem, p)) => Synced(w, mem, p)
<1> DEFINE First(p) == \A q \in Area(a) : p[1] <= q[1] /\ p[2] <= q[2]
           w == Solid(v, a, c)
<1>1. \E p \in Area(a) : First(p)
  <2> DEFINE x == IF a.l < 0 THEN 0 ELSE a.l
             y == IF a.t < 0 THEN 0 ELSE a.t
  <2>1. PICK q \in Area(a) : TRUE
    OBVIOUS
  <2>2. /\ q[1] \in 0 .. Width - 1 /\ q[2] \in 0 .. Height - 1
        /\ a.l <= q[1] /\ q[1] < a.r /\ a.t <= q[2] /\ q[2] < a.b
    BY <2>1 DEF Area, Pixels
  <2>3. a.l \in Int /\ a.t \in Int /\ a.r \in Int /\ a.b \in Int
    BY DEF Rect
  <2>4. x \in 0 .. Width - 1 /\ a.l <= x /\ x < a.r /\ y \in 0 .. Height - 1 /\ a.t <= y /\ y < a.b
    BY <2>2, <2>3, GeometryAssumption
  <2>5. \A r \in Area(a) : x <= r[1] /\ y <= r[2]
    <3> TAKE r \in Area(a)
    <3>1. r[1] \in 0 .. Width - 1 /\ r[2] \in 0 .. Height - 1 /\ a.l <= r[1] /\ a.t <= r[2]
      BY DEF Area, Pixels
    <3> QED
      BY <3>1, <2>3
  <2> HIDE DEF x, y
  <2>6. <<x, y>> \in Area(a)
    BY <2>4 DEF Area, Pixels
  <2> QED
    BY <2>5, <2>6
<1>2. mem[CHOOSE p \in Area(a) : First(p)] = c
  <2>1. (CHOOSE p \in Area(a) : First(p)) \in Area(a)
    BY <1>1
  <2> QED
    BY <2>1
<1>3. SendRect(v, mem, a, 1) = w
  BY <1>2 DEF SendRect, Exact
<1>4. /\ \A p \in Area(a) : w.px[p] = Shown(p, c)
      /\ \A p \in Pixels \ Area(a) : w.px[p] = v.px[p]
  BY SolidFacts DEF AllHonest
<1> HIDE DEF w
<1> QED
  BY <1>3, <1>4 DEF Synced

(* A rectangle of whole pieces is an even one.                             *)
LEMMA AlignedEven == Aligned(SegW) \subseteq Aligned(2)
<1>1. ASSUME NEW x \in Int, x % SegW = 0 PROVE x % 2 = 0
  <2> DEFINE q == x \div SegW
             h == SegW \div 2
  <2>1. SegW \in Nat \ {0} /\ SegW % 2 = 0
    BY GeometryAssumption
  <2>2. q \in Int /\ h \in Int
    BY <2>1
  <2>s. \A n \in Nat \ {0} : x = n * (x \div n) + (x % n)
    OBVIOUS
  <2>3. x = SegW * q + (x % SegW)
    BY <2>1, <2>s
  <2>4. SegW = 2 * h
    BY <2>1
  <2> HIDE DEF q, h
  <2>7. x = (2 * h) * q
    BY <1>1, <2>2, <2>3, <2>4
  <2>5. x = 2 * (h * q)
    BY <2>2, <2>7
  <2>6. h * q \in Int
    BY <2>2
  <2> QED
    BY <2>5, <2>6
<1> QED
  BY <1>1 DEF Aligned, Rect

=============================================================================
