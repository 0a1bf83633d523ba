----------------------------- MODULE Dd16Proofs -----------------------------
(***************************************************************************)
(* Proofs about Dd16, for every size of the screen and of the driver's     *)
(* tables, every set of boxes, triangles, pictures and moves.              *)
(***************************************************************************)
EXTENDS Dd16, Fb16CardProofs

-----------------------------------------------------------------------------
(* The folds Dd16 is built from, by Folding's facts.                       *)

DrawTri(w, b, t) == TriRam(b, t)
AddTri(w, img, t) == Over(img, t.px, t.c)
AddPart(n, list, a) == list \o Split(a, n)
SplitOff(w, parts, n) == SplitAll(parts, n)
AddFills(t, list, o) == list \o Filled(Outside(t.d, o), t.colour)
Replayed(w, f, t) == [p \in Pixels |-> IF p \in t.px THEN Shown(p, t.c) ELSE f[p]]
SendExact(ram, v, r) == SendRect(v, ram, r, Exact)

Drawing   == INSTANCE Folding WITH Op <- DrawTri
Adding    == INSTANCE Folding WITH Op <- AddTri
Parting   == INSTANCE Folding WITH Op <- AddPart
Splitting == INSTANCE Folding WITH Op <- SplitOff
Filling   == INSTANCE Folding WITH Op <- AddFills
Replaying == INSTANCE Folding WITH Op <- Replayed
Sending   == INSTANCE Folding WITH Op <- SendExact
Applying  == INSTANCE Folding WITH Op <- Apply
Pushing   == INSTANCE Folding WITH Op <- Push

(* What the instances' facts assume.                                       *)
LEMMA Inductions ==
  /\ Drawing!Inductive /\ Adding!Inductive /\ Parting!Inductive /\ Splitting!Inductive
  /\ Filling!Inductive /\ Replaying!Inductive /\ Sending!Inductive /\ Applying!Inductive
  /\ Pushing!Inductive
  BY Induct DEF Drawing!Inductive, Adding!Inductive, Parting!Inductive, Splitting!Inductive,
                Filling!Inductive, Replaying!Inductive, Sending!Inductive, Applying!Inductive,
                Pushing!Inductive

(* A buffer's pixels without its triangles.                                *)
Base(b) == [p \in Pixels |-> IF b.known /\ ~b.filled /\ p \notin Cover(b.d)
                             THEN b.colour ELSE b.ram[p]]

(* Each recursion of Dd16 is the fold of its own instance.                 *)
LEMMA AsFolds ==
  /\ \A b : TrisToRam(b) = Drawing!Fold(0, [b EXCEPT !.tris = << >>], b.tris)
  /\ \A b : Meaning(b) = Adding!Fold(0, Base(b), b.tris)
  /\ \A parts, n : SplitAll(parts, n) = Parting!Fold(n, << >>, parts)
  /\ \A d, o : Outside(d, o) = Splitting!Fold(0, <<o>>, d)
  /\ \A t : Fills(t) = Filling!Fold(t, << >>, Erase)
  /\ \A px, erase, tris :
        Replay(px, erase, tris) =
          Replaying!Fold(0, [p \in Pixels |-> IF p \in Cover(erase) THEN Shown(p, Black) ELSE px[p]],
                         tris)
  /\ \A B, d : Flushed(B, d) = [Applying!Fold(B, d, d.batch) EXCEPT !.batch = << >>]
  /\ \A B, d, list : PushAll(B, d, list) = Pushing!Fold(B, d, list)
<1>1. \A b : TrisToRam(b) = Drawing!Fold(0, [b EXCEPT !.tris = << >>], b.tris)
  BY DEF TrisToRam, Drawing!Fold, DrawTri, FoldLeft, MapThenFoldSet, Max, Drawing!Last
<1>2. \A b : Meaning(b) = Adding!Fold(0, Base(b), b.tris)
  BY DEF Meaning, Stands, Base, Adding!Fold, AddTri, FoldLeft, MapThenFoldSet, Max, Adding!Last
<1>3. \A parts, n : SplitAll(parts, n) = Parting!Fold(n, << >>, parts)
  BY DEF SplitAll, Parting!Fold, AddPart, FoldLeft, MapThenFoldSet, Max, Parting!Last
<1>4. \A d, o : Outside(d, o) = Splitting!Fold(0, <<o>>, d)
  BY DEF Outside, Splitting!Fold, SplitOff, FoldLeft, MapThenFoldSet, Max, Splitting!Last
<1>5. \A t : Fills(t) = Filling!Fold(t, << >>, Erase)
  BY DEF Fills, Filling!Fold, AddFills, FoldLeft, MapThenFoldSet, Max, Filling!Last
<1>6. \A px, erase, tris :
        Replay(px, erase, tris) =
          Replaying!Fold(0, [p \in Pixels |-> IF p \in Cover(erase) THEN Shown(p, Black) ELSE px[p]],
                         tris)
  BY DEF Replay, Replaying!Fold, Replayed, FoldLeft, MapThenFoldSet, Max, Replaying!Last
<1>7. \A B, d : Flushed(B, d) = [Applying!Fold(B, d, d.batch) EXCEPT !.batch = << >>]
  BY DEF Flushed, Applying!Fold, FoldLeft, MapThenFoldSet, Max, Applying!Last
<1>8. \A B, d, list : PushAll(B, d, list) = Pushing!Fold(B, d, list)
  BY DEF PushAll, Pushing!Fold, FoldLeft, MapThenFoldSet, Max, Pushing!Last
<1> QED
  BY <1>1, <1>2, <1>3, <1>4, <1>5, <1>6, <1>7, <1>8

-----------------------------------------------------------------------------
(* What a description's operations do to a buffer.                         *)

BufType == [ram : [Pixels -> Colours], known : BOOLEAN, filled : BOOLEAN,
            colour : Colours, d : Seq(Rect), tris : Seq(Tris)]

Fits(b) == b \in BufType /\ Len(b.d) <= DirtyMax

(* Base, and what is drawn over it, is an image.                           *)
LEMMA BaseType ==
  ASSUME NEW b \in BufType
  PROVE  Base(b) \in [Pixels -> Colours]
  BY DEF Base, BufType

(* What a rectangle added to a list covers beside.                         *)
LEMMA CoverAppend ==
  ASSUME NEW d \in Seq(Rect), NEW a \in Rect
  PROVE  Cover(Append(d, a)) = Cover(d) \cup Area(a)
<1> DEFINE e == Append(d, a)
<1>1. Len(d) \in Nat /\ DOMAIN d = 1 .. Len(d) /\ DOMAIN e = 1 .. Len(d) + 1
      /\ (\A i \in 1 .. Len(d) : e[i] = d[i]) /\ e[Len(d) + 1] = a
  OBVIOUS
<1>2. DOMAIN e = DOMAIN d \cup {Len(d) + 1}
  BY <1>1
<1> HIDE DEF e
<1>3. \A i \in DOMAIN d : e[i] = d[i]
  BY <1>1
<1>4. Cover(e) = UNION {Area(e[i]) : i \in DOMAIN e} /\ Cover(d) = UNION {Area(d[i]) : i \in DOMAIN d}
  BY DEF Cover
<1>5. \A p : p \in Cover(e) <=> p \in Cover(d) \cup Area(a)
  BY <1>1, <1>2, <1>3, <1>4
<1> QED
  BY <1>5 DEF e

(* Ready puts the colour in RAM where the description has it, in A; what   *)
(* the buffer stands for does not change.                                  *)
LEMMA ReadyFacts ==
  ASSUME NEW b \in BufType, NEW A
  PROVE  LET w == Ready(b, A) IN
         /\ w \in BufType
         /\ w.known = b.known /\ w.filled = b.filled /\ w.colour = b.colour
         /\ w.d = b.d /\ w.tris = b.tris
         /\ \A p \in Pixels : w.ram[p] = IF p \in A THEN Base(b)[p] ELSE b.ram[p]
         /\ Base(w) = Base(b)
<1> DEFINE w == Ready(b, A)
<1>1. CASE ~b.known \/ b.filled
  <2>1. w = b
    BY <1>1 DEF Ready
  <2>2. \A p \in Pixels : Base(b)[p] = b.ram[p]
    BY <1>1 DEF Base
  <2> QED
    BY <2>1, <2>2
<1>2. CASE ~(~b.known \/ b.filled)
  <2>1. w = [b EXCEPT !.ram = [p \in Pixels |-> IF p \in A \ Cover(b.d) THEN b.colour ELSE b.ram[p]]]
    BY <1>2 DEF Ready, BufType
  <2>2. /\ w \in BufType
        /\ w.known = b.known /\ w.filled = b.filled /\ w.colour = b.colour
        /\ w.d = b.d /\ w.tris = b.tris
        /\ w.ram = [p \in Pixels |-> IF p \in A \ Cover(b.d) THEN b.colour ELSE b.ram[p]]
    BY SMTT(60), <2>1 DEF BufType
  <2> HIDE DEF w
  <2>3. \A p \in Pixels : Base(b)[p] = IF p \in Cover(b.d) THEN b.ram[p] ELSE b.colour
    BY <1>2 DEF Base
  <2>4. \A p \in Pixels : Base(w)[p] = IF p \in Cover(b.d) THEN w.ram[p] ELSE b.colour
    BY <1>2, <2>2 DEF Base
  <2>5. \A p \in Pixels : w.ram[p] = IF p \in A THEN Base(b)[p] ELSE b.ram[p]
    BY <2>2, <2>3
  <2>6. \A p \in Pixels : Base(w)[p] = Base(b)[p]
    BY <2>2, <2>3, <2>4
  <2>7. Base(w) = Base(b)
    BY <2>6 DEF Base
  <2> QED
    BY <2>2, <2>5, <2>7 DEF w
<1> QED
  BY <1>1, <1>2

(* The union of two rectangles holds both.                                 *)
LEMMA UnionFacts ==
  ASSUME NEW a \in Rect, NEW r \in Rect
  PROVE  UnionRect(a, r) \in Rect /\ Area(a) \subseteq Area(UnionRect(a, r))
         /\ Area(r) \subseteq Area(UnionRect(a, r))
<1> DEFINE u == UnionRect(a, r)
<1>1. /\ a.l \in Int /\ a.t \in Int /\ a.r \in Int /\ a.b \in Int
      /\ r.l \in Int /\ r.t \in Int /\ r.r \in Int /\ r.b \in Int
  BY DEF Rect
<1>2. /\ u.l \in Int /\ u.l <= a.l /\ u.l <= r.l /\ u.t \in Int /\ u.t <= a.t /\ u.t <= r.t
      /\ u.r \in Int /\ u.r >= a.r /\ u.r >= r.r /\ u.b \in Int /\ u.b >= a.b /\ u.b >= r.b
  BY <1>1, MinMaxTwo DEF UnionRect
<1>3. u \in Rect
  BY <1>2 DEF UnionRect, Rect
<1> HIDE DEF u
<1>4. \A p \in Pixels : p[1] \in Int /\ p[2] \in Int
  BY PixelFacts
<1>5. \A p \in Area(a) : p \in Area(u)
  BY <1>1, <1>2, <1>4 DEF Area
<1>6. \A p \in Area(r) : p \in Area(u)
  BY <1>1, <1>2, <1>4 DEF Area
<1> QED
  BY <1>3, <1>5, <1>6 DEF u

(* A rectangle inside another covers no pixel outside it.                  *)
LEMMA InsideArea ==
  ASSUME NEW a \in Rect, NEW r \in Rect, Inside(a, r)
  PROVE  Area(a) \subseteq Area(r)
<1>1. \A p \in Pixels : p[1] \in Int /\ p[2] \in Int
  BY PixelFacts
<1> QED
  BY <1>1 DEF Area, Inside, Rect

(* The rectangle of a full list that Dirty grows is one of the list.       *)
LEMMA LeastGrowth ==
  ASSUME NEW d \in Seq(Rect), d # << >>, NEW a \in Rect
  PROVE  LET Least == {i \in DOMAIN d : \A j \in DOMAIN d : Growth(d[i], a) <= Growth(d[j], a)}
         IN  Min(Least) \in DOMAIN d
<1> DEFINE n == Len(d)
           f == [i \in 1 .. n |-> Growth(d[i], a)]
           Least == {i \in DOMAIN d : \A j \in DOMAIN d : Growth(d[i], a) <= Growth(d[j], a)}
<1>1. n \in Nat \ {0} /\ DOMAIN d = 1 .. n /\ \A i \in 1 .. n : d[i] \in Rect
  OBVIOUS
<1>2. ASSUME NEW r \in Rect PROVE Growth(r, a) \in Int
  <2> DEFINE u == UnionRect(r, a)
  <2>1. u \in Rect
    BY UnionFacts
  <2>2. u.l \in Int /\ u.t \in Int /\ u.r \in Int /\ u.b \in Int
        /\ r.l \in Int /\ r.t \in Int /\ r.r \in Int /\ r.b \in Int
    BY <2>1 DEF Rect
  <2> HIDE DEF u
  <2>a. \A x, y \in Int : x * y \in Int /\ x - y \in Int
    OBVIOUS
  <2>b. /\ u.r - u.l \in Int /\ u.b - u.t \in Int
        /\ r.r - r.l \in Int /\ r.b - r.t \in Int
    BY <2>2, <2>a
  <2>3. (u.r - u.l) * (u.b - u.t) \in Int /\ (r.r - r.l) * (r.b - r.t) \in Int
    BY <2>a, <2>b
  <2> QED
    BY <2>3, <2>a DEF Growth, u
<1>3. f \in [1 .. n -> Int]
  BY <1>1, <1>2
<1> HIDE DEF n
<1>4. PICK k \in 1 .. n : \A j \in 1 .. n : f[k] <= f[j]
  BY <1>1, <1>3, LeastIndex
<1>5. k \in Least
  BY <1>1, <1>4
<1>6. Least \subseteq Nat /\ Least \subseteq DOMAIN d
  BY <1>1
<1> HIDE DEF Least
<1>7. \E x \in Least : \A y \in Least : x <= y
  BY <1>5, <1>6, NatMin
<1>8. Min(Least) \in Least
  BY <1>7 DEF Min
<1> QED
  BY <1>6, <1>8 DEF Least

(* Dirty makes the list cover a and leaves what the buffer stands for      *)
(* elsewhere: in a, it is RAM.                                             *)
LEMMA DirtyFacts ==
  ASSUME NEW b, Fits(b), NEW a \in Rect
  PROVE  LET w == Dirty(b, a) IN
         /\ Fits(w)
         /\ w.known = b.known /\ w.filled = b.filled /\ w.colour = b.colour /\ w.tris = b.tris
         /\ \A p \in Pixels : Base(w)[p] = IF p \in Area(a) THEN b.ram[p] ELSE Base(b)[p]
         /\ \A p \in Area(a) : w.ram[p] = b.ram[p]
         /\ b.filled => w.ram = b.ram
<1> DEFINE w == Dirty(b, a)
<1>0. b \in BufType /\ b.d \in Seq(Rect) /\ DOMAIN b.d = 1 .. Len(b.d) /\ Len(b.d) \in Nat
  BY DEF Fits, BufType
<1>a. \A p \in Pixels : Base(b)[p] = IF b.known /\ ~b.filled /\ p \notin Cover(b.d)
                                     THEN b.colour ELSE b.ram[p]
  BY DEF Base
<1>1. CASE ~b.known \/ \E i \in DOMAIN b.d : Inside(a, b.d[i])
  <2>1. w = b
    BY <1>1 DEF Dirty
  <2>2. ASSUME NEW p \in Area(a), b.known PROVE p \in Cover(b.d)
    <3>1. PICK i \in DOMAIN b.d : Inside(a, b.d[i])
      BY <1>1, <2>2
    <3>2. b.d[i] \in Rect
      BY <1>0
    <3>3. p \in Area(b.d[i])
      BY <3>1, <3>2, InsideArea
    <3> QED
      BY <3>3 DEF Cover
  <2> QED
    BY <2>1, <2>2, <1>a
<1>2. CASE ~(~b.known \/ \E i \in DOMAIN b.d : Inside(a, b.d[i])) /\ Len(b.d) < DirtyMax
  <2>1. w = [b EXCEPT !.d = Append(@, a)]
    BY <1>2 DEF Dirty
  <2>2. Append(b.d, a) \in Seq(Rect) /\ Len(Append(b.d, a)) <= DirtyMax
    BY <1>0, <1>2, BufferAssumption
  <2>3. /\ Fits(w) /\ w.d = Append(b.d, a) /\ w.ram = b.ram
        /\ w.known = b.known /\ w.filled = b.filled /\ w.colour = b.colour /\ w.tris = b.tris
    BY <2>1, <2>2, <1>0 DEF Fits, BufType
  <2>4. Cover(w.d) = Cover(b.d) \cup Area(a)
    BY <2>3, <1>0, CoverAppend
  <2> HIDE DEF w
  <2>5. \A p \in Pixels : Base(w)[p] = IF w.known /\ ~w.filled /\ p \notin Cover(w.d)
                                       THEN w.colour ELSE w.ram[p]
    BY DEF Base
  <2>6. \A p \in Pixels : Base(w)[p] = IF p \in Area(a) THEN b.ram[p] ELSE Base(b)[p]
    BY <2>3, <2>4, <2>5, <1>a
  <2> QED
    BY <2>3, <2>6 DEF w
<1>3. CASE ~(~b.known \/ \E i \in DOMAIN b.d : Inside(a, b.d[i])) /\ ~(Len(b.d) < DirtyMax)
  <2> DEFINE Least == {i \in DOMAIN b.d : \A j \in DOMAIN b.d : Growth(b.d[i], a) <= Growth(b.d[j], a)}
             k    == Min(Least)
             u    == UnionRect(b.d[k], a)
             more == [b EXCEPT !.d = Append(@, a)]
             full == Ready(more, Area(u))
  <2>1. w = [b EXCEPT !.ram = full.ram, !.d[k] = u]
    BY <1>3 DEF Dirty
  <2>2. b.d # << >>
    BY <1>0, <1>3, BufferAssumption
  <2>3. k \in DOMAIN b.d
    BY <1>0, <2>2, LeastGrowth
  <2> HIDE DEF Least, k
  <2>4. b.d[k] \in Rect
    BY <1>0, <2>3
  <2>5. u \in Rect /\ Area(b.d[k]) \subseteq Area(u) /\ Area(a) \subseteq Area(u)
    BY <2>4, UnionFacts
  <2> HIDE DEF u
  <2>6. /\ more \in BufType /\ more.ram = b.ram /\ more.known = b.known /\ more.filled = b.filled
        /\ more.colour = b.colour /\ more.d = Append(b.d, a)
    <3>1. Append(b.d, a) \in Seq(Rect)
      BY <1>0
    <3> QED
      BY <1>0, <3>1 DEF BufType
  <2>7. Cover(more.d) = Cover(b.d) \cup Area(a)
    BY <2>6, <1>0, CoverAppend
  <2> HIDE DEF more
  <2>8. /\ full.ram \in [Pixels -> Colours]
        /\ \A p \in Pixels : full.ram[p] = IF p \in Area(u) THEN Base(more)[p] ELSE b.ram[p]
    <3>1. full \in BufType /\ \A p \in Pixels : full.ram[p] = IF p \in Area(u) THEN Base(more)[p] ELSE more.ram[p]
      BY <2>6, ReadyFacts
    <3> QED
      BY <3>1, <2>6 DEF BufType
  <2> HIDE DEF full
  <2>9. [b.d EXCEPT ![k] = u] \in Seq(Rect) /\ Len([b.d EXCEPT ![k] = u]) = Len(b.d)
        /\ DOMAIN [b.d EXCEPT ![k] = u] = DOMAIN b.d
        /\ \A i \in DOMAIN b.d : [b.d EXCEPT ![k] = u][i] = IF i = k THEN u ELSE b.d[i]
    BY <1>0, <2>3, <2>5
  <2>10. /\ Fits(w) /\ w.d = [b.d EXCEPT ![k] = u] /\ w.ram = full.ram
         /\ w.known = b.known /\ w.filled = b.filled /\ w.colour = b.colour /\ w.tris = b.tris
    BY <2>1, <2>8, <2>9, <1>0 DEF Fits, BufType
  <2> HIDE DEF w
  <2>11. \A p : p \in Cover(w.d) => p \in Cover(b.d) \/ p \in Area(u)
    BY <2>9, <2>10 DEF Cover
  <2>12. \A p : p \in Cover(b.d) => p \in Cover(w.d)
    <3> SUFFICES ASSUME NEW p, p \in Cover(b.d) PROVE p \in Cover(w.d)
      OBVIOUS
    <3>1. PICK i \in DOMAIN b.d : p \in Area(b.d[i])
      BY DEF Cover
    <3>2. i \in DOMAIN w.d /\ p \in Area(w.d[i])
      BY <3>1, <2>5, <2>9, <2>10
    <3> QED
      BY <3>2 DEF Cover
  <2>13. \A p : p \in Area(u) => p \in Cover(w.d)
    <3>1. k \in DOMAIN w.d /\ w.d[k] = u
      BY <2>3, <2>9, <2>10
    <3> QED
      BY <3>1 DEF Cover
  <2>14. \A p \in Pixels : Base(w)[p] = IF w.known /\ ~w.filled /\ p \notin Cover(w.d)
                                        THEN w.colour ELSE w.ram[p]
    BY DEF Base
  <2>15. \A p \in Pixels : Base(more)[p] =
           IF b.known /\ ~b.filled /\ p \notin Cover(b.d) \cup Area(a) THEN b.colour ELSE b.ram[p]
    BY <2>6, <2>7 DEF Base
  <2>16. \A p \in Area(a) : w.ram[p] = b.ram[p]
    BY <2>5, <2>8, <2>10, <2>15 DEF Area
  <2>17. ASSUME b.filled PROVE w.ram = b.ram
    <3>1. \A p \in Pixels : w.ram[p] = b.ram[p]
      BY <2>17, <2>8, <2>10, <2>15
    <3>2. w.ram \in [Pixels -> Colours] /\ b.ram \in [Pixels -> Colours]
      BY <2>8, <2>10, <1>0 DEF BufType
    <3> QED
      BY <3>1, <3>2
  <2>18. ASSUME NEW p \in Pixels
         PROVE  Base(w)[p] = IF p \in Area(a) THEN b.ram[p] ELSE Base(b)[p]
    <3>1. CASE p \in Area(a)
      BY <3>1, <2>5, <2>13, <2>14, <2>16
    <3>2. CASE p \notin Area(a) /\ (b.filled \/ p \in Cover(b.d))
      <4>1. Base(b)[p] = b.ram[p]
        BY <3>2, <1>a
      <4>2. Base(more)[p] = b.ram[p]
        BY <3>2, <2>15
      <4>3. w.ram[p] = b.ram[p]
        BY <4>2, <2>8, <2>10
      <4>4. Base(w)[p] = w.ram[p]
        BY <3>2, <2>10, <2>12, <2>14
      <4> QED
        BY <3>2, <4>1, <4>3, <4>4
    <3>3. CASE p \notin Area(a) /\ ~(b.filled \/ p \in Cover(b.d))
      <4>1. Base(b)[p] = b.colour /\ Base(more)[p] = b.colour
        BY <3>3, <1>3, <1>a, <2>15
      <4>2. CASE p \in Area(u)
        BY <4>1, <4>2, <3>3, <2>8, <2>10, <2>13, <2>14
      <4>3. CASE p \notin Area(u)
        BY <4>1, <4>3, <3>3, <1>3, <2>10, <2>11, <2>14
      <4> QED
        BY <4>2, <4>3
    <3> QED
      BY <3>1, <3>2, <3>3
  <2> QED
    BY <2>10, <2>16, <2>17, <2>18 DEF w
<1> QED
  BY <1>1, <1>2, <1>3

(* A triangle's pixels lie in its box.                                     *)
LEMMA TriFacts ==
  ASSUME NEW t \in Tris
  PROVE  t.box \in Rect /\ t.px \subseteq Area(t.box) /\ t.c \in Colours
  BY BufferAssumption, ColourAssumption

(* A colour drawn over an image changes those pixels alone.                *)
LEMMA OverType ==
  ASSUME NEW img \in [Pixels -> Colours], NEW A, NEW c \in Colours
  PROVE  /\ Over(img, A, c) \in [Pixels -> Colours]
         /\ \A p \in Pixels : Over(img, A, c)[p] = IF p \in A THEN c ELSE img[p]
  BY DEF Over

(* Drawing in RAM touches neither description nor triangles.               *)
LEMMA PaintFacts ==
  ASSUME NEW b, Fits(b), NEW A, NEW c \in Colours
  PROVE  LET w == Paint(b, A, c) IN
         /\ Fits(w)
         /\ w.known = b.known /\ w.filled = b.filled /\ w.colour = b.colour
         /\ w.d = b.d /\ w.tris = b.tris /\ w.ram = Over(b.ram, A, c)
<1>1. b \in BufType /\ b.ram \in [Pixels -> Colours]
  BY DEF Fits, BufType
<1>2. Over(b.ram, A, c) \in [Pixels -> Colours]
  BY <1>1, OverType
<1> QED
  BY <1>1, <1>2 DEF Paint, Fits, BufType

(* RAM takes a triangle, and the description takes its box: the buffer     *)
(* stands for what it stood for with the triangle over it.                 *)
LEMMA TriRamFacts ==
  ASSUME NEW b, Fits(b), NEW t \in Tris
  PROVE  LET w == TriRam(b, t) IN
         /\ Fits(w)
         /\ w.known = b.known /\ w.filled = b.filled /\ w.colour = b.colour /\ w.tris = b.tris
         /\ Base(w) = Over(Base(b), t.px, t.c)
<1> DEFINE A == Area(t.box)
           x == Ready(b, A)
           y == Paint(x, t.px, t.c)
           w == Dirty(y, t.box)
<1>1. t.box \in Rect /\ t.px \subseteq A /\ t.c \in Colours /\ A \subseteq Pixels
  BY TriFacts DEF Area
<1>2. b \in BufType
  BY DEF Fits
<1>3. /\ Fits(x)
      /\ x.known = b.known /\ x.filled = b.filled /\ x.colour = b.colour
      /\ x.d = b.d /\ x.tris = b.tris
      /\ \A p \in Pixels : x.ram[p] = IF p \in A THEN Base(b)[p] ELSE b.ram[p]
      /\ Base(x) = Base(b)
  BY <1>2, ReadyFacts DEF Fits
<1> HIDE DEF x
<1>4. /\ Fits(y) /\ y.known = x.known /\ y.filled = x.filled /\ y.colour = x.colour
      /\ y.d = x.d /\ y.tris = x.tris /\ y.ram = Over(x.ram, t.px, t.c)
  BY <1>1, <1>3, PaintFacts
<1>5. \A p \in Pixels : y.ram[p] = IF p \in t.px THEN t.c ELSE x.ram[p]
  BY <1>4 DEF Over
<1> HIDE DEF y
<1>6. /\ Fits(w)
      /\ w.known = y.known /\ w.filled = y.filled /\ w.colour = y.colour /\ w.tris = y.tris
      /\ \A p \in Pixels : Base(w)[p] = IF p \in A THEN y.ram[p] ELSE Base(y)[p]
  BY <1>1, <1>4, DirtyFacts
<1> HIDE DEF w
<1>7. \A p \in Pixels : Base(y)[p] = IF y.known /\ ~y.filled /\ p \notin Cover(y.d)
                                     THEN y.colour ELSE y.ram[p]
  BY DEF Base
<1>8. \A p \in Pixels : Base(x)[p] = IF x.known /\ ~x.filled /\ p \notin Cover(x.d)
                                     THEN x.colour ELSE x.ram[p]
  BY DEF Base
<1>9. \A p \in Pixels \ A : Base(y)[p] = Base(b)[p]
  BY <1>1, <1>3, <1>4, <1>5, <1>7, <1>8
<1>10. \A p \in Pixels : Base(w)[p] = Over(Base(b), t.px, t.c)[p]
  <2>1. \A p \in Pixels : Over(Base(b), t.px, t.c)[p] = IF p \in t.px THEN t.c ELSE Base(b)[p]
    BY DEF Over
  <2> QED
    BY <2>1, <1>1, <1>3, <1>5, <1>6, <1>9
<1>11. Base(w) = Over(Base(b), t.px, t.c)
  BY <1>10 DEF Base, Over
<1>12. TriRam(b, t) = w
  BY DEF TriRam, w, y, x
<1> QED
  BY <1>3, <1>4, <1>6, <1>11, <1>12

(* All of them, oldest first: RAM and the description then say what the    *)
(* triangles said.                                                         *)
LEMMA TrisToRamFacts ==
  ASSUME NEW b, Fits(b)
  PROVE  LET w == TrisToRam(b) IN
         /\ Fits(w)
         /\ w.known = b.known /\ w.filled = b.filled /\ w.colour = b.colour
         /\ w.tris = << >> /\ Base(w) = Meaning(b)
<1> DEFINE x == [b EXCEPT !.tris = << >>]
           n == Len(b.tris)
<1>1. b.tris \in Seq(Tris) /\ n \in Nat /\ DOMAIN b.tris = 1 .. n /\ \A i \in 1 .. n : b.tris[i] \in Tris
  BY DEF Fits, BufType
<1>2. /\ Fits(x) /\ x.known = b.known /\ x.filled = b.filled /\ x.colour = b.colour
      /\ x.tris = << >> /\ Base(x) = Base(b)
  <2>1. /\ Fits(x) /\ x.known = b.known /\ x.filled = b.filled /\ x.colour = b.colour
        /\ x.tris = << >> /\ x.d = b.d /\ x.ram = b.ram
    <3>1. << >> \in Seq(Tris) /\ b \in BufType /\ Len(b.d) <= DirtyMax
      BY DEF Fits
    <3>2. /\ x.known = b.known /\ x.filled = b.filled /\ x.colour = b.colour
          /\ x.tris = << >> /\ x.d = b.d /\ x.ram = b.ram
      BY <3>1 DEF BufType
    <3>3. x \in BufType
      BY <3>1 DEF BufType
    <3> QED
      BY <3>1, <3>2, <3>3 DEF Fits
  <2> HIDE DEF x
  <2>2. Base(x) = Base(b)
    BY <2>1 DEF Base
  <2> QED
    BY <2>1, <2>2
<1> HIDE DEF x, n
<1>3. PICK f : Drawing!Trace(0, x, b.tris, n, f)
  BY <1>1, Inductions, Drawing!FoldTrace
<1>4. PICK g : Adding!Trace(0, Base(b), b.tris, n, g)
  BY <1>1, Inductions, Adding!FoldTrace
<1>5. f[0] = x /\ f[n] = TrisToRam(b)
  BY <1>3, AsFolds DEF Drawing!Trace, x
<1>6. g[0] = Base(b) /\ g[n] = Meaning(b)
  BY <1>4, AsFolds DEF Adding!Trace
<1>7. \A i \in Nat : i + 1 <= n => f[i + 1] = TriRam(f[i], b.tris[i + 1])
  BY <1>1, <1>3, Drawing!TraceStep DEF DrawTri
<1>8. \A i \in Nat : i + 1 <= n => g[i + 1] = Over(g[i], b.tris[i + 1].px, b.tris[i + 1].c)
  BY <1>1, <1>4, Adding!TraceStep DEF AddTri
<1> DEFINE Good(i) == /\ Fits(f[i]) /\ f[i].known = b.known /\ f[i].filled = b.filled
                      /\ f[i].colour = b.colour /\ f[i].tris = << >> /\ Base(f[i]) = g[i]
           S == {i \in Nat : i <= n => Good(i)}
<1>9. 0 \in S
  BY <1>2, <1>5, <1>6
<1>10. ASSUME NEW i \in Nat, i \in S PROVE i + 1 \in S
  <2> SUFFICES ASSUME i + 1 <= n PROVE Good(i + 1)
    OBVIOUS
  <2>1. Good(i) /\ b.tris[i + 1] \in Tris
    BY <1>1, <1>10
  <2>2. /\ f[i + 1] = TriRam(f[i], b.tris[i + 1])
        /\ g[i + 1] = Over(g[i], b.tris[i + 1].px, b.tris[i + 1].c)
    BY <1>7, <1>8
  <2>3. /\ Fits(f[i + 1]) /\ f[i + 1].known = f[i].known /\ f[i + 1].filled = f[i].filled
        /\ f[i + 1].colour = f[i].colour /\ f[i + 1].tris = f[i].tris
        /\ Base(f[i + 1]) = Over(Base(f[i]), b.tris[i + 1].px, b.tris[i + 1].c)
    BY <2>1, <2>2, TriRamFacts
  <2> QED
    BY <2>1, <2>2, <2>3
<1> HIDE DEF S
<1>11. \A i \in Nat : i \in S
  BY <1>9, <1>10, Induct
<1>12. Good(n)
  BY <1>1, <1>11 DEF S
<1> QED
  BY <1>5, <1>6, <1>12

(* Without triangles a buffer stands for its pixels.                       *)
LEMMA MeaningPlain ==
  ASSUME NEW b, b.tris = << >>
  PROVE  Meaning(b) = Base(b)
  BY AsFolds, Inductions, Adding!FoldEmpty

(* A triangle more is that triangle drawn over.                            *)
LEMMA MeaningAppend ==
  ASSUME NEW b, Fits(b), NEW t \in Tris
  PROVE  Meaning([b EXCEPT !.tris = Append(@, t)]) = Over(Meaning(b), t.px, t.c)
<1> DEFINE w == [b EXCEPT !.tris = Append(@, t)]
<1>1. b.tris \in Seq(Tris)
  BY DEF Fits, BufType
<1>2. w.tris = Append(b.tris, t) /\ Base(w) = Base(b)
  BY DEF Fits, BufType, Base
<1> HIDE DEF w
<1>3. Meaning(w) = Adding!Fold(0, Base(b), Append(b.tris, t)) /\ Meaning(b) = Adding!Fold(0, Base(b), b.tris)
  BY <1>2, AsFolds
<1>4. Adding!Fold(0, Base(b), Append(b.tris, t)) = AddTri(0, Adding!Fold(0, Base(b), b.tris), t)
  BY <1>1, Inductions, Adding!FoldAppend
<1> QED
  BY <1>3, <1>4 DEF AddTri, w

(* What a buffer stands for is an image.                                   *)
LEMMA MeaningType ==
  ASSUME NEW b \in BufType
  PROVE  Meaning(b) \in [Pixels -> Colours]
<1> DEFINE T == [Pixels -> Colours]
           n == Len(b.tris)
<1>1. n \in Nat /\ DOMAIN b.tris = 1 .. n /\ \A i \in 1 .. n : b.tris[i] \in Tris
  BY DEF BufType
<1>2. Base(b) \in T
  BY BaseType
<1>3. \A img \in T, i \in 1 .. n : AddTri(0, img, b.tris[i]) \in T
  BY <1>1, OverType, TriFacts DEF AddTri
<1> HIDE DEF T, n
<1>4. Adding!Fold(0, Base(b), b.tris) \in T
  BY <1>1, <1>2, <1>3, Inductions, Adding!FoldKeeps
<1> QED
  BY <1>4, AsFolds DEF T

(* All of a buffer in RAM: RAM is then what it stands for, and the         *)
(* triangles are gone.                                                     *)
LEMMA ReadyAllFacts ==
  ASSUME NEW b, Fits(b)
  PROVE  LET w == ReadyAll(b) IN
         /\ Fits(w) /\ w.known = b.known /\ w.filled = TRUE /\ w.colour = b.colour
         /\ w.tris = << >> /\ w.ram = Meaning(b) /\ Meaning(w) = Meaning(b)
<1> DEFINE x == TrisToRam(b)
           y == Ready(x, Pixels)
           w == [y EXCEPT !.filled = TRUE]
<1>1. /\ Fits(x) /\ x.known = b.known /\ x.colour = b.colour
      /\ x.tris = << >> /\ Base(x) = Meaning(b)
  BY TrisToRamFacts
<1> HIDE DEF x
<1>2. /\ y \in BufType /\ y.known = x.known /\ y.colour = x.colour /\ y.d = x.d /\ y.tris = x.tris
      /\ \A p \in Pixels : y.ram[p] = Base(x)[p]
  BY <1>1, ReadyFacts DEF Fits
<1> HIDE DEF y
<1>3. /\ w \in BufType /\ w.known = y.known /\ w.filled = TRUE /\ w.colour = y.colour
      /\ w.d = y.d /\ w.tris = y.tris /\ w.ram = y.ram
  BY <1>2 DEF BufType
<1>4. Fits(w)
  BY <1>1, <1>2, <1>3 DEF Fits
<1>5. ReadyAll(b) = w
  BY DEF ReadyAll, w, y, x
<1> HIDE DEF w
<1>6. \A p \in Pixels : w.ram[p] = Base(x)[p] /\ Base(w)[p] = w.ram[p]
  BY <1>2, <1>3 DEF Base
<1>7. w.ram \in [Pixels -> Colours]
  BY <1>3 DEF BufType
<1>8. w.ram = Base(x) /\ Base(w) = Base(x)
  BY <1>6, <1>7 DEF Base
<1>9. Meaning(w) = Base(w)
  BY <1>1, <1>2, <1>3, MeaningPlain
<1> QED
  BY <1>1, <1>2, <1>3, <1>4, <1>5, <1>8, <1>9

-----------------------------------------------------------------------------
(* What the calls do to the buffer they draw on.                           *)

Sound(b) == /\ Fits(b) /\ Len(b.tris) <= TrisMax
            /\ b.tris # << >> => b.known

(* Without triangles there is nothing to be in order.                      *)
LEMMA NoTris ==
  ASSUME NEW b, Fits(b), b.tris = << >>
  PROVE  Sound(b)
<1>1. Len(b.tris) = 0
  OBVIOUS
<1>2. Len(b.tris) <= TrisMax
  BY <1>1, BufferAssumption
<1> QED
  BY <1>2 DEF Sound

(* With no description a buffer stands for its RAM.                        *)
LEMMA UnknownFacts ==
  ASSUME NEW b, Fits(b), b.tris = << >>
  PROVE  LET w == Unknown(b) IN
         Sound(w) /\ w.known = FALSE /\ w.tris = << >> /\ w.ram = b.ram /\ Meaning(w) = b.ram
<1> DEFINE w == Unknown(b)
<1>1. /\ w \in BufType /\ w.known = FALSE /\ w.tris = << >> /\ w.ram = b.ram /\ w.d = b.d
      /\ b.ram \in [Pixels -> Colours] /\ Len(b.d) <= DirtyMax
  BY DEF Fits, BufType, Unknown
<1> HIDE DEF w
<1>2. Sound(w)
  BY <1>1, NoTris DEF Fits
<1>3. \A p \in Pixels : Base(w)[p] = b.ram[p]
  BY <1>1 DEF Base
<1>4. Base(w) = b.ram
  BY <1>1, <1>3 DEF Base
<1> QED
  BY <1>1, <1>2, <1>4, MeaningPlain DEF w

(* Drawn on directly: all of it in RAM, no description left.               *)
LEMMA DirectFacts ==
  ASSUME NEW b, Sound(b)
  PROVE  LET w == Unknown(ReadyAll(b)) IN
         /\ Sound(w) /\ w.known = FALSE /\ w.tris = << >>
         /\ w.ram = Meaning(b) /\ Meaning(w) = Meaning(b)
<1> DEFINE x == ReadyAll(b)
<1>1. Fits(x) /\ x.tris = << >> /\ x.ram = Meaning(b)
  BY ReadyAllFacts DEF Sound
<1> HIDE DEF x
<1> QED
  BY <1>1, UnknownFacts DEF x

(* RAM that stands for itself, overwritten.                                *)
LEMMA RamFacts ==
  ASSUME NEW b, Fits(b), b.known = FALSE, b.tris = << >>, NEW img \in [Pixels -> Colours]
  PROVE  LET w == [b EXCEPT !.ram = img] IN
         /\ Sound(w) /\ w.known = FALSE /\ w.tris = << >> /\ w.ram = img /\ Meaning(w) = img
<1> DEFINE w == [b EXCEPT !.ram = img]
<1>1. /\ w \in BufType /\ w.known = FALSE /\ w.tris = << >> /\ w.ram = img /\ w.d = b.d
      /\ Len(b.d) <= DirtyMax
  BY DEF Fits, BufType
<1> HIDE DEF w
<1>2. Sound(w)
  BY <1>1, NoTris DEF Fits
<1>3. \A p \in Pixels : Base(w)[p] = img[p]
  BY <1>1 DEF Base
<1>4. Base(w) = img
  BY <1>3 DEF Base
<1> QED
  BY <1>1, <1>2, <1>4, MeaningPlain DEF w

(* Drawing in an undescribed buffer's RAM draws in what it stands for.     *)
LEMMA RamPaint ==
  ASSUME NEW b, Sound(b), b.known = FALSE, b.tris = << >>, NEW A, NEW c \in Colours
  PROVE  LET w == Paint(b, A, c) IN
         /\ Sound(w) /\ w.known = FALSE /\ w.tris = << >> /\ Meaning(w) = Over(Meaning(b), A, c)
<1>1. Fits(b) /\ b \in BufType /\ b.ram \in [Pixels -> Colours]
  BY DEF Sound, Fits, BufType
<1>2. Over(b.ram, A, c) \in [Pixels -> Colours]
  BY <1>1, OverType
<1>3. \A p \in Pixels : Base(b)[p] = b.ram[p]
  BY DEF Base
<1>4. Meaning(b) = b.ram
  <2>1. Base(b) = b.ram
    BY <1>1, <1>3 DEF Base
  <2> QED
    BY <2>1, MeaningPlain
<1> DEFINE img == Over(b.ram, A, c)
<1>5. Paint(b, A, c) = [b EXCEPT !.ram = img]
  BY DEF Paint
<1>6. img \in [Pixels -> Colours] /\ img = Over(Meaning(b), A, c)
  BY <1>2, <1>4
<1> HIDE DEF img
<1> DEFINE w == [b EXCEPT !.ram = img]
<1>7. Sound(w) /\ w.known = FALSE /\ w.tris = << >> /\ Meaning(w) = img
  BY <1>1, <1>6, RamFacts
<1> HIDE DEF w
<1> QED
  BY <1>5, <1>6, <1>7 DEF w

(* New pixels in a rectangle of RAM, which the description takes in.       *)
LEMMA DrawnFacts ==
  ASSUME NEW x, Fits(x), x.tris = << >>, NEW a \in Rect, NEW img \in [Pixels -> Colours],
         \A p \in Pixels \ Area(a) : img[p] = x.ram[p]
  PROVE  LET w == Dirty([x EXCEPT !.ram = img], a) IN
         /\ Sound(w) /\ w.known = x.known /\ w.tris = << >>
         /\ Meaning(w) = [p \in Pixels |-> IF p \in Area(a) THEN img[p] ELSE Base(x)[p]]
<1> DEFINE y == [x EXCEPT !.ram = img]
           w == Dirty(y, a)
<1>1. /\ y \in BufType /\ y.known = x.known /\ y.filled = x.filled /\ y.colour = x.colour
      /\ y.d = x.d /\ y.tris = << >> /\ y.ram = img /\ Len(x.d) <= DirtyMax
  BY DEF Fits, BufType
<1> HIDE DEF y
<1>2. Fits(y)
  BY <1>1 DEF Fits
<1>3. /\ Fits(w) /\ w.known = y.known /\ w.tris = y.tris
      /\ \A p \in Pixels : Base(w)[p] = IF p \in Area(a) THEN y.ram[p] ELSE Base(y)[p]
  BY <1>2, DirtyFacts
<1> HIDE DEF w
<1>4. \A p \in Pixels \ Area(a) : Base(y)[p] = Base(x)[p]
  BY <1>1 DEF Base
<1>5. \A p \in Pixels : Base(w)[p] = IF p \in Area(a) THEN img[p] ELSE Base(x)[p]
  BY <1>1, <1>3, <1>4
<1>6. Base(w) = [p \in Pixels |-> IF p \in Area(a) THEN img[p] ELSE Base(x)[p]]
  BY <1>5 DEF Base
<1>7. Sound(w) /\ Meaning(w) = Base(w)
  BY <1>1, <1>3, NoTris, MeaningPlain
<1> QED
  BY <1>1, <1>3, <1>6, <1>7 DEF w, y

(* A fill of the hidden buffer.                                            *)
LEMMA HiddenFill ==
  ASSUME NEW b, Sound(b), NEW a \in Rect, NEW c \in Colours
  PROVE  LET w == Dirty(Paint(Ready(TrisToRam(b), Area(a)), Area(a), c), a) IN
         Sound(w) /\ w.tris = << >> /\ Meaning(w) = Over(Meaning(b), Area(a), c)
<1> DEFINE x == TrisToRam(b)
           y == Ready(x, Area(a))
           img == Over(y.ram, Area(a), c)
           w == Dirty([y EXCEPT !.ram = img], a)
<1>1. Fits(x) /\ x.tris = << >> /\ Base(x) = Meaning(b)
  BY TrisToRamFacts DEF Sound
<1> HIDE DEF x
<1>2. Fits(y) /\ y.tris = << >> /\ Base(y) = Meaning(b)
  BY <1>1, ReadyFacts DEF Fits
<1> HIDE DEF y
<1>3. y.ram \in [Pixels -> Colours]
  BY <1>2 DEF Fits, BufType
<1>4. img \in [Pixels -> Colours] /\ \A p \in Pixels : img[p] = IF p \in Area(a) THEN c ELSE y.ram[p]
  BY <1>3, OverType
<1> HIDE DEF img
<1>5. /\ Sound(w) /\ w.tris = << >>
      /\ Meaning(w) = [p \in Pixels |-> IF p \in Area(a) THEN img[p] ELSE Base(y)[p]]
  BY <1>2, <1>4, DrawnFacts
<1> HIDE DEF w
<1>6. Meaning(w) = Over(Meaning(b), Area(a), c)
  BY <1>2, <1>4, <1>5 DEF Over
<1> QED
  BY <1>5, <1>6 DEF w, img, y, x, Paint

(* m8dd_blt16's fill of the whole buffer: it is of one colour.             *)
LEMMA ClearedFacts ==
  ASSUME NEW b, Fits(b), NEW c \in Colours
  PROVE  LET w == Cleared(b, c) IN
         Sound(w) /\ w.tris = << >> /\ Meaning(w) = [p \in Pixels |-> c]
<1> DEFINE w == Cleared(b, c)
<1>1. << >> \in Seq(Tris) /\ << >> \in Seq(Rect) /\ Len(<< >>) <= DirtyMax
  BY BufferAssumption
<1>2. b \in BufType
  BY DEF Fits
<1>3. /\ w.known = TRUE /\ w.filled = FALSE /\ w.colour = c /\ w.d = << >> /\ w.tris = << >>
      /\ w \in BufType
  BY <1>1, <1>2 DEF BufType, Cleared
<1> HIDE DEF w
<1>4. Fits(w)
  BY <1>1, <1>3 DEF Fits
<1>5. Cover(w.d) = {}
  BY <1>3 DEF Cover
<1>6. Base(w) = [p \in Pixels |-> c]
  BY <1>3, <1>5 DEF Base
<1> QED
  BY <1>3, <1>4, <1>6, NoTris, MeaningPlain DEF w

(* Where a copy reads.                                                     *)
LEMMA ShiftFacts ==
  ASSUME NEW a \in Rect, NEW m \in Int \X Int, Inside(Shifted(a, m), Screen)
  PROVE  /\ Shifted(a, m) \in Rect
         /\ \A p \in Area(a) : Shift(p, m) \in Pixels /\ Shift(p, m) \in Area(Shifted(a, m))
<1> DEFINE x == m[1]
           y == m[2]
           r == Shifted(a, m)
<1>1. x \in Int /\ y \in Int
  OBVIOUS
<1>2. a.l \in Int /\ a.t \in Int /\ a.r \in Int /\ a.b \in Int
  BY DEF Rect
<1> HIDE DEF x, y
<1>3. r.l = a.l + x /\ r.t = a.t + y /\ r.r = a.r + x /\ r.b = a.b + y
      /\ r = [l |-> a.l + x, t |-> a.t + y, r |-> a.r + x, b |-> a.b + y]
  BY DEF Shifted, x, y
<1>4. r \in Rect
  BY <1>1, <1>2, <1>3 DEF Rect
<1>5. r.l >= 0 /\ r.t >= 0 /\ r.r <= Width /\ r.b <= Height
  BY DEF Inside, Screen
<1> HIDE DEF r
<1>6. ASSUME NEW p \in Area(a)
      PROVE  Shift(p, m) \in Pixels /\ Shift(p, m) \in Area(r)
  <2>1. p[1] \in Int /\ p[2] \in Int /\ a.l <= p[1] /\ p[1] < a.r /\ a.t <= p[2] /\ p[2] < a.b
    BY PixelFacts DEF Area
  <2>2. Shift(p, m) = <<p[1] + x, p[2] + y>>
    BY DEF Shift, x, y
  <2>3. /\ r.l <= p[1] + x /\ p[1] + x < r.r /\ r.t <= p[2] + y /\ p[2] + y < r.b
        /\ p[1] + x \in Int /\ p[2] + y \in Int
    BY <1>1, <1>2, <1>3, <2>1
  <2>4. p[1] + x \in 0 .. Width - 1 /\ p[2] + y \in 0 .. Height - 1
    BY <1>1, <1>2, <1>3, <1>5, <2>3, GeometryAssumption
  <2> QED
    BY <2>2, <2>3, <2>4 DEF Pixels, Area
<1> QED
  BY <1>4, <1>6 DEF r

(* A copy with a colour key takes all but the key's pixels.                *)
LEMMA TakenFacts ==
  ASSUME NEW img \in [Pixels -> Colours], NEW src \in [Pixels -> Colours], NEW a, NEW m,
         NEW keyed, \A p \in Area(a) : Shift(p, m) \in Pixels
  PROVE  /\ Taken(img, src, a, m, keyed) \in [Pixels -> Colours]
         /\ \A p \in Pixels : Taken(img, src, a, m, keyed)[p] =
                                IF p \in Area(a) /\ ~(keyed /\ src[Shift(p, m)] = Key)
                                THEN src[Shift(p, m)] ELSE img[p]
<1>1. \A p \in Area(a) : src[Shift(p, m)] \in Colours
  OBVIOUS
<1> QED
  BY <1>1 DEF Taken

(* Taken without a key.                                                    *)
Moved(img, src, a, m) == [p \in Pixels |-> IF p \in Area(a) THEN src[Shift(p, m)] ELSE img[p]]

(* A copy takes each pixel from where the move says.                       *)
LEMMA MovedFacts ==
  ASSUME NEW img \in [Pixels -> Colours], NEW src \in [Pixels -> Colours], NEW a, NEW m,
         \A p \in Area(a) : Shift(p, m) \in Pixels
  PROVE  /\ Moved(img, src, a, m) \in [Pixels -> Colours]
         /\ \A p \in Pixels : Moved(img, src, a, m)[p] =
                                IF p \in Area(a) THEN src[Shift(p, m)] ELSE img[p]
<1>1. \A p \in Area(a) : src[Shift(p, m)] \in Colours
  OBVIOUS
<1> QED
  BY <1>1 DEF Moved

(* A copy onto the hidden buffer.                                          *)
LEMMA HiddenCopy ==
  ASSUME NEW b, Sound(b), NEW a \in Rect, NEW src \in [Pixels -> Colours], NEW m, NEW keyed,
         \A p \in Area(a) : Shift(p, m) \in Pixels
  PROVE  LET own == Ready(TrisToRam(b), Area(a))
             w   == Dirty([own EXCEPT !.ram = Taken(@, src, a, m, keyed)], a)
         IN  Sound(w) /\ w.tris = << >> /\ Meaning(w) = Taken(Meaning(b), src, a, m, keyed)
<1> DEFINE x == TrisToRam(b)
           y == Ready(x, Area(a))
           img == Taken(y.ram, src, a, m, keyed)
           w == Dirty([y EXCEPT !.ram = img], a)
<1>1. Fits(x) /\ x.tris = << >> /\ Base(x) = Meaning(b)
  BY TrisToRamFacts DEF Sound
<1> HIDE DEF x
<1>2. /\ Fits(y) /\ y.tris = << >> /\ Base(y) = Meaning(b)
      /\ \A p \in Pixels : p \in Area(a) => y.ram[p] = Meaning(b)[p]
  BY <1>1, ReadyFacts DEF Fits
<1> HIDE DEF y
<1>3. y.ram \in [Pixels -> Colours] /\ Meaning(b) \in [Pixels -> Colours]
  BY <1>2, MeaningType DEF Sound, Fits, BufType
<1>4. /\ img \in [Pixels -> Colours]
      /\ \A p \in Pixels : img[p] = IF p \in Area(a) /\ ~(keyed /\ src[Shift(p, m)] = Key)
                                    THEN src[Shift(p, m)] ELSE y.ram[p]
  BY <1>3, TakenFacts
<1>5. \A p \in Pixels : Taken(Meaning(b), src, a, m, keyed)[p] =
                          IF p \in Area(a) /\ ~(keyed /\ src[Shift(p, m)] = Key)
                          THEN src[Shift(p, m)] ELSE Meaning(b)[p]
  BY <1>3, TakenFacts
<1> HIDE DEF img
<1>6. /\ Sound(w) /\ w.tris = << >>
      /\ Meaning(w) = [p \in Pixels |-> IF p \in Area(a) THEN img[p] ELSE Base(y)[p]]
  BY <1>2, <1>4, DrawnFacts
<1> HIDE DEF w
<1>7. \A p \in Pixels : Meaning(w)[p] = Taken(Meaning(b), src, a, m, keyed)[p]
  BY <1>2, <1>4, <1>5, <1>6
<1>8. Meaning(w) = Taken(Meaning(b), src, a, m, keyed)
  BY <1>6, <1>7 DEF Taken
<1> QED
  BY <1>6, <1>8 DEF w, img, y, x

(* A copy within the hidden buffer: both rectangles put in RAM first.      *)
LEMMA HiddenSelf ==
  ASSUME NEW b, Sound(b), NEW a \in Rect, NEW m \in Int \X Int, Inside(Shifted(a, m), Screen)
  PROVE  LET own == Ready(Ready(TrisToRam(b), Area(a)), Area(Shifted(a, m)))
             w   == Dirty([own EXCEPT !.ram = Taken(@, @, a, m, FALSE)], a)
         IN  Sound(w) /\ w.tris = << >> /\ Meaning(w) = Taken(Meaning(b), Meaning(b), a, m, FALSE)
<1> DEFINE x == TrisToRam(b)
           y == Ready(x, Area(a))
           z == Ready(y, Area(Shifted(a, m)))
           img == Taken(z.ram, z.ram, a, m, FALSE)
           w == Dirty([z EXCEPT !.ram = img], a)
<1>0. \A p \in Area(a) : Shift(p, m) \in Pixels /\ Shift(p, m) \in Area(Shifted(a, m))
  BY ShiftFacts
<1>1. Fits(x) /\ x.tris = << >> /\ Base(x) = Meaning(b)
  BY TrisToRamFacts DEF Sound
<1> HIDE DEF x
<1>2. /\ Fits(y) /\ y.tris = << >> /\ Base(y) = Meaning(b)
      /\ \A p \in Pixels : p \in Area(a) => y.ram[p] = Meaning(b)[p]
  BY <1>1, ReadyFacts DEF Fits
<1> HIDE DEF y
<1>3. /\ Fits(z) /\ z.tris = << >> /\ Base(z) = Meaning(b)
      /\ \A p \in Pixels : z.ram[p] = IF p \in Area(Shifted(a, m)) THEN Base(y)[p] ELSE y.ram[p]
  BY <1>2, ReadyFacts DEF Fits
<1> HIDE DEF z
<1>4. \A p \in Pixels : p \in Area(a) \/ p \in Area(Shifted(a, m)) => z.ram[p] = Meaning(b)[p]
  BY <1>2, <1>3
<1>5. z.ram \in [Pixels -> Colours] /\ Meaning(b) \in [Pixels -> Colours]
  BY <1>3, MeaningType DEF Sound, Fits, BufType
<1>a. img = Moved(z.ram, z.ram, a, m)
  BY DEF Taken, Moved
<1>b. Taken(Meaning(b), Meaning(b), a, m, FALSE) = Moved(Meaning(b), Meaning(b), a, m)
  BY DEF Taken, Moved
<1> HIDE DEF img
<1>6. /\ img \in [Pixels -> Colours]
      /\ \A p \in Pixels : img[p] = IF p \in Area(a) THEN z.ram[Shift(p, m)] ELSE z.ram[p]
  BY <1>0, <1>5, <1>a, MovedFacts
<1>7. \A p \in Pixels : Moved(Meaning(b), Meaning(b), a, m)[p] =
                          IF p \in Area(a) THEN Meaning(b)[Shift(p, m)] ELSE Meaning(b)[p]
  BY <1>0, <1>5, MovedFacts
<1>8. /\ Sound(w) /\ w.tris = << >>
      /\ Meaning(w) = [p \in Pixels |-> IF p \in Area(a) THEN img[p] ELSE Base(z)[p]]
  BY <1>3, <1>6, DrawnFacts
<1> HIDE DEF w
<1>9. \A p \in Pixels : Meaning(w)[p] = Moved(Meaning(b), Meaning(b), a, m)[p]
  <2>1. ASSUME NEW p \in Area(a) PROVE Meaning(w)[p] = Meaning(b)[Shift(p, m)]
    BY <1>0, <1>4, <1>6, <1>8 DEF Area
  <2>2. \A p \in Pixels \ Area(a) : Meaning(w)[p] = Meaning(b)[p]
    BY <1>3, <1>8
  <2> QED
    BY <1>7, <2>1, <2>2
<1>10. Meaning(w) = Moved(Meaning(b), Meaning(b), a, m)
  BY <1>8, <1>9 DEF Moved
<1> QED
  BY <1>8, <1>10, <1>b DEF w, img, z, y, x

(* A triangle for the hidden buffer: kept with its description, or drawn.  *)
LEMMA HiddenTriangle ==
  ASSUME NEW b, Sound(b), NEW t \in Tris
  PROVE  LET x == IF Len(b.tris) = TrisMax THEN TrisToRam(b) ELSE b
             w == IF b.known THEN [x EXCEPT !.tris = Append(@, t)] ELSE TriRam(b, t)
         IN  Sound(w) /\ Meaning(w) = Over(Meaning(b), t.px, t.c)
<1> DEFINE x == IF Len(b.tris) = TrisMax THEN TrisToRam(b) ELSE b
           y == [x EXCEPT !.tris = Append(@, t)]
           w == TriRam(b, t)
<1>1. ASSUME b.known
      PROVE  Sound(y) /\ Meaning(y) = Over(Meaning(b), t.px, t.c)
  <2>1. Fits(x) /\ x.known = b.known /\ Meaning(x) = Meaning(b) /\ Len(x.tris) + 1 <= TrisMax
    <3>1. CASE Len(b.tris) = TrisMax
      <4>1. Fits(x) /\ x.known = b.known /\ Base(x) = Meaning(b) /\ x.tris = << >>
        BY <3>1, TrisToRamFacts DEF Sound
      <4>2. Meaning(x) = Base(x) /\ Len(x.tris) + 1 <= TrisMax
        <5>1. Len(x.tris) = 0
          BY <4>1
        <5> HIDE DEF x
        <5> QED
          BY <4>1, <5>1, MeaningPlain, BufferAssumption
      <4> QED
        BY <4>1, <4>2
    <3>2. CASE Len(b.tris) # TrisMax
      <4>1. x = b /\ Len(b.tris) \in Nat /\ Len(b.tris) <= TrisMax /\ TrisMax \in Nat
        BY <3>2, BufferAssumption DEF Sound, Fits, BufType
      <4>2. Len(b.tris) + 1 <= TrisMax
        BY <3>2, <4>1
      <4> QED
        BY <4>1, <4>2 DEF Sound
    <3> QED
      BY <3>1, <3>2
  <2> HIDE DEF x
  <2>2. x.tris \in Seq(Tris) /\ Append(x.tris, t) \in Seq(Tris) /\ Len(Append(x.tris, t)) = Len(x.tris) + 1
    BY <2>1 DEF Fits, BufType
  <2>3. Fits(y) /\ y.known = b.known /\ y.tris = Append(x.tris, t)
    BY <2>1, <2>2 DEF Fits, BufType
  <2>4. Meaning(y) = Over(Meaning(x), t.px, t.c)
    BY <2>1, MeaningAppend
  <2> HIDE DEF y
  <2> QED
    BY <1>1, <2>1, <2>2, <2>3, <2>4 DEF Sound
<1>2. ASSUME ~b.known
      PROVE  Sound(w) /\ Meaning(w) = Over(Meaning(b), t.px, t.c)
  <2>1. b.tris = << >>
    BY <1>2 DEF Sound
  <2>2. Fits(w) /\ w.tris = << >> /\ Base(w) = Over(Base(b), t.px, t.c)
    BY <2>1, TriRamFacts DEF Sound
  <2> HIDE DEF w
  <2> QED
    BY <2>1, <2>2, NoTris, MeaningPlain
<1> QED
  BY <1>1, <1>2

(* A triangle of the same pixels and of another colour.                    *)
Clash(u, t) == u.c # t.c /\ u.px \cap t.px # {}

(* A triangle drawn in RAM under those a description still has: it is over *)
(* them only where none of them is in its way.                             *)
LEMMA ShownTriangle ==
  ASSUME NEW b, Sound(b), NEW t \in Tris
  PROVE  LET w == TriRam(b, t) IN
         /\ Sound(w) /\ w.known = b.known /\ w.tris = b.tris
         /\ (\A i \in DOMAIN b.tris : ~Clash(b.tris[i], t))
               => Meaning(w) = Over(Meaning(b), t.px, t.c)
<1> DEFINE w == TriRam(b, t)
           n == Len(b.tris)
<1>1. /\ Fits(w) /\ w.known = b.known /\ w.tris = b.tris
      /\ Base(w) = Over(Base(b), t.px, t.c)
  BY TriRamFacts DEF Sound
<1> HIDE DEF w
<1>2. Sound(w)
  BY <1>1 DEF Sound
<1>3. n \in Nat /\ DOMAIN b.tris = 1 .. n
  BY DEF Sound, Fits, BufType
<1> HIDE DEF n
<1>4. PICK g : Adding!Trace(0, Base(b), b.tris, n, g)
  BY <1>3, Inductions, Adding!FoldTrace
<1>5. PICK h : Adding!Trace(0, Base(w), b.tris, n, h)
  BY <1>3, Inductions, Adding!FoldTrace
<1>6. g[0] = Base(b) /\ g[n] = Meaning(b)
  BY <1>4, AsFolds DEF Adding!Trace
<1>7. h[0] = Base(w) /\ h[n] = Meaning(w)
  BY <1>1, <1>5, AsFolds DEF Adding!Trace
<1>8. \A i \in Nat : i + 1 <= n => g[i + 1] = Over(g[i], b.tris[i + 1].px, b.tris[i + 1].c)
  BY <1>3, <1>4, Adding!TraceStep DEF AddTri
<1>9. \A i \in Nat : i + 1 <= n => h[i + 1] = Over(h[i], b.tris[i + 1].px, b.tris[i + 1].c)
  BY <1>3, <1>5, Adding!TraceStep DEF AddTri
<1>10. ASSUME \A i \in DOMAIN b.tris : ~Clash(b.tris[i], t)
       PROVE  Meaning(w) = Over(Meaning(b), t.px, t.c)
  <2> DEFINE S == {i \in Nat : i <= n => h[i] = Over(g[i], t.px, t.c)}
  <2>1. 0 \in S
    BY <1>1, <1>6, <1>7
  <2>2. ASSUME NEW i \in Nat, i \in S PROVE i + 1 \in S
    <3> SUFFICES ASSUME i + 1 <= n PROVE h[i + 1] = Over(g[i + 1], t.px, t.c)
      OBVIOUS
    <3>1. i + 1 \in DOMAIN b.tris /\ i <= n
      BY <1>3
    <3> DEFINE u == b.tris[i + 1]
    <3>2. ~Clash(u, t)
      BY <1>10, <3>1
    <3>3. h[i] = Over(g[i], t.px, t.c)
      BY <2>2, <3>1
    <3>4. g[i + 1] = Over(g[i], u.px, u.c) /\ h[i + 1] = Over(h[i], u.px, u.c)
      BY <1>8, <1>9
    <3> HIDE DEF u
    <3>5. \A p : p \in u.px /\ p \in t.px => u.c = t.c
      BY <3>2 DEF Clash
    <3> QED
      BY <3>3, <3>4, <3>5 DEF Over
  <2> HIDE DEF S
  <2>3. \A i \in Nat : i \in S
    BY <2>1, <2>2, Induct
  <2> QED
    BY <1>3, <1>6, <1>7, <2>3 DEF S
<1> QED
  BY <1>1, <1>2, <1>10 DEF w

-----------------------------------------------------------------------------
(* What the buffers keep, whatever is called.                              *)

LockType == [k : 0 .. 1, r : LockBoxes, write : BOOLEAN]

(* A buffer locked for writing is RAM and nothing else: what the program   *)
(* writes through the pointer is what the buffer holds.                    *)
BufInv ==
  /\ buf \in [0 .. 1 -> BufType] /\ \A k \in 0 .. 1 : Sound(buf[k])
  /\ want \in [0 .. 1 -> [Pixels -> Colours]]
  /\ locks \in Seq(LockType)
  /\ \A i \in DOMAIN locks :
        /\ locks[i].k \in Buffers
        /\ locks[i].write => buf[locks[i].k].known = FALSE /\ buf[locks[i].k].tris = << >>
  /\ live \in BOOLEAN /\ front \in Buffers

(* A triangle for the shown buffer, where its description has another one, *)
(* of another colour, in the way.                                          *)
UnderTriangle ==
  \E t \in Tris : /\ RecordShown(front, t)
                  /\ \E i \in DOMAIN buf[front].tris : Clash(buf[front].tris[i], t)

(* Buffer 0 is always there, buffer 1 may be.                              *)
LEMMA BufferIndex == Buffers \subseteq 0 .. 1 /\ 0 \in Buffers
  BY DEF Buffers

(* What the program names is on the screen.                                *)
LEMMA BoxFacts ==
  /\ \A a \in Boxes \cup LockBoxes \cup GdiBoxes : a \in Rect
  /\ \A src \in Pictures : src \in [Pixels -> Colours]
  /\ \A m \in Moves : m \in Int \X Int
  BY BufferAssumption

(* New buffers of the right kind, no lock held.                            *)
LEMMA BufChange ==
  ASSUME BufInv, locks = << >>, locks' = locks, live' = live, front' \in Buffers,
         want' \in [0 .. 1 -> [Pixels -> Colours]],
         DOMAIN buf' = 0 .. 1, buf' = [k \in 0 .. 1 |-> buf'[k]], \A k \in 0 .. 1 : Sound(buf'[k])
  PROVE  BufInv'
<1>1. \A k \in 0 .. 1 : buf'[k] \in BufType
  BY DEF Sound, Fits
<1>2. buf' \in [0 .. 1 -> BufType]
  BY <1>1
<1>3. Buffers' = Buffers
  BY DEF Buffers
<1>4. DOMAIN locks = {} /\ DOMAIN locks' = {}
  OBVIOUS
<1> QED
  BY <1>2, <1>3, <1>4 DEF BufInv

(* One buffer changed, and what the program drew with it.                  *)
LEMMA BufChangeOne ==
  ASSUME BufInv, locks = << >>, locks' = locks, live' = live, front' = front,
         NEW k \in Buffers, NEW w, Sound(w), buf' = [buf EXCEPT ![k] = w],
         NEW img \in [Pixels -> Colours], want' = [want EXCEPT ![k] = img]
  PROVE  BufInv' /\ (Stand /\ (Meaning(buf[k]) = want[k] => Meaning(w) = img) => Stand')
<1>1. k \in 0 .. 1 /\ w \in BufType /\ Buffers' = Buffers /\ Buffers \subseteq 0 .. 1
  BY BufferIndex DEF Sound, Fits, Buffers
<1>2. /\ buf \in [0 .. 1 -> BufType] /\ want \in [0 .. 1 -> [Pixels -> Colours]]
      /\ \A j \in 0 .. 1 : Sound(buf[j])
  BY DEF BufInv
<1>3. /\ buf' \in [0 .. 1 -> BufType] /\ want' \in [0 .. 1 -> [Pixels -> Colours]]
      /\ \A j \in 0 .. 1 : buf'[j] = IF j = k THEN w ELSE buf[j]
      /\ \A j \in 0 .. 1 : want'[j] = IF j = k THEN img ELSE want[j]
  BY <1>1, <1>2
<1>4. \A j \in 0 .. 1 : Sound(buf'[j])
  BY <1>2, <1>3
<1>5. BufInv'
  <2>1. front' \in Buffers
    BY DEF BufInv
  <2>2. DOMAIN buf' = 0 .. 1 /\ buf' = [j \in 0 .. 1 |-> buf'[j]]
    BY <1>3
  <2> QED
    BY <1>3, <1>4, <2>1, <2>2, BufChange
<1>6. ASSUME Stand, Meaning(buf[k]) = want[k] => Meaning(w) = img
      PROVE  Stand'
  <2>1. \A j \in Buffers : Meaning(buf[j]) = want[j]
    BY <1>6 DEF Stand
  <2>2. \A j \in Buffers : Meaning(buf'[j]) = want'[j]
    BY <1>1, <1>3, <1>6, <2>1
  <2> QED
    BY <1>1, <2>2 DEF Stand
<1> QED
  BY <1>5, <1>6

(* m8dd_blt16's fills keep the buffers right.                              *)
LEMMA BufFill ==
  ASSUME BufInv, NEW k \in Buffers, NEW a \in Boxes, NEW c \in Colours, BltFill(k, a, c)
  PROVE  BufInv' /\ (Stand => Stand')
<1> DEFINE img == Over(want[k], Area(a), c)
           b == buf[k]
<1>1. /\ locks = << >> /\ want' = [want EXCEPT ![k] = img]
      /\ IF k = front THEN FillShown(k, a, c) ELSE FillHidden(k, a, c)
  BY DEF BltFill
<1>2. k \in 0 .. 1 /\ Sound(b) /\ want[k] \in [Pixels -> Colours] /\ a \in Rect
  BY BufferIndex, BoxFacts DEF BufInv
<1>3. img \in [Pixels -> Colours]
  BY <1>2, OverType
<1>4. locks' = locks /\ live' = live /\ front' = front
  BY <1>1 DEF FillShown, FillHidden, OnShown, OnHidden, progVars
<1>5. CASE k = front
  <2> DEFINE x == Unknown(ReadyAll(b))
             w == Paint(x, Area(a), c)
  <2>1. buf' = [buf EXCEPT ![k] = w]
    BY <1>1, <1>5 DEF FillShown, OnShown
  <2>2. Sound(x) /\ x.known = FALSE /\ x.tris = << >> /\ Meaning(x) = Meaning(b)
    BY <1>2, DirectFacts
  <2> HIDE DEF x
  <2>3. Sound(w) /\ Meaning(w) = Over(Meaning(b), Area(a), c)
    BY ZenonT(60), <2>2, RamPaint
  <2> HIDE DEF w
  <2> QED
    BY <1>1, <1>3, <1>4, <2>1, <2>3, BufChangeOne
<1>6. CASE k # front /\ Whole(a)
  <2> DEFINE w == Cleared(b, c)
  <2>1. buf' = [buf EXCEPT ![k] = w]
    BY <1>1, <1>6 DEF FillHidden, OnHidden
  <2>2. Sound(w) /\ Meaning(w) = [p \in Pixels |-> c]
    BY <1>2, ClearedFacts DEF Sound
  <2>3. img = [p \in Pixels |-> c]
    BY <1>6 DEF Whole, Over
  <2> HIDE DEF w, img
  <2> QED
    BY <1>1, <1>3, <1>4, <2>1, <2>2, <2>3, BufChangeOne
<1>7. CASE k # front /\ ~Whole(a)
  <2> DEFINE w == Dirty(Paint(Ready(TrisToRam(b), Area(a)), Area(a), c), a)
  <2>1. buf' = [buf EXCEPT ![k] = w]
    BY <1>1, <1>7 DEF FillHidden, OnHidden
  <2>2. Sound(w) /\ Meaning(w) = Over(Meaning(b), Area(a), c)
    BY <1>2, HiddenFill
  <2> HIDE DEF w
  <2> QED
    BY <1>1, <1>3, <1>4, <2>1, <2>2, BufChangeOne
<1> QED
  BY <1>5, <1>6, <1>7

(* One buffer drawn on, the other perhaps put in RAM to be read.           *)
LEMMA BufChangeTwo ==
  ASSUME BufInv, locks = << >>, locks' = locks, live' = live, front' = front,
         NEW k \in Buffers, NEW s, NEW w, Sound(w),
         buf' = [j \in 0 .. 1 |-> IF j = k THEN w ELSE IF j = s THEN ReadyAll(buf[j]) ELSE buf[j]],
         NEW img \in [Pixels -> Colours], want' = [want EXCEPT ![k] = img]
  PROVE  BufInv' /\ (Stand /\ (Stand => Meaning(w) = img) => Stand')
<1>1. k \in 0 .. 1 /\ w \in BufType /\ Buffers' = Buffers /\ Buffers \subseteq 0 .. 1
  BY BufferIndex DEF Sound, Fits, Buffers
<1>2. /\ buf \in [0 .. 1 -> BufType] /\ want \in [0 .. 1 -> [Pixels -> Colours]]
      /\ \A j \in 0 .. 1 : Sound(buf[j])
  BY DEF BufInv
<1>3. \A j \in 0 .. 1 : Sound(ReadyAll(buf[j])) /\ Meaning(ReadyAll(buf[j])) = Meaning(buf[j])
  BY <1>2, ReadyAllFacts, NoTris DEF Sound
<1>4. /\ want' \in [0 .. 1 -> [Pixels -> Colours]]
      /\ \A j \in 0 .. 1 : want'[j] = IF j = k THEN img ELSE want[j]
  BY <1>1, <1>2
<1>5. /\ DOMAIN buf' = 0 .. 1 /\ buf' = [j \in 0 .. 1 |-> buf'[j]]
      /\ \A j \in 0 .. 1 : buf'[j] = IF j = k THEN w ELSE IF j = s THEN ReadyAll(buf[j]) ELSE buf[j]
  OBVIOUS
<1>6. \A j \in 0 .. 1 : Sound(buf'[j])
  BY <1>2, <1>3, <1>5
<1>7. BufInv'
  <2>1. front' \in Buffers
    BY DEF BufInv
  <2> QED
    BY <1>4, <1>5, <1>6, <2>1, BufChange
<1>8. ASSUME Stand, Stand => Meaning(w) = img
      PROVE  Stand'
  <2>1. \A j \in Buffers : Meaning(buf[j]) = want[j]
    BY <1>8 DEF Stand
  <2>2. \A j \in Buffers : Meaning(buf'[j]) = want'[j]
    BY <1>1, <1>3, <1>4, <1>5, <1>8, <2>1
  <2> QED
    BY <1>1, <2>2 DEF Stand
<1> QED
  BY <1>7, <1>8

(* A copy onto buffer k from s, or from memory where s is -1.              *)
LEMMA BufCopyOne ==
  ASSUME BufInv, locks = << >>, NEW k \in Buffers, NEW a \in Boxes, NEW keyed \in BOOLEAN,
         NEW s, NEW src, NEW m,
         \/ s = -1 /\ src \in [Pixels -> Colours]
         \/ s \in Buffers /\ s # k,
         \A p \in Area(a) : Shift(p, m) \in Pixels,
         IF k = front THEN CopyShown(k, a, s, src, m, keyed) ELSE CopyHidden(k, a, s, src, m, keyed),
         want' = [want EXCEPT ![k] = Taken(@, IF s = -1 THEN src ELSE want[s], a, m, keyed)]
  PROVE  BufInv' /\ (Stand => Stand')
<1> DEFINE b == buf[k]
           from == IF s = -1 THEN src ELSE ReadyAll(buf[s]).ram
           given == IF s = -1 THEN src ELSE want[s]
           img == Taken(want[k], given, a, m, keyed)
<1>0. BufInv /\ locks = << >> /\ k \in Buffers
  OBVIOUS
<1>1. k \in 0 .. 1 /\ Sound(b) /\ want[k] \in [Pixels -> Colours] /\ a \in Rect
  BY BufferIndex, BoxFacts DEF BufInv
<1>2. /\ from \in [Pixels -> Colours] /\ given \in [Pixels -> Colours]
      /\ Stand => from = given
  <2>1. CASE s = -1
    BY <2>1, BufferIndex
  <2>2. CASE s # -1
    <3>1. s \in 0 .. 1 /\ s \in Buffers
      BY <2>2, BufferIndex
    <3>2. Sound(buf[s]) /\ want[s] \in [Pixels -> Colours]
      BY <3>1 DEF BufInv
    <3>3. ReadyAll(buf[s]).ram = Meaning(buf[s]) /\ Meaning(buf[s]) \in [Pixels -> Colours]
      BY <3>2, ReadyAllFacts, MeaningType DEF Sound, Fits
    <3> QED
      BY <2>2, <3>1, <3>2, <3>3 DEF Stand
  <2> QED
    BY <2>1, <2>2
<1>3. img \in [Pixels -> Colours] /\ want' = [want EXCEPT ![k] = img]
  BY <1>1, <1>2, TakenFacts
<1>4. locks' = locks /\ live' = live /\ front' = front
  BY DEF CopyShown, CopyHidden, OnShown, OnHidden, progVars
<1>5. Stand => Meaning(b) = want[k]
  BY DEF Stand
<1> HIDE DEF from, given, img
<1>6. CASE k = front
  <2> DEFINE own == Unknown(ReadyAll(b))
             new == Taken(own.ram, from, a, m, keyed)
             w   == [own EXCEPT !.ram = new]
  <2>1. buf' = [j \in 0 .. 1 |-> IF j = k THEN w ELSE IF j = s THEN ReadyAll(buf[j]) ELSE buf[j]]
    BY <1>6 DEF CopyShown, OnShown, from
  <2>2. Sound(own) /\ own.known = FALSE /\ own.tris = << >> /\ own.ram = Meaning(b)
    BY <1>1, DirectFacts
  <2> HIDE DEF own
  <2>3. own.ram \in [Pixels -> Colours] /\ Fits(own)
    BY <2>2 DEF Sound, Fits, BufType
  <2>4. new \in [Pixels -> Colours]
    BY <1>2, <2>3, TakenFacts
  <2>5. Stand => new = img
    BY <1>2, <1>5, <2>2 DEF img
  <2> HIDE DEF new
  <2>6. Sound(w) /\ Meaning(w) = new
    BY <2>2, <2>3, <2>4, RamFacts
  <2> HIDE DEF w
  <2>7. Stand => Meaning(w) = img
    BY <2>5, <2>6
  <2> QED
    BY ONLY <1>0, <1>3, <1>4, <2>1, <2>6, <2>7, BufChangeTwo
<1>7. CASE k # front
  <2> DEFINE own == Ready(TrisToRam(b), Area(a))
             w   == Dirty([own EXCEPT !.ram = Taken(@, from, a, m, keyed)], a)
  <2>1. buf' = [j \in 0 .. 1 |-> IF j = k THEN w ELSE IF j = s THEN ReadyAll(buf[j]) ELSE buf[j]]
    BY <1>7 DEF CopyHidden, OnHidden, from
  <2>2. Sound(w) /\ Meaning(w) = Taken(Meaning(b), from, a, m, keyed)
    BY <1>1, <1>2, HiddenCopy
  <2> HIDE DEF w
  <2>3. Stand => Meaning(w) = img
    BY <1>2, <1>5, <2>2 DEF img
  <2> QED
    BY ONLY <1>0, <1>3, <1>4, <2>1, <2>2, <2>3, BufChangeTwo
<1> QED
  BY <1>6, <1>7

(* m8dd_blt16's copies from memory or the other buffer do.                 *)
LEMMA BufCopy ==
  ASSUME BufInv, BltCopy
  PROVE  BufInv' /\ (Stand => Stand')
<1> DEFINE Copy(k, a, keyed, s, src, m) ==
             /\ IF k = front THEN CopyShown(k, a, s, src, m, keyed)
                             ELSE CopyHidden(k, a, s, src, m, keyed)
             /\ want' = [want EXCEPT ![k] =
                           Taken(@, IF s = -1 THEN src ELSE want[s], a, m, keyed)]
<1>1. PICK k \in Buffers, a \in Boxes, keyed \in BOOLEAN :
        \/ \E src \in Pictures : Copy(k, a, keyed, -1, src, <<0, 0>>)
        \/ /\ 1 - k \in Buffers
           /\ \E m \in Moves : Inside(Shifted(a, m), Screen) /\ Copy(k, a, keyed, 1 - k, << >>, m)
  BY DEF BltCopy
<1>2. locks = << >> /\ a \in Rect
  BY BoxFacts DEF BltCopy
<1>3. ASSUME NEW src \in Pictures, Copy(k, a, keyed, -1, src, <<0, 0>>)
      PROVE  BufInv' /\ (Stand => Stand')
  <2> DEFINE m == <<0, 0>>
             s == -1
  <2>1. ASSUME NEW p \in Area(a) PROVE Shift(p, m) \in Pixels
    <3>1. p \in Pixels /\ p[1] \in Int /\ p[2] \in Int /\ p = <<p[1], p[2]>>
      BY GeometryAssumption DEF Area, Pixels
    <3>2. Shift(p, m) = <<p[1] + 0, p[2] + 0>>
      BY DEF Shift
    <3> QED
      BY <3>1, <3>2
  <2>2. src \in [Pixels -> Colours] /\ s = -1 /\ Copy(k, a, keyed, s, src, m)
    BY <1>3, BoxFacts
  <2> HIDE DEF m, s
  <2> QED
    BY <1>2, <2>1, <2>2, BufCopyOne
<1>4. ASSUME 1 - k \in Buffers, NEW m \in Moves, Inside(Shifted(a, m), Screen),
             Copy(k, a, keyed, 1 - k, << >>, m)
      PROVE  BufInv' /\ (Stand => Stand')
  <2> DEFINE s == 1 - k
             src == << >>
  <2>1. s \in Buffers /\ s # k /\ Copy(k, a, keyed, s, src, m)
    BY <1>4, BufferIndex
  <2>2. \A p \in Area(a) : Shift(p, m) \in Pixels
    BY <1>2, <1>4, BoxFacts, ShiftFacts
  <2> HIDE DEF s, src
  <2> QED
    BY <1>2, <2>1, <2>2, BufCopyOne
<1> HIDE DEF Copy
<1> QED
  BY <1>1, <1>3, <1>4

(* m8dd_blt16's copies within a buffer do.                                 *)
LEMMA BufSelf ==
  ASSUME BufInv, BltSelf
  PROVE  BufInv' /\ (Stand => Stand')
<1>1. locks = << >>
  BY DEF BltSelf
<1>2. PICK k \in Buffers, a \in Boxes, m \in Moves :
        /\ Inside(Shifted(a, m), Screen)
        /\ IF k = front
           THEN LET own == Unknown(ReadyAll(buf[k]))
                    B   == [buf EXCEPT ![k] = [own EXCEPT !.ram = Taken(@, @, a, m, FALSE)]]
                IN  OnShown(B) /\ CopyNow(B, a, m)
           ELSE LET own == Ready(Ready(TrisToRam(buf[k]), Area(a)), Area(Shifted(a, m)))
                IN  OnHidden([buf EXCEPT ![k] =
                                Dirty([own EXCEPT !.ram = Taken(@, @, a, m, FALSE)], a)])
        /\ want' = [want EXCEPT ![k] = Taken(@, @, a, m, FALSE)]
  BY DEF BltSelf
<1> DEFINE b == buf[k]
           img == Moved(want[k], want[k], a, m)
<1>3. k \in 0 .. 1 /\ Sound(b) /\ want[k] \in [Pixels -> Colours] /\ a \in Rect /\ m \in Int \X Int
  BY BufferIndex, BoxFacts DEF BufInv
<1>4. \A p \in Area(a) : Shift(p, m) \in Pixels
  BY <1>2, <1>3, ShiftFacts
<1>5. img \in [Pixels -> Colours]
  BY <1>3, <1>4, MovedFacts
<1>6. want' = [want EXCEPT ![k] = img]
  BY <1>2 DEF Taken, Moved
<1>7. locks' = locks /\ live' = live /\ front' = front
  BY <1>2 DEF OnShown, OnHidden, progVars
<1>8. CASE k = front
  <2> DEFINE own == Unknown(ReadyAll(b))
             new == Moved(own.ram, own.ram, a, m)
             w   == [own EXCEPT !.ram = new]
  <2>1. buf' = [buf EXCEPT ![k] = w]
    BY <1>2, <1>8 DEF OnShown, Taken, Moved
  <2>2. Sound(own) /\ own.known = FALSE /\ own.tris = << >> /\ own.ram = Meaning(b)
    BY <1>3, DirectFacts
  <2> HIDE DEF own
  <2>3. own.ram \in [Pixels -> Colours] /\ Fits(own)
    BY <2>2 DEF Sound, Fits, BufType
  <2>4. new \in [Pixels -> Colours]
    BY <1>4, <2>3, MovedFacts
  <2>5. Meaning(b) = want[k] => new = img
    BY <2>2
  <2> HIDE DEF new, img
  <2>6. Sound(w) /\ Meaning(w) = new
    BY <2>2, <2>3, <2>4, RamFacts
  <2> HIDE DEF w
  <2> QED
    BY <1>1, <1>5, <1>6, <1>7, <2>1, <2>5, <2>6, BufChangeOne
<1>9. CASE k # front
  <2> DEFINE own == Ready(Ready(TrisToRam(b), Area(a)), Area(Shifted(a, m)))
             w   == Dirty([own EXCEPT !.ram = Taken(@, @, a, m, FALSE)], a)
  <2>1. buf' = [buf EXCEPT ![k] = w]
    BY <1>2, <1>9 DEF OnHidden
  <2>2. Sound(w) /\ Meaning(w) = Taken(Meaning(b), Meaning(b), a, m, FALSE)
    BY <1>2, <1>3, HiddenSelf
  <2>3. Taken(Meaning(b), Meaning(b), a, m, FALSE) = Moved(Meaning(b), Meaning(b), a, m)
    BY DEF Taken, Moved
  <2> HIDE DEF w
  <2>4. Meaning(b) = want[k] => Meaning(w) = img
    BY <2>2, <2>3
  <2> HIDE DEF img
  <2> QED
    BY <1>1, <1>5, <1>6, <1>7, <2>1, <2>2, <2>4, BufChangeOne
<1> QED
  BY <1>8, <1>9

(* What m8dd_blt16 leaves to DDRAW does.                                   *)
LEMMA BufOwn ==
  ASSUME BufInv, NEW k \in Buffers, NEW s \in Buffers, NEW a \in Boxes, NEW c \in Colours,
         BltOwn(k, s, a, c)
  PROVE  BufInv' /\ (Stand => Stand')
<1> DEFINE b == buf[k]
           w == Paint(Unknown(ReadyAll(b)), Area(a), c)
           img == Over(want[k], Area(a), c)
<1>1. locks = << >> /\ want' = [want EXCEPT ![k] = img]
  BY DEF BltOwn
<1>2. k \in 0 .. 1 /\ s \in 0 .. 1 /\ Sound(b) /\ want[k] \in [Pixels -> Colours]
  BY BufferIndex DEF BufInv
<1>3. img \in [Pixels -> Colours]
  BY <1>2, OverType
<1>4. locks' = locks /\ live' = live /\ front' = front
  BY DEF BltOwn, OnHidden, progVars
<1>5. buf' = [[j \in 0 .. 1 |-> IF j \in {k, s} THEN ReadyAll(buf[j]) ELSE buf[j]]
                EXCEPT ![k] = Paint(Unknown(@), Area(a), c)]
  BY DEF BltOwn, OnHidden
<1>6. buf' = [j \in 0 .. 1 |-> IF j = k THEN w ELSE IF j = s THEN ReadyAll(buf[j]) ELSE buf[j]]
  BY <1>2, <1>5
<1>7. Sound(w) /\ Meaning(w) = Over(Meaning(b), Area(a), c)
  <2> DEFINE x == Unknown(ReadyAll(b))
  <2>1. Sound(x) /\ x.known = FALSE /\ x.tris = << >> /\ Meaning(x) = Meaning(b)
    BY <1>2, DirectFacts
  <2> HIDE DEF x
  <2>2. Sound(Paint(x, Area(a), c)) /\ Meaning(Paint(x, Area(a), c)) = Over(Meaning(x), Area(a), c)
    BY <2>1, RamPaint
  <2> QED
    BY <2>1, <2>2 DEF x
<1> HIDE DEF w
<1>8. Stand => Meaning(w) = img
  BY <1>7 DEF Stand
<1> HIDE DEF img
<1> QED
  BY <1>1, <1>3, <1>4, <1>6, <1>7, <1>8, BufChangeTwo

(* Locks: a buffer locked for writing has lost its description.            *)
LEMMA LockSeq ==
  ASSUME NEW s \in Seq(LockType)
  PROVE  /\ \A e \in LockType :
               /\ Append(s, e) \in Seq(LockType)
               /\ \A i \in DOMAIN Append(s, e) : Append(s, e)[i] = e \/ (i \in DOMAIN s /\ Append(s, e)[i] = s[i])
         /\ \A i \in DOMAIN s :
               /\ RemoveAt(s, i) \in Seq(LockType)
               /\ \A j \in DOMAIN RemoveAt(s, i) : \E n \in DOMAIN s : RemoveAt(s, i)[j] = s[n]
<1>1. ASSUME NEW e \in LockType
      PROVE  /\ Append(s, e) \in Seq(LockType)
             /\ \A i \in DOMAIN Append(s, e) : Append(s, e)[i] = e \/ (i \in DOMAIN s /\ Append(s, e)[i] = s[i])
  OBVIOUS
<1>2. ASSUME NEW i \in DOMAIN s
      PROVE  /\ RemoveAt(s, i) \in Seq(LockType)
             /\ \A j \in DOMAIN RemoveAt(s, i) : \E n \in DOMAIN s : RemoveAt(s, i)[j] = s[n]
  <2>1. i \in 1 .. Len(s) /\ Len(s) \in Nat /\ DOMAIN s = 1 .. Len(s)
    OBVIOUS
  <2> DEFINE x == SubSeq(s, 1, i - 1)
             y == SubSeq(s, i + 1, Len(s))
  <2>2. /\ x \in Seq(LockType) /\ Len(x) = i - 1 /\ (\A j \in 1 .. i - 1 : x[j] = s[j])
    BY <2>1
  <2>3. /\ y \in Seq(LockType) /\ Len(y) = Len(s) - i /\ (\A j \in 1 .. Len(s) - i : y[j] = s[j + i])
    BY <2>1
  <2> HIDE DEF x, y
  <2>4. RemoveAt(s, i) = x \o y
    BY DEF RemoveAt, x, y
  <2>5. x \o y \in Seq(LockType)
    BY <2>2, <2>3
  <2>6. ASSUME NEW j \in DOMAIN (x \o y) PROVE \E n \in DOMAIN s : (x \o y)[j] = s[n]
    <3>1. Len(x) \in Nat /\ Len(y) \in Nat /\ j \in 1 .. Len(x) + Len(y)
      BY <2>2, <2>3
    <3>2. (x \o y)[j] = IF j <= Len(x) THEN x[j] ELSE y[j - Len(x)]
      BY SMTT(60), <2>2, <2>3, <3>1
    <3>3. CASE j <= Len(x)
      <4>1. j \in 1 .. i - 1 /\ j \in DOMAIN s
        BY <3>1, <3>3, <2>1, <2>2
      <4> QED
        BY <4>1, <3>2, <3>3, <2>2
    <3>4. CASE ~(j <= Len(x))
      <4>1. j - Len(x) \in 1 .. Len(s) - i /\ (j - Len(x)) + i = j + 1 /\ j + 1 \in DOMAIN s
        BY SMTT(60), <3>1, <3>4, <2>1, <2>2, <2>3
      <4>2. y[j - Len(x)] = s[j + 1]
        BY <4>1, <2>3
      <4> QED
        BY <4>1, <4>2, <3>2, <3>4
    <3> QED
      BY <3>3, <3>4
  <2> QED
    BY <2>4, <2>5, <2>6
<1> QED
  BY <1>1, <1>2

(* m8dd_lock16 does.                                                       *)
LEMMA BufLock ==
  ASSUME BufInv, Lock
  PROVE  BufInv' /\ (Stand => Stand')
<1>1. PICK k \in Buffers, r \in LockBoxes, write \in BOOLEAN :
        /\ locks' = Append(locks, [k |-> k, r |-> r, write |-> write])
        /\ buf' = [buf EXCEPT ![k] = IF write THEN Unknown(ReadyAll(@)) ELSE ReadyAll(@)]
  BY DEF Lock
<1> DEFINE b == buf[k]
           w == IF write THEN Unknown(ReadyAll(b)) ELSE ReadyAll(b)
           e == [k |-> k, r |-> r, write |-> write]
<1>2. front' = front /\ live' = live /\ want' = want
  BY DEF Lock
<1>3. k \in 0 .. 1 /\ Sound(b) /\ e \in LockType
  BY BufferIndex DEF BufInv, LockType
<1>4. /\ Sound(w) /\ Meaning(w) = Meaning(b) /\ w.tris = << >>
      /\ (write \/ b.known = FALSE => w.known = FALSE)
  <2>1. CASE write
    BY <2>1, <1>3, DirectFacts
  <2>2. CASE ~write
    BY ZenonT(60), <2>2, <1>3, ReadyAllFacts, NoTris DEF Sound
  <2> QED
    BY <2>1, <2>2
<1>5. buf' = [buf EXCEPT ![k] = w]
  BY <1>1
<1>6. e.k = k /\ e.write = write /\ locks' = Append(locks, e)
  BY <1>1
<1> HIDE DEF w, e
<1>7. /\ buf \in [0 .. 1 -> BufType] /\ (\A j \in 0 .. 1 : Sound(buf[j]))
      /\ locks \in Seq(LockType)
      /\ \A i \in DOMAIN locks :
        /\ locks[i].k \in Buffers
        /\ locks[i].write => buf[locks[i].k].known = FALSE /\ buf[locks[i].k].tris = << >>
  BY DEF BufInv
<1>8. /\ buf' \in [0 .. 1 -> BufType] /\ \A j \in 0 .. 1 : buf'[j] = IF j = k THEN w ELSE buf[j]
  BY <1>3, <1>4, <1>5, <1>7 DEF Sound, Fits
<1>9. Buffers' = Buffers
  BY <1>2 DEF Buffers
<1>10. locks' \in Seq(LockType)
  BY <1>3, <1>6, <1>7, LockSeq
<1>11. ASSUME NEW i \in DOMAIN locks'
       PROVE  /\ locks'[i].k \in Buffers
              /\ locks'[i].write => buf'[locks'[i].k].known = FALSE /\ buf'[locks'[i].k].tris = << >>
  <2>1. locks'[i] = e \/ (i \in DOMAIN locks /\ locks'[i] = locks[i])
    BY <1>3, <1>6, <1>7, LockSeq
  <2>2. CASE locks'[i] = e
    BY <2>2, <1>3, <1>4, <1>6, <1>8
  <2>3. CASE i \in DOMAIN locks /\ locks'[i] = locks[i]
    BY ZenonT(60), <2>3, <1>4, <1>7, <1>8, BufferIndex
  <2> QED
    BY <2>1, <2>2, <2>3
<1>12. \A j \in 0 .. 1 : Sound(buf'[j])
  BY <1>4, <1>7, <1>8
<1>13. BufInv'
  BY <1>2, <1>8, <1>9, <1>10, <1>11, <1>12 DEF BufInv
<1>14. ASSUME Stand PROVE Stand'
  <2>1. \A j \in Buffers : Meaning(buf[j]) = want[j]
    BY <1>14 DEF Stand
  <2>2. \A j \in Buffers : Meaning(buf'[j]) = want'[j]
    BY <2>1, <1>2, <1>4, <1>8, BufferIndex
  <2> QED
    BY <1>9, <2>2 DEF Stand
<1> QED
  BY <1>13, <1>14

(* A buffer painted whose lock lets the program write.                     *)
LEMMA BufWrite ==
  ASSUME BufInv, WriteLocked
  PROVE  BufInv' /\ (Stand => Stand')
<1>1. PICK i \in DOMAIN locks, c \in Colours :
        /\ locks[i].write
        /\ buf' = [buf EXCEPT ![locks[i].k] = Paint(@, Area(locks[i].r), c)]
        /\ want' = [want EXCEPT ![locks[i].k] = Over(@, Area(locks[i].r), c)]
  BY DEF WriteLocked
<1> DEFINE k == locks[i].k
           b == buf[k]
           w == Paint(b, Area(locks[i].r), c)
           img == Over(want[k], Area(locks[i].r), c)
<1>2. front' = front /\ live' = live /\ locks' = locks
  BY DEF WriteLocked, progVars
<1>3. /\ buf \in [0 .. 1 -> BufType] /\ (\A j \in 0 .. 1 : Sound(buf[j]))
      /\ want \in [0 .. 1 -> [Pixels -> Colours]] /\ locks \in Seq(LockType)
      /\ \A n \in DOMAIN locks :
        /\ locks[n].k \in Buffers
        /\ locks[n].write => buf[locks[n].k].known = FALSE /\ buf[locks[n].k].tris = << >>
  BY DEF BufInv
<1>4. k \in Buffers /\ k \in 0 .. 1 /\ Sound(b) /\ b.known = FALSE /\ b.tris = << >>
  BY <1>1, <1>3, BufferIndex
<1>5. Sound(w) /\ w.known = FALSE /\ w.tris = << >> /\ Meaning(w) = Over(Meaning(b), Area(locks[i].r), c)
  BY <1>4, RamPaint
<1>6. img \in [Pixels -> Colours]
  BY <1>3, <1>4, OverType
<1>7. Meaning(b) = want[k] => Meaning(w) = img
  BY <1>5
<1>8. buf' = [buf EXCEPT ![k] = w] /\ want' = [want EXCEPT ![k] = img]
  BY <1>1
<1> HIDE DEF k, w, img
<1>9. /\ buf' \in [0 .. 1 -> BufType] /\ (\A j \in 0 .. 1 : buf'[j] = IF j = k THEN w ELSE buf[j])
      /\ want' \in [0 .. 1 -> [Pixels -> Colours]]
      /\ (\A j \in 0 .. 1 : want'[j] = IF j = k THEN img ELSE want[j])
  BY <1>3, <1>4, <1>5, <1>6, <1>8 DEF Sound, Fits
<1>10. Buffers' = Buffers
  BY <1>2 DEF Buffers
<1>11. \A n \in DOMAIN locks :
         /\ locks[n].k \in Buffers
         /\ locks[n].write => buf'[locks[n].k].known = FALSE /\ buf'[locks[n].k].tris = << >>
  BY <1>3, <1>5, <1>9, BufferIndex
<1>12. \A j \in 0 .. 1 : Sound(buf'[j])
  BY <1>3, <1>5, <1>9
<1>13. BufInv'
  BY <1>2, <1>3, <1>9, <1>10, <1>11, <1>12 DEF BufInv
<1>14. ASSUME Stand PROVE Stand'
  <2>1. \A j \in Buffers : Meaning(buf[j]) = want[j]
    BY <1>14 DEF Stand
  <2>2. \A j \in Buffers : Meaning(buf'[j]) = want'[j]
    BY <2>1, <1>7, <1>9, BufferIndex
  <2> QED
    BY <1>10, <2>2 DEF Stand
<1> QED
  BY <1>13, <1>14

(* m8dd_unlock16 does.                                                     *)
LEMMA BufUnlock ==
  ASSUME BufInv, Unlock
  PROVE  BufInv' /\ (Stand => Stand')
<1>1. PICK i \in DOMAIN locks : locks' = RemoveAt(locks, i)
  BY DEF Unlock
<1>2. buf' = buf /\ front' = front /\ live' = live /\ want' = want
  BY DEF Unlock
<1>3. locks \in Seq(LockType)
  BY DEF BufInv
<1>4. locks' \in Seq(LockType) /\ \A j \in DOMAIN locks' : \E n \in DOMAIN locks : locks'[j] = locks[n]
  BY <1>1, <1>3, LockSeq
<1>5. Buffers' = Buffers
  BY <1>2 DEF Buffers
<1>6. BufInv'
  BY <1>2, <1>4, <1>5 DEF BufInv
<1> QED
  BY <1>2, <1>5, <1>6 DEF Stand

(* m8d3d_record does, unless the triangle is drawn under another.          *)
LEMMA BufRecord ==
  ASSUME BufInv, Record
  PROVE  BufInv' /\ (Stand /\ ~UnderTriangle => Stand')
<1>1. PICK k \in Buffers, t \in Tris :
        /\ IF k = front THEN RecordShown(k, t) ELSE RecordHidden(k, t)
        /\ want' = [want EXCEPT ![k] = Over(@, t.px, t.c)]
  BY DEF Record, Triangle
<1> DEFINE b == buf[k]
           img == Over(want[k], t.px, t.c)
<1>2. locks = << >> /\ want' = [want EXCEPT ![k] = img]
  BY <1>1 DEF Record, Triangle
<1>3. k \in 0 .. 1 /\ Sound(b) /\ want[k] \in [Pixels -> Colours] /\ t.c \in Colours
  BY BufferIndex, TriFacts DEF BufInv
<1>4. img \in [Pixels -> Colours]
  BY <1>3, OverType
<1>5. locks' = locks /\ live' = live /\ front' = front
  BY <1>1 DEF RecordShown, RecordHidden, OnHidden, progVars
<1>6. CASE k = front
  <2> DEFINE w == TriRam(b, t)
  <2>1. buf' = [buf EXCEPT ![k] = w]
    BY <1>1, <1>6 DEF RecordShown
  <2>2. Sound(w) /\ ((\A i \in DOMAIN b.tris : ~Clash(b.tris[i], t)) => Meaning(w) = Over(Meaning(b), t.px, t.c))
    BY <1>3, ShownTriangle
  <2>3. ~UnderTriangle => \A i \in DOMAIN b.tris : ~Clash(b.tris[i], t)
    BY <1>1, <1>6 DEF UnderTriangle
  <2> HIDE DEF w
  <2>4. ~UnderTriangle => (Meaning(b) = want[k] => Meaning(w) = img)
    BY <2>2, <2>3
  <2> HIDE DEF img
  <2>5. BufInv' /\ (Stand /\ (Meaning(buf[k]) = want[k] => Meaning(w) = img) => Stand')
    BY <1>2, <1>4, <1>5, <2>1, <2>2, BufChangeOne
  <2> QED
    BY <2>4, <2>5
<1>7. CASE k # front
  <2> DEFINE x == IF Len(b.tris) = TrisMax THEN TrisToRam(b) ELSE b
             w == IF b.known THEN [x EXCEPT !.tris = Append(@, t)] ELSE TriRam(b, t)
  <2>1. buf' = [buf EXCEPT ![k] = w]
    BY <1>1, <1>7 DEF RecordHidden, OnHidden
  <2>2. Sound(w) /\ Meaning(w) = Over(Meaning(b), t.px, t.c)
    BY <1>3, HiddenTriangle
  <2> HIDE DEF w
  <2>3. Meaning(b) = want[k] => Meaning(w) = img
    BY <2>2
  <2> HIDE DEF img
  <2> QED
    BY <1>2, <1>4, <1>5, <2>1, <2>2, <2>3, BufChangeOne
<1> QED
  BY <1>6, <1>7

(* GDI's drawing does.                                                     *)
LEMMA BufGdi ==
  ASSUME BufInv, Gdi
  PROVE  BufInv' /\ (Stand => Stand')
<1>1. PICK a \in GdiBoxes, c \in Colours :
        /\ buf' = [buf EXCEPT ![0] = Paint(@, Area(a), c)]
        /\ want' = [want EXCEPT ![0] = Meaning([buf EXCEPT ![0] = Paint(@, Area(a), c)][0])]
  BY DEF Gdi
<1> DEFINE w == Paint(buf[0], Area(a), c)
           img == Meaning(w)
<1>2. /\ buf \in [0 .. 1 -> BufType] /\ (\A j \in 0 .. 1 : Sound(buf[j]))
      /\ want \in [0 .. 1 -> [Pixels -> Colours]] /\ locks \in Seq(LockType)
      /\ \A i \in DOMAIN locks :
        /\ locks[i].k \in Buffers
        /\ locks[i].write => buf[locks[i].k].known = FALSE /\ buf[locks[i].k].tris = << >>
  BY DEF BufInv
<1>3. front' = front /\ live' = live /\ locks' = locks
  BY DEF Gdi, progVars
<1>4. Fits(w) /\ w.known = buf[0].known /\ w.tris = buf[0].tris /\ Sound(buf[0])
  <2>1. Sound(buf[0])
    BY <1>2
  <2> QED
    BY <2>1, PaintFacts DEF Sound
<1>5. Sound(w) /\ img \in [Pixels -> Colours]
  BY <1>4, MeaningType DEF Sound, Fits
<1>6. buf' = [buf EXCEPT ![0] = w] /\ want' = [want EXCEPT ![0] = img]
  BY <1>1, <1>2
<1>7. Meaning(w) = img
  OBVIOUS
<1> HIDE DEF w, img
<1>8. /\ buf' \in [0 .. 1 -> BufType] /\ (\A j \in 0 .. 1 : buf'[j] = IF j = 0 THEN w ELSE buf[j])
      /\ want' \in [0 .. 1 -> [Pixels -> Colours]]
      /\ (\A j \in 0 .. 1 : want'[j] = IF j = 0 THEN img ELSE want[j])
  BY <1>2, <1>5, <1>6 DEF Sound, Fits
<1>9. Buffers' = Buffers
  BY <1>3 DEF Buffers
<1>10. \A n \in DOMAIN locks :
         /\ locks[n].k \in Buffers
         /\ locks[n].write => buf'[locks[n].k].known = FALSE /\ buf'[locks[n].k].tris = << >>
  BY ZenonT(60), <1>2, <1>4, <1>8, BufferIndex
<1>11. \A j \in 0 .. 1 : Sound(buf'[j])
  BY <1>2, <1>5, <1>8
<1>12. BufInv'
  BY <1>2, <1>3, <1>8, <1>9, <1>10, <1>11 DEF BufInv
<1>13. ASSUME Stand PROVE Stand'
  <2>1. \A j \in Buffers : Meaning(buf[j]) = want[j]
    BY <1>13 DEF Stand
  <2>2. \A j \in Buffers : Meaning(buf'[j]) = want'[j]
    BY <2>1, <1>7, <1>8, BufferIndex
  <2> QED
    BY <1>9, <2>2 DEF Stand
<1> QED
  BY <1>12, <1>13

(* m8dd_create16 makes them right.                                         *)
LEMMA BufCreate ==
  ASSUME BufInv, Create16
  PROVE  BufInv' /\ Stand'
<1>1. /\ locks = << >> /\ locks' = locks /\ live' = TRUE /\ front' = 0
      /\ buf' = [k \in 0 .. 1 |-> Cleared(buf[k], Black)]
      /\ want' = [k \in 0 .. 1 |-> [p \in Pixels |-> Black]]
  BY DEF Create16, progVars
<1>2. \A k \in 0 .. 1 : Sound(buf[k])
  BY DEF BufInv
<1>3. /\ buf' = [k \in 0 .. 1 |-> buf'[k]] /\ DOMAIN buf' = 0 .. 1
      /\ \A k \in 0 .. 1 : buf'[k] = Cleared(buf[k], Black)
  BY <1>1
<1>4. \A k \in 0 .. 1 : Sound(buf'[k]) /\ buf'[k].tris = << >> /\ Meaning(buf'[k]) = [p \in Pixels |-> Black]
  BY <1>2, <1>3, ClearedFacts, ColourAssumption DEF Sound
<1>5. /\ buf' \in [0 .. 1 -> BufType] /\ want' \in [0 .. 1 -> [Pixels -> Colours]]
      /\ \A k \in 0 .. 1 : want'[k] = [p \in Pixels |-> Black]
  BY <1>1, <1>3, <1>4, ColourAssumption DEF Sound, Fits
<1>6. Buffers' = 0 .. 1
  BY <1>1 DEF Buffers
<1>7. DOMAIN locks = {} /\ locks \in Seq(LockType)
  BY <1>1
<1>8. BufInv'
  BY <1>1, <1>4, <1>5, <1>6, <1>7 DEF BufInv
<1> QED
  BY <1>4, <1>5, <1>6, <1>8 DEF Stand

(* A buffer left to its RAM.                                               *)
LEMMA LeftFacts ==
  ASSUME NEW b, Fits(b)
  PROVE  LET w == [Unknown(b) EXCEPT !.tris = << >>] IN
         Sound(w) /\ w.known = FALSE /\ w.tris = << >> /\ Meaning(w) = b.ram
<1> DEFINE x == [b EXCEPT !.tris = << >>]
<1>1. << >> \in Seq(Tris) /\ b \in BufType /\ Len(b.d) <= DirtyMax
  BY DEF Fits
<1>2. x.tris = << >> /\ x.d = b.d /\ x.ram = b.ram
  BY <1>1 DEF BufType
<1>3. x \in BufType
  BY <1>1 DEF BufType
<1>4. Unknown(x) = [Unknown(b) EXCEPT !.tris = << >>]
  BY <1>1 DEF Unknown, BufType
<1> HIDE DEF x
<1>5. Fits(x)
  BY <1>1, <1>2, <1>3 DEF Fits
<1>6. /\ Sound(Unknown(x)) /\ Unknown(x).known = FALSE /\ Unknown(x).tris = << >>
      /\ Meaning(Unknown(x)) = x.ram
  BY <1>2, <1>5, UnknownFacts
<1> QED
  BY <1>2, <1>4, <1>6

(* m8dd_destroy16 keeps them right.                                        *)
LEMMA BufDestroy ==
  ASSUME BufInv, Destroy16
  PROVE  BufInv' /\ (Stand => Stand')
<1> DEFINE B == [buf EXCEPT ![0] = ReadyAll(@)]
<1>1. /\ locks = << >> /\ locks' = locks /\ live' = FALSE /\ front' = 0
      /\ buf' = [k \in 0 .. 1 |-> [Unknown(B[k]) EXCEPT !.tris = << >>]]
      /\ want' = [want EXCEPT ![1] = B[1].ram]
  BY DEF Destroy16
<1>2. /\ buf \in [0 .. 1 -> BufType] /\ (\A k \in 0 .. 1 : Sound(buf[k]))
      /\ want \in [0 .. 1 -> [Pixels -> Colours]]
  BY DEF BufInv
<1>3. /\ B[0] = ReadyAll(buf[0]) /\ B[1] = buf[1]
      /\ Fits(buf[0]) /\ Fits(buf[1]) /\ 0 \in 0 .. 1 /\ 1 \in 0 .. 1
  BY <1>2 DEF Sound
<1>4. Fits(B[0]) /\ B[0].ram = Meaning(buf[0]) /\ Fits(B[1]) /\ B[1].ram \in [Pixels -> Colours]
  <2>1. Fits(ReadyAll(buf[0])) /\ ReadyAll(buf[0]).ram = Meaning(buf[0])
    BY <1>3, ReadyAllFacts
  <2>2. buf[1].ram \in [Pixels -> Colours]
    BY <1>3 DEF Fits, BufType
  <2> QED
    BY <1>3, <2>1, <2>2
<1> HIDE DEF B
<1>5. /\ buf' = [k \in 0 .. 1 |-> buf'[k]] /\ DOMAIN buf' = 0 .. 1
      /\ \A k \in 0 .. 1 : buf'[k] = [Unknown(B[k]) EXCEPT !.tris = << >>]
  BY <1>1
<1>6. Sound(buf'[0]) /\ Sound(buf'[1]) /\ Meaning(buf'[0]) = Meaning(buf[0])
  BY ZenonT(60), <1>3, <1>4, <1>5, LeftFacts
<1>7. \A k \in 0 .. 1 : k = 0 \/ k = 1
  OBVIOUS
<1>8. \A k \in 0 .. 1 : Sound(buf'[k])
  BY <1>6, <1>7
<1>9. /\ buf' \in [0 .. 1 -> BufType] /\ want' \in [0 .. 1 -> [Pixels -> Colours]]
      /\ want'[0] = want[0]
  BY <1>1, <1>2, <1>4, <1>5, <1>8 DEF Sound, Fits
<1>10. Buffers' = {0} /\ 0 \in Buffers
  BY <1>1 DEF Buffers
<1>11. DOMAIN locks = {} /\ locks \in Seq(LockType)
  BY <1>1
<1>12. BufInv'
  BY <1>1, <1>8, <1>9, <1>10, <1>11 DEF BufInv
<1>13. Stand => Stand'
  BY <1>6, <1>9, <1>10 DEF Stand
<1> QED
  BY <1>12, <1>13

(* The rest leave the buffers alone.                                       *)
LEMMA BufSame ==
  ASSUME BufInv, Flip \/ ContextCreate \/ ContextEnd \/ UNCHANGED vars
  PROVE  BufInv' /\ (Stand => Stand')
<1>1. /\ buf' = buf /\ want' = want /\ locks' = locks /\ live' = live
      /\ front' = front \/ (front' = 1 - front /\ live)
  BY DEF Flip, ContextCreate, ContextEnd, vars, progVars
<1>2. Buffers' = Buffers
  BY <1>1 DEF Buffers
<1>3. front' \in Buffers
  <2>1. front \in Buffers
    BY DEF BufInv
  <2>2. CASE front' = 1 - front /\ live
    <3>1. Buffers = 0 .. 1 /\ front \in 0 .. 1
      BY <2>1, <2>2 DEF Buffers
    <3> QED
      BY <2>2, <3>1
  <2> QED
    BY <1>1, <2>1, <2>2
<1>4. BufInv'
  BY <1>1, <1>2, <1>3 DEF BufInv
<1> QED
  BY <1>1, <1>2, <1>4 DEF Stand

(* They start right.                                                       *)
LEMMA BufInit == Init => BufInv /\ Stand
<1> SUFFICES ASSUME Init PROVE BufInv /\ Stand
  OBVIOUS
<1> DEFINE black == [p \in Pixels |-> Black]
           plain == [ram |-> black, known |-> FALSE, filled |-> FALSE, colour |-> Black,
                     d |-> << >>, tris |-> << >>]
<1>1. /\ buf = [k \in 0 .. 1 |-> plain] /\ front = 0 /\ live = FALSE /\ locks = << >>
      /\ want = [k \in 0 .. 1 |-> black]
  BY DEF Init
<1>2. << >> \in Seq(Rect) /\ << >> \in Seq(Tris) /\ Len(<< >>) <= DirtyMax /\ << >> \in Seq(LockType)
  BY BufferAssumption
<1>3. black \in [Pixels -> Colours]
  BY ColourAssumption
<1> HIDE DEF black
<1>4. plain \in BufType /\ plain.known = FALSE /\ plain.tris = << >> /\ plain.ram = black /\ plain.d = << >>
  BY <1>2, <1>3, ColourAssumption DEF BufType
<1> HIDE DEF plain
<1>5. Fits(plain)
  BY <1>2, <1>4 DEF Fits
<1>6. Sound(plain)
  BY <1>4, <1>5, NoTris
<1>7. Meaning(plain) = black
  <2>1. \A p \in Pixels : Base(plain)[p] = black[p]
    BY <1>4 DEF Base
  <2>2. Base(plain) = black
    BY <1>3, <2>1 DEF Base
  <2> QED
    BY <1>4, <2>2, MeaningPlain
<1>8. \A k \in 0 .. 1 : buf[k] = plain /\ want[k] = black
  BY <1>1
<1>9. buf \in [0 .. 1 -> BufType] /\ want \in [0 .. 1 -> [Pixels -> Colours]]
  BY <1>1, <1>3, <1>4
<1>10. DOMAIN locks = {} /\ front \in Buffers /\ live \in BOOLEAN
  BY <1>1 DEF Buffers
<1>11. BufInv
  BY <1>1, <1>2, <1>6, <1>8, <1>9, <1>10 DEF BufInv
<1>12. Stand
  BY <1>7, <1>8, BufferIndex DEF Stand
<1> QED
  BY <1>11, <1>12

(* Every step keeps them right, the triangle drawn under another apart.    *)
LEMMA BufStep ==
  ASSUME BufInv, [Next]_vars
  PROVE  BufInv' /\ (Stand /\ ~UnderTriangle => Stand')
<1>1. CASE \E k \in Buffers, a \in Boxes, c \in Colours : BltFill(k, a, c)
  BY <1>1, BufFill
<1>2. CASE BltCopy
  BY <1>2, BufCopy
<1>3. CASE BltSelf
  BY <1>3, BufSelf
<1>4. CASE \E k, s \in Buffers, a \in Boxes, c \in Colours : BltOwn(k, s, a, c)
  BY <1>4, BufOwn
<1>5. CASE Lock
  BY <1>5, BufLock
<1>6. CASE WriteLocked
  BY <1>6, BufWrite
<1>7. CASE Unlock
  BY <1>7, BufUnlock
<1>8. CASE Record
  BY <1>8, BufRecord
<1>9. CASE Gdi
  BY <1>9, BufGdi
<1>10. CASE Create16
  BY <1>10, BufCreate
<1>11. CASE Destroy16
  BY <1>11, BufDestroy
<1>12. CASE Flip \/ ContextCreate \/ ContextEnd \/ UNCHANGED vars
  BY <1>12, BufSame
<1> QED
  BY <1>1, <1>2, <1>3, <1>4, <1>5, <1>6, <1>7, <1>8, <1>9, <1>10, <1>11, <1>12 DEF Next

(* Whatever the program calls and GDI draws meanwhile, a buffer's RAM, its *)
(* description and its triangles stand for what was drawn in it            *)
(* (m8dd32.c:553-561) -- as long as no triangle is drawn on the shown      *)
(* buffer under one of another colour its description still has: there     *)
(* m8d3d_record (m8dd32.c:2001) draws the new one in RAM, below the old.   *)
THEOREM StandUnlessUnder == Spec /\ [][~UnderTriangle]_vars => []Stand
<1>1. Init => BufInv /\ Stand
  BY BufInit
<1>2. BufInv /\ Stand /\ [Next]_vars /\ [~UnderTriangle]_vars => BufInv' /\ Stand'
  <2> SUFFICES ASSUME BufInv, Stand, [Next]_vars, [~UnderTriangle]_vars PROVE BufInv' /\ Stand'
    OBVIOUS
  <2>1. CASE UNCHANGED vars
    BY <2>1, BufSame
  <2>2. CASE ~UnderTriangle
    BY <2>2, BufStep
  <2> QED
    BY <2>1, <2>2
<1> QED
  BY <1>1, <1>2, PTL DEF Spec

-----------------------------------------------------------------------------
(* m8dd_fill_outside: the parts of a rectangle outside others.             *)

(* Two lists together cover what each covers.                              *)
LEMMA CoverConcat ==
  ASSUME NEW s \in Seq(Rect), NEW t \in Seq(Rect)
  PROVE  s \o t \in Seq(Rect) /\ Cover(s \o t) = Cover(s) \cup Cover(t)
<1> DEFINE u == s \o t
<1>1. /\ u \in Seq(Rect) /\ Len(s) \in Nat /\ Len(t) \in Nat
      /\ DOMAIN s = 1 .. Len(s) /\ DOMAIN t = 1 .. Len(t) /\ DOMAIN u = 1 .. Len(s) + Len(t)
  OBVIOUS
<1>2. /\ \A i \in 1 .. Len(s) : u[i] = s[i]
      /\ \A i \in 1 .. Len(t) : u[Len(s) + i] = t[i]
  OBVIOUS
<1> DEFINE n == Len(s)
           m == Len(t)
<1> HIDE DEF u, n, m
<1>3. \A p : p \in Cover(s) => p \in Cover(u)
  <2> SUFFICES ASSUME NEW p, p \in Cover(s) PROVE p \in Cover(u)
    OBVIOUS
  <2>1. PICK i \in 1 .. n : p \in Area(s[i])
    BY <1>1 DEF Cover, n
  <2>2. i \in DOMAIN u /\ u[i] = s[i]
    BY <1>1, <1>2 DEF n
  <2> QED
    BY <2>1, <2>2 DEF Cover
<1>4. \A p : p \in Cover(t) => p \in Cover(u)
  <2> SUFFICES ASSUME NEW p, p \in Cover(t) PROVE p \in Cover(u)
    OBVIOUS
  <2>1. PICK i \in 1 .. m : p \in Area(t[i])
    BY <1>1 DEF Cover, m
  <2>2. n + i \in DOMAIN u /\ u[n + i] = t[i]
    BY <1>1, <1>2 DEF n, m
  <2> QED
    BY <2>1, <2>2 DEF Cover
<1>5. \A p : p \in Cover(u) => p \in Cover(s) \/ p \in Cover(t)
  <2> SUFFICES ASSUME NEW p, p \in Cover(u) PROVE p \in Cover(s) \/ p \in Cover(t)
    OBVIOUS
  <2>1. PICK i \in 1 .. n + m : p \in Area(u[i])
    BY <1>1 DEF Cover, n, m
  <2>2. CASE i <= n
    <3>1. i \in DOMAIN s /\ u[i] = s[i]
      BY <2>2, <1>1, <1>2 DEF n
    <3> QED
      BY <2>1, <3>1 DEF Cover
  <2>3. CASE ~(i <= n)
    <3>1. i - n \in 1 .. m /\ n + (i - n) = i
      BY <2>3, <1>1 DEF n, m
    <3>2. i - n \in DOMAIN t /\ u[i] = t[i - n]
      BY <3>1, <1>1, <1>2 DEF n, m
    <3> QED
      BY <2>1, <3>2 DEF Cover
  <2> QED
    BY <2>2, <2>3
<1>6. Cover(u) = Cover(s) \cup Cover(t)
  BY <1>3, <1>4, <1>5
<1> QED
  BY <1>1, <1>6 DEF u

(* An empty list covers nothing.                                           *)
LEMMA CoverNone == Cover(<< >>) = {} /\ << >> \in Seq(Rect)
  BY DEF Cover

(* A list of one rectangle covers its area.                                *)
LEMMA CoverOne ==
  ASSUME NEW a \in Rect
  PROVE  Cover(<<a>>) = Area(a) /\ <<a>> \in Seq(Rect)
<1>1. DOMAIN <<a>> = {1} /\ <<a>>[1] = a /\ <<a>> \in Seq(Rect)
  OBVIOUS
<1> DEFINE s == <<a>>
<1> HIDE DEF s
<1>2. Cover(s) = Area(a)
  BY <1>1 DEF Cover, s
<1> QED
  BY <1>1, <1>2 DEF s

(* The bands over, under, left and right of n.                             *)
LEMMA SplitFacts ==
  ASSUME NEW a \in Rect, NEW n \in Rect
  PROVE  Split(a, n) \in Seq(Rect) /\ Cover(Split(a, n)) = Area(a) \ Area(n)
<1>1. /\ a.l \in Int /\ a.t \in Int /\ a.r \in Int /\ a.b \in Int
      /\ n.l \in Int /\ n.t \in Int /\ n.r \in Int /\ n.b \in Int
  BY DEF Rect
<1>2. \A p \in Pixels : p[1] \in Int /\ p[2] \in Int
  BY PixelFacts
<1>3. CASE Apart(a, n)
  <2>1. Split(a, n) = <<a>>
    BY <1>3 DEF Split
  <2>2. Area(a) \ Area(n) = Area(a)
    BY <1>1, <1>2, <1>3 DEF Apart, Area
  <2> QED
    BY <2>1, <2>2, CoverOne
<1>4. CASE ~Apart(a, n)
  <2>0. n.l < a.r /\ a.l < n.r /\ n.t < a.b /\ a.t < n.b
    BY <1>1, <1>4 DEF Apart
  <2> DEFINE band == [a EXCEPT !.t = Max({@, n.t}), !.b = Min({@, n.b})]
             top  == [a EXCEPT !.b = n.t]
             low  == [a EXCEPT !.t = n.b]
             left == [band EXCEPT !.r = n.l]
             rest == [band EXCEPT !.l = n.r]
             s1 == IF a.t < n.t THEN <<top>> ELSE << >>
             s2 == IF n.b < a.b THEN <<low>> ELSE << >>
             s3 == IF a.l < n.l THEN <<left>> ELSE << >>
             s4 == IF n.r < a.r THEN <<rest>> ELSE << >>
  <2>1. Split(a, n) = s1 \o s2 \o s3 \o s4
    BY <1>4 DEF Split
  <2>2. /\ Max({a.t, n.t}) \in Int /\ Min({a.b, n.b}) \in Int
        /\ Max({a.t, n.t}) \in {a.t, n.t} /\ Max({a.t, n.t}) >= a.t /\ Max({a.t, n.t}) >= n.t
        /\ Min({a.b, n.b}) \in {a.b, n.b} /\ Min({a.b, n.b}) <= a.b /\ Min({a.b, n.b}) <= n.b
    <3>1. \E x \in {a.t, n.t} : \A y \in {a.t, n.t} : x >= y
      BY <1>1
    <3>2. \E x \in {a.b, n.b} : \A y \in {a.b, n.b} : x <= y
      BY <1>1
    <3>3. Max({a.t, n.t}) \in {a.t, n.t} /\ Min({a.b, n.b}) \in {a.b, n.b}
      BY <3>1, <3>2 DEF Max, Min
    <3> QED
      BY <1>1, <3>3, MinMaxTwo
  <2> DEFINE u == Max({a.t, n.t})
             v == Min({a.b, n.b})
  <2>3. /\ top  = [l |-> a.l, t |-> a.t, r |-> a.r, b |-> n.t]
        /\ low  = [l |-> a.l, t |-> n.b, r |-> a.r, b |-> a.b]
        /\ left = [l |-> a.l, t |-> u, r |-> n.l, b |-> v]
        /\ rest = [l |-> n.r, t |-> u, r |-> a.r, b |-> v]
    <3>1. a = [l |-> a.l, t |-> a.t, r |-> a.r, b |-> a.b]
      BY DEF Rect
    <3>a. band = [a EXCEPT !.t = u, !.b = v]
      OBVIOUS
    <3> HIDE DEF band, u, v
    <3>2. band = [l |-> a.l, t |-> u, r |-> a.r, b |-> v]
      BY <3>a DEF Rect
    <3>3. left = [l |-> a.l, t |-> u, r |-> n.l, b |-> v] /\ rest = [l |-> n.r, t |-> u, r |-> a.r, b |-> v]
      BY ONLY <3>2 DEF left, rest
    <3>4. top = [l |-> a.l, t |-> a.t, r |-> a.r, b |-> n.t] /\ low = [l |-> a.l, t |-> n.b, r |-> a.r, b |-> a.b]
      BY ONLY <3>1 DEF top, low
    <3> QED
      BY <3>3, <3>4
  <2> HIDE DEF top, low, left, rest, u, v
  <2>4. top \in Rect /\ low \in Rect /\ left \in Rect /\ rest \in Rect
    BY <1>1, <2>2, <2>3 DEF Rect, u, v
  <2>5. /\ s1 \in Seq(Rect) /\ Cover(s1) = IF a.t < n.t THEN Area(top) ELSE {}
        /\ s2 \in Seq(Rect) /\ Cover(s2) = IF n.b < a.b THEN Area(low) ELSE {}
        /\ s3 \in Seq(Rect) /\ Cover(s3) = IF a.l < n.l THEN Area(left) ELSE {}
        /\ s4 \in Seq(Rect) /\ Cover(s4) = IF n.r < a.r THEN Area(rest) ELSE {}
    BY <2>4, CoverOne, CoverNone
  <2> HIDE DEF s1, s2, s3, s4
  <2> DEFINE s12 == s1 \o s2
             s123 == s12 \o s3
  <2>a. s12 \in Seq(Rect) /\ Cover(s12) = Cover(s1) \cup Cover(s2)
    BY <2>5, CoverConcat
  <2> HIDE DEF s12
  <2>6. s123 \in Seq(Rect) /\ Cover(s123) = Cover(s1) \cup Cover(s2) \cup Cover(s3)
    BY <2>5, <2>a, CoverConcat
  <2> HIDE DEF s123
  <2>b. s123 \o s4 \in Seq(Rect) /\ Cover(s123 \o s4) = Cover(s123) \cup Cover(s4)
    BY <2>5, <2>6, CoverConcat
  <2>7. /\ s1 \o s2 \o s3 \o s4 \in Seq(Rect)
        /\ Cover(s1 \o s2 \o s3 \o s4) = Cover(s1) \cup Cover(s2) \cup Cover(s3) \cup Cover(s4)
    BY <2>6, <2>b DEF s123, s12
  <2>8. ASSUME NEW p \in Pixels
        PROVE  (p \in Cover(s1) \/ p \in Cover(s2) \/ p \in Cover(s3) \/ p \in Cover(s4))
                 <=> p \in Area(a) /\ p \notin Area(n)
    <3> DEFINE x == p[1]
               y == p[2]
    <3>1. x \in Int /\ y \in Int
      BY <1>2
    <3>2. /\ p \in Area(a) <=> a.l <= x /\ x < a.r /\ a.t <= y /\ y < a.b
          /\ p \in Area(n) <=> n.l <= x /\ x < n.r /\ n.t <= y /\ y < n.b
          /\ p \in Area(top) <=> a.l <= x /\ x < a.r /\ a.t <= y /\ y < n.t
          /\ p \in Area(low) <=> a.l <= x /\ x < a.r /\ n.b <= y /\ y < a.b
          /\ p \in Area(left) <=> a.l <= x /\ x < n.l /\ u <= y /\ y < v
          /\ p \in Area(rest) <=> n.r <= x /\ x < a.r /\ u <= y /\ y < v
      BY <2>3 DEF Area
    <3> HIDE DEF x, y
    <3>3. /\ p \in Cover(s1) <=> a.t < n.t /\ p \in Area(top)
          /\ p \in Cover(s2) <=> n.b < a.b /\ p \in Area(low)
          /\ p \in Cover(s3) <=> a.l < n.l /\ p \in Area(left)
          /\ p \in Cover(s4) <=> n.r < a.r /\ p \in Area(rest)
      BY <2>5
    <3>4. /\ u \in Int /\ v \in Int /\ (u <= y <=> a.t <= y /\ n.t <= y)
          /\ (y < v <=> y < a.b /\ y < n.b)
      BY <1>1, <2>2, <3>1 DEF u, v
    <3> QED
      BY <1>1, <2>0, <3>1, <3>2, <3>3, <3>4
  <2>9. \A s \in Seq(Rect) : Cover(s) \subseteq Pixels
    BY DEF Cover, Area
  <2> QED
    BY <2>1, <2>5, <2>7, <2>8, <2>9 DEF Area
<1> QED
  BY <1>3, <1>4

(* m8dd_fill_outside takes one rectangle out of every part.                *)
LEMMA SplitAllFacts ==
  ASSUME NEW parts \in Seq(Rect), NEW n \in Rect
  PROVE  SplitAll(parts, n) \in Seq(Rect) /\ Cover(SplitAll(parts, n)) = Cover(parts) \ Area(n)
<1> DEFINE m == Len(parts)
<1>1. m \in Nat /\ DOMAIN parts = 1 .. m /\ \A i \in 1 .. m : parts[i] \in Rect
  OBVIOUS
<1> HIDE DEF m
<1>2. PICK f : Parting!Trace(n, << >>, parts, m, f)
  BY <1>1, Inductions, Parting!FoldTrace
<1>3. f[0] = << >> /\ f[m] = SplitAll(parts, n)
  BY <1>2, AsFolds DEF Parting!Trace
<1>b. \A i \in 0 .. m - 1 : f[i + 1] = AddPart(n, f[i], parts[i + 1])
  BY <1>2 DEF Parting!Trace
<1>4. ASSUME NEW i \in Nat, i + 1 <= m PROVE f[i + 1] = f[i] \o Split(parts[i + 1], n)
  <2>1. i \in 0 .. m - 1
    BY <1>1, <1>4
  <2>2. f[i + 1] = AddPart(n, f[i], parts[i + 1])
    BY <1>b, <2>1
  <2> QED
    BY <2>2 DEF AddPart
<1> DEFINE Upto(i) == UNION {Area(parts[j]) : j \in 1 .. i}
           S == {i \in Nat : i <= m => f[i] \in Seq(Rect) /\ Cover(f[i]) = Upto(i) \ Area(n)}
<1>5. 0 \in S
  <2>1. Upto(0) = {}
    OBVIOUS
  <2> HIDE DEF Upto
  <2> QED
    BY <1>3, <2>1, CoverNone
<1>6. ASSUME NEW i \in Nat, i \in S PROVE i + 1 \in S
  <2> SUFFICES ASSUME i + 1 <= m
               PROVE f[i + 1] \in Seq(Rect) /\ Cover(f[i + 1]) = Upto(i + 1) \ Area(n)
    OBVIOUS
  <2>1. i + 1 \in 1 .. m /\ i <= m
    BY <1>1
  <2>2. f[i] \in Seq(Rect) /\ Cover(f[i]) = Upto(i) \ Area(n) /\ parts[i + 1] \in Rect
    BY <1>1, <1>6, <2>1
  <2>3. f[i + 1] = f[i] \o Split(parts[i + 1], n)
    BY <1>4
  <2>4. Upto(i + 1) = Upto(i) \cup Area(parts[i + 1])
    <3>1. 1 .. i + 1 = (1 .. i) \cup {i + 1}
      OBVIOUS
    <3> QED
      BY <3>1
  <2> HIDE DEF Upto
  <2>5. Split(parts[i + 1], n) \in Seq(Rect) /\ Cover(Split(parts[i + 1], n)) = Area(parts[i + 1]) \ Area(n)
    BY <2>2, SplitFacts
  <2>6. f[i + 1] \in Seq(Rect) /\ Cover(f[i + 1]) = Cover(f[i]) \cup Cover(Split(parts[i + 1], n))
    BY <2>2, <2>3, <2>5, CoverConcat
  <2> QED
    BY <2>2, <2>4, <2>5, <2>6
<1>7. Upto(m) = Cover(parts)
  BY <1>1 DEF Cover
<1> HIDE DEF S, Upto
<1>8. \A i \in Nat : i \in S
  BY <1>5, <1>6, Induct
<1> QED
  BY <1>1, <1>3, <1>7, <1>8 DEF S

(* The parts m8dd_fill_outside fills (m8dd32.c:1281-1323) cover what no    *)
(* rectangle of the description covers, and nothing else.                  *)
THEOREM OutsideExact ==
  ASSUME NEW d \in Seq(Rect), NEW o \in Rect
  PROVE  Outside(d, o) \in Seq(Rect) /\ Cover(Outside(d, o)) = Area(o) \ Cover(d)
<1> DEFINE m == Len(d)
<1>1. m \in Nat /\ DOMAIN d = 1 .. m /\ \A i \in 1 .. m : d[i] \in Rect
  OBVIOUS
<1> HIDE DEF m
<1>2. PICK f : Splitting!Trace(0, <<o>>, d, m, f)
  BY <1>1, Inductions, Splitting!FoldTrace
<1>3. f[0] = <<o>> /\ f[m] = Outside(d, o)
  BY <1>2, AsFolds DEF Splitting!Trace
<1>4. \A i \in Nat : i + 1 <= m => f[i + 1] = SplitAll(f[i], d[i + 1])
  BY <1>1, <1>2, Splitting!TraceStep DEF SplitOff
<1> DEFINE Upto(i) == UNION {Area(d[j]) : j \in 1 .. i}
           S == {i \in Nat : i <= m => f[i] \in Seq(Rect) /\ Cover(f[i]) = Area(o) \ Upto(i)}
<1>5. 0 \in S
  <2>1. Upto(0) = {}
    OBVIOUS
  <2> HIDE DEF Upto
  <2> QED
    BY <1>3, <2>1, CoverOne
<1>6. ASSUME NEW i \in Nat, i \in S PROVE i + 1 \in S
  <2> SUFFICES ASSUME i + 1 <= m
               PROVE f[i + 1] \in Seq(Rect) /\ Cover(f[i + 1]) = Area(o) \ Upto(i + 1)
    OBVIOUS
  <2>1. i + 1 \in 1 .. m /\ i <= m
    BY <1>1
  <2>2. f[i] \in Seq(Rect) /\ Cover(f[i]) = Area(o) \ Upto(i) /\ d[i + 1] \in Rect
    BY <1>1, <1>6, <2>1
  <2>3. f[i + 1] = SplitAll(f[i], d[i + 1])
    BY <1>4
  <2>4. Upto(i + 1) = Upto(i) \cup Area(d[i + 1])
    <3>1. 1 .. i + 1 = (1 .. i) \cup {i + 1}
      OBVIOUS
    <3> QED
      BY <3>1
  <2> HIDE DEF Upto
  <2>5. f[i + 1] \in Seq(Rect) /\ Cover(f[i + 1]) = Cover(f[i]) \ Area(d[i + 1])
    BY ZenonT(60), <2>2, <2>3, SplitAllFacts
  <2> QED
    BY <2>2, <2>4, <2>5
<1>7. Upto(m) = Cover(d)
  BY <1>1 DEF Cover
<1> HIDE DEF S, Upto
<1>8. \A i \in Nat : i \in S
  BY <1>5, <1>6, Induct
<1> QED
  BY <1>1, <1>3, <1>7, <1>8 DEF S

-----------------------------------------------------------------------------
(* The way to the card: what Apply, Push and Flushed do to card, selection *)
(* and batch.                                                              *)

Way(c, s, b) == [card |-> c, sel |-> s, batch |-> b]

EntryType == [op : {"send", "fill", "select", "alloc", "free", "forget"},
              a : Rect, arg : Colours \cup 0 .. 2]

IsWay(d) == /\ d = Way(d.card, d.sel, d.batch)
            /\ IsCard(d.card)
            /\ d.batch \in Seq(EntryType) /\ Len(d.batch) <= BatchMax

SelAfter(s, e) == IF e.op = "select" THEN e.arg ELSE IF e.op = "free" THEN 0 ELSE s

(* One entry: only its own part changes, and what waits has no say in it.  *)
LEMMA ApplyFacts ==
  ASSUME NEW B, NEW c, IsCard(c), NEW s, NEW b, NEW e \in EntryType
  PROVE  LET w == Apply(B, Way(c, s, << >>), e) IN
         /\ w = Way(w.card, SelAfter(s, e), << >>) /\ IsCard(w.card)
         /\ Apply(B, Way(c, s, b), e) = Way(w.card, SelAfter(s, e), b)
<1> DEFINE w == Apply(B, Way(c, s, << >>), e)
<1>1. CASE e.op = "send"
  <2> DEFINE v == SendRect(c, B[s].ram, e.a, e.arg)
  <2>1. IsCard(v)
    BY SendRectType
  <2>2. \A x : Apply(B, Way(c, s, x), e) = Way(v, s, x)
    BY <1>1 DEF Apply, Way
  <2> HIDE DEF v
  <2>3. w = Way(v, s, << >>) /\ w.card = v
    BY <2>2 DEF Way
  <2> QED
    BY <1>1, <2>1, <2>2, <2>3 DEF SelAfter
<1>2. CASE e.op = "fill"
  <2> DEFINE v == IF Area(e.a) = {} THEN c ELSE Solid(c, e.a, e.arg)
  <2>1. IsCard(v)
    BY SolidType
  <2>2. \A x : Apply(B, Way(c, s, x), e) = Way(v, s, x)
    BY <1>2 DEF Apply, Way
  <2> HIDE DEF v
  <2>3. w = Way(v, s, << >>) /\ w.card = v
    BY <2>2 DEF Way
  <2> QED
    BY <1>2, <2>1, <2>2, <2>3 DEF SelAfter
<1>3. CASE e.op = "forget"
  <2> DEFINE v == Forget(c, e.a)
  <2>1. IsCard(v)
    BY ForgetFacts
  <2>2. \A x : Apply(B, Way(c, s, x), e) = Way(v, s, x)
    BY <1>3 DEF Apply, Way
  <2> HIDE DEF v
  <2>3. w = Way(v, s, << >>) /\ w.card = v
    BY <2>2 DEF Way
  <2> QED
    BY <1>3, <2>1, <2>2, <2>3 DEF SelAfter
<1>4. CASE e.op \in {"select", "alloc", "free"}
  <2>1. \A x : Apply(B, Way(c, s, x), e) = Way(c, SelAfter(s, e), x)
    BY <1>4 DEF Apply, Way, SelAfter
  <2>2. w = Way(c, SelAfter(s, e), << >>) /\ w.card = c
    BY <2>1 DEF Way
  <2> QED
    BY <2>1, <2>2
<1>5. e.op \in {"send", "fill", "select", "alloc", "free", "forget"}
  BY DEF EntryType
<1> QED
  BY <1>1, <1>2, <1>3, <1>4, <1>5

(* A row of entries.                                                       *)
LEMMA ApplyFold ==
  ASSUME NEW B, NEW c, IsCard(c), NEW s, NEW b, NEW seq \in Seq(EntryType)
  PROVE  LET w == Applying!Fold(B, Way(c, s, << >>), seq) IN
         /\ w = Way(w.card, w.sel, << >>) /\ IsCard(w.card)
         /\ Applying!Fold(B, Way(c, s, b), seq) = Way(w.card, w.sel, b)
<1> DEFINE n == Len(seq)
           base == Way(c, s, << >>)
           other == Way(c, s, b)
<1>1. n \in Nat /\ DOMAIN seq = 1 .. n /\ \A i \in 1 .. n : seq[i] \in EntryType
  OBVIOUS
<1>2. base.card = c /\ base.sel = s
  BY DEF Way
<1> HIDE DEF n, base, other
<1>3. PICK f : Applying!Trace(B, base, seq, n, f)
  BY <1>1, Inductions, Applying!FoldTrace
<1>4. PICK h : Applying!Trace(B, other, seq, n, h)
  BY <1>1, Inductions, Applying!FoldTrace
<1>5. /\ f[0] = base /\ f[n] = Applying!Fold(B, base, seq)
      /\ \A i \in 0 .. n - 1 : f[i + 1] = Apply(B, f[i], seq[i + 1])
  BY <1>3 DEF Applying!Trace
<1>6. /\ h[0] = other /\ h[n] = Applying!Fold(B, other, seq)
      /\ \A i \in 0 .. n - 1 : h[i + 1] = Apply(B, h[i], seq[i + 1])
  BY <1>4 DEF Applying!Trace
<1> DEFINE S == {i \in Nat : i <= n => /\ f[i] = Way(f[i].card, f[i].sel, << >>) /\ IsCard(f[i].card)
                                       /\ h[i] = Way(f[i].card, f[i].sel, b)}
<1>7. 0 \in S
  BY <1>2, <1>5, <1>6 DEF base, other
<1>8. ASSUME NEW i \in Nat, i \in S PROVE i + 1 \in S
  <2> SUFFICES ASSUME i + 1 <= n
               PROVE  /\ f[i + 1] = Way(f[i + 1].card, f[i + 1].sel, << >>) /\ IsCard(f[i + 1].card)
                      /\ h[i + 1] = Way(f[i + 1].card, f[i + 1].sel, b)
    OBVIOUS
  <2>1. i \in 0 .. n - 1 /\ i + 1 \in 1 .. n /\ i <= n
    BY <1>1
  <2> DEFINE e == seq[i + 1]
             v == f[i].card
             q == f[i].sel
  <2>2. e \in EntryType /\ f[i] = Way(v, q, << >>) /\ IsCard(v) /\ h[i] = Way(v, q, b)
    BY <1>1, <1>8, <2>1
  <2>3. f[i + 1] = Apply(B, f[i], e) /\ h[i + 1] = Apply(B, h[i], e)
    BY <1>5, <1>6, <2>1
  <2> HIDE DEF e, v, q
  <2> DEFINE w == Apply(B, Way(v, q, << >>), e)
  <2>4. /\ w = Way(w.card, SelAfter(q, e), << >>) /\ IsCard(w.card)
        /\ Apply(B, Way(v, q, b), e) = Way(w.card, SelAfter(q, e), b)
    BY <2>2, ApplyFacts
  <2>5. f[i + 1] = w /\ h[i + 1] = Way(w.card, SelAfter(q, e), b)
    BY <2>2, <2>3, <2>4
  <2> HIDE DEF w
  <2>6. w.sel = SelAfter(q, e)
    BY <2>4 DEF Way
  <2> QED
    BY <2>4, <2>5, <2>6
<1> HIDE DEF S
<1>9. \A i \in Nat : i \in S
  BY <1>7, <1>8, Induct
<1>10. n \in S /\ n <= n
  BY <1>1, <1>9
<1> QED
  BY <1>5, <1>6, <1>10 DEF S, base, other

(* What the card holds once all that waits is applied.                     *)
LEMMA FlushedFacts ==
  ASSUME NEW B, NEW d, IsWay(d)
  PROVE  LET w == Flushed(B, d) IN
         /\ w = Applying!Fold(B, Way(d.card, d.sel, << >>), d.batch)
         /\ w = Way(w.card, w.sel, << >>) /\ IsCard(w.card)
         /\ IsWay(w) /\ w.batch = << >>
<1> DEFINE w == Flushed(B, d)
           x == Applying!Fold(B, Way(d.card, d.sel, << >>), d.batch)
<1>1. /\ IsCard(d.card) /\ d.batch \in Seq(EntryType) /\ d = Way(d.card, d.sel, d.batch)
  BY DEF IsWay
<1>2. /\ x = Way(x.card, x.sel, << >>) /\ IsCard(x.card)
      /\ Applying!Fold(B, Way(d.card, d.sel, d.batch), d.batch) = Way(x.card, x.sel, d.batch)
  BY <1>1, ApplyFold
<1>3. w = [Applying!Fold(B, d, d.batch) EXCEPT !.batch = << >>]
  BY AsFolds
<1> HIDE DEF w, x
<1>4. w = [Way(x.card, x.sel, d.batch) EXCEPT !.batch = << >>]
  BY <1>1, <1>2, <1>3
<1>5. w = Way(x.card, x.sel, << >>)
  BY <1>4 DEF Way
<1>6. w = x /\ w.batch = << >>
  BY <1>2, <1>5 DEF Way
<1>7. << >> \in Seq(EntryType) /\ Len(<< >>) <= BatchMax
  BY BufferAssumption
<1>8. IsWay(w)
  BY <1>2, <1>6, <1>7 DEF IsWay
<1> QED
  BY <1>2, <1>6, <1>8 DEF w, x

(* An entry pushed comes after all that waited, however full the batch.    *)
LEMMA FlushPush ==
  ASSUME NEW B, NEW d, IsWay(d), NEW e \in EntryType
  PROVE  /\ IsWay(Push(B, d, e))
         /\ Flushed(B, Push(B, d, e)) = Apply(B, Flushed(B, d), e)
<1> DEFINE p == Push(B, d, e)
           w == Flushed(B, d)
<1>1. /\ w = Applying!Fold(B, Way(d.card, d.sel, << >>), d.batch)
      /\ w = Way(w.card, w.sel, << >>) /\ IsCard(w.card)
  BY FlushedFacts
<1>2. /\ IsCard(d.card) /\ d.batch \in Seq(EntryType) /\ d = Way(d.card, d.sel, d.batch)
      /\ Len(d.batch) <= BatchMax
  BY DEF IsWay
<1> HIDE DEF w
<1>3. CASE Len(d.batch) = BatchMax
  <2>1. p = [w EXCEPT !.batch = <<e>>]
    BY <1>3 DEF Push, w
  <2>2. p = Way(w.card, w.sel, <<e>>)
    <3>1. p = [Way(w.card, w.sel, << >>) EXCEPT !.batch = <<e>>]
      BY <1>1, <2>1
    <3> QED
      BY <3>1 DEF Way
  <2> HIDE DEF p
  <2>3. p.card = w.card /\ p.sel = w.sel /\ p.batch = <<e>>
    BY <2>2 DEF Way
  <2>4. <<e>> \in Seq(EntryType) /\ Len(<<e>>) <= BatchMax
    BY BufferAssumption
  <2>5. IsWay(p)
    BY <1>1, <2>2, <2>3, <2>4 DEF IsWay
  <2>6. Flushed(B, p) = Applying!Fold(B, Way(w.card, w.sel, << >>), <<e>>)
    BY <2>3, <2>5, FlushedFacts
  <2>7. Flushed(B, p) = Apply(B, Way(w.card, w.sel, << >>), e)
    BY <2>6, Inductions, Applying!FoldOne
  <2> QED
    BY <1>1, <2>5, <2>7 DEF p, w
<1>4. CASE Len(d.batch) # BatchMax
  <2> DEFINE more == Append(d.batch, e)
  <2>1. p = [d EXCEPT !.batch = more]
    BY <1>4 DEF Push
  <2>2. more \in Seq(EntryType) /\ Len(more) <= BatchMax
    BY <1>2, <1>4, BufferAssumption
  <2>3. Applying!Fold(B, Way(d.card, d.sel, << >>), more)
          = Apply(B, Applying!Fold(B, Way(d.card, d.sel, << >>), d.batch), e)
    BY <1>2, Inductions, Applying!FoldAppend
  <2> HIDE DEF more
  <2>4. p = Way(d.card, d.sel, more)
    <3>1. p = [Way(d.card, d.sel, d.batch) EXCEPT !.batch = more]
      BY <1>2, <2>1
    <3> QED
      BY <3>1 DEF Way
  <2> HIDE DEF p
  <2>5. p.card = d.card /\ p.sel = d.sel /\ p.batch = more
    BY <2>4 DEF Way
  <2>6. IsWay(p)
    BY <1>2, <2>2, <2>4, <2>5 DEF IsWay
  <2>7. Flushed(B, p) = Applying!Fold(B, Way(d.card, d.sel, << >>), more)
    BY <2>5, <2>6, FlushedFacts
  <2> QED
    BY <1>1, <2>3, <2>6, <2>7 DEF p, w
<1> QED
  BY <1>3, <1>4

(* Entries pushed and flushed go to the card one after another, after all  *)
(* that waited: what m8dd_op's batch holds, and how often it is full on    *)
(* the way, makes no difference (m8dd32.c:622 m8dd_flush, :641 m8dd_op).       *)
THEOREM BatchExact ==
  ASSUME NEW B, NEW d, IsWay(d), NEW list \in Seq(EntryType)
  PROVE  /\ IsWay(PushAll(B, d, list))
         /\ Flushed(B, PushAll(B, d, list)) = Applying!Fold(B, Flushed(B, d), list)
<1> DEFINE n == Len(list)
           w == Flushed(B, d)
<1>1. n \in Nat /\ DOMAIN list = 1 .. n /\ \A i \in 1 .. n : list[i] \in EntryType
  OBVIOUS
<1> HIDE DEF n, w
<1>2. PICK f : Pushing!Trace(B, d, list, n, f)
  BY <1>1, Inductions, Pushing!FoldTrace
<1>3. PICK g : Applying!Trace(B, w, list, n, g)
  BY <1>1, Inductions, Applying!FoldTrace
<1>4. /\ f[0] = d /\ f[n] = PushAll(B, d, list)
      /\ \A i \in 0 .. n - 1 : f[i + 1] = Push(B, f[i], list[i + 1])
  BY <1>2, AsFolds DEF Pushing!Trace
<1>5. /\ g[0] = w /\ g[n] = Applying!Fold(B, w, list)
      /\ \A i \in 0 .. n - 1 : g[i + 1] = Apply(B, g[i], list[i + 1])
  BY <1>3 DEF Applying!Trace
<1> DEFINE S == {i \in Nat : i <= n => IsWay(f[i]) /\ Flushed(B, f[i]) = g[i]}
<1>6. 0 \in S
  BY <1>4, <1>5 DEF w
<1>7. ASSUME NEW i \in Nat, i \in S PROVE i + 1 \in S
  <2> SUFFICES ASSUME i + 1 <= n PROVE IsWay(f[i + 1]) /\ Flushed(B, f[i + 1]) = g[i + 1]
    OBVIOUS
  <2>1. i \in 0 .. n - 1 /\ i + 1 \in 1 .. n /\ i <= n
    BY <1>1
  <2>2. list[i + 1] \in EntryType /\ IsWay(f[i]) /\ Flushed(B, f[i]) = g[i]
    BY <1>1, <1>7, <2>1
  <2>3. f[i + 1] = Push(B, f[i], list[i + 1]) /\ g[i + 1] = Apply(B, g[i], list[i + 1])
    BY <1>4, <1>5, <2>1
  <2> QED
    BY <2>2, <2>3, FlushPush
<1> HIDE DEF S
<1>8. \A i \in Nat : i \in S
  BY <1>6, <1>7, Induct
<1>9. n \in S /\ n <= n
  BY <1>1, <1>8
<1> QED
  BY <1>4, <1>5, <1>9 DEF S, w

(* A row that does not select leaves the selection.                        *)
LEMMA FoldQuiet ==
  ASSUME NEW B, NEW c, IsCard(c), NEW s, NEW seq \in Seq(EntryType),
         \A i \in DOMAIN seq : seq[i].op \notin {"select", "free"}
  PROVE  Applying!Fold(B, Way(c, s, << >>), seq).sel = s
<1> DEFINE n == Len(seq)
           base == Way(c, s, << >>)
<1>1. n \in Nat /\ DOMAIN seq = 1 .. n
      /\ \A i \in 1 .. n : seq[i] \in EntryType /\ seq[i].op \notin {"select", "free"}
  OBVIOUS
<1>2. base.card = c /\ base.sel = s
  BY DEF Way
<1> HIDE DEF n, base
<1>3. PICK f : Applying!Trace(B, base, seq, n, f)
  BY <1>1, Inductions, Applying!FoldTrace
<1>4. /\ f[0] = base /\ f[n] = Applying!Fold(B, base, seq)
      /\ \A i \in 0 .. n - 1 : f[i + 1] = Apply(B, f[i], seq[i + 1])
  BY <1>3 DEF Applying!Trace
<1> DEFINE S == {i \in Nat : i <= n => f[i] = Way(f[i].card, s, << >>) /\ IsCard(f[i].card)}
<1>5. 0 \in S
  BY <1>2, <1>4 DEF base
<1>6. ASSUME NEW i \in Nat, i \in S PROVE i + 1 \in S
  <2> SUFFICES ASSUME i + 1 <= n
               PROVE  f[i + 1] = Way(f[i + 1].card, s, << >>) /\ IsCard(f[i + 1].card)
    OBVIOUS
  <2>1. i \in 0 .. n - 1 /\ i + 1 \in 1 .. n /\ i <= n
    BY <1>1
  <2> DEFINE e == seq[i + 1]
             v == f[i].card
  <2>2. e \in EntryType /\ e.op \notin {"select", "free"} /\ f[i] = Way(v, s, << >>) /\ IsCard(v)
    BY <1>1, <1>6, <2>1
  <2>3. f[i + 1] = Apply(B, f[i], e)
    BY <1>4, <2>1
  <2> HIDE DEF e, v
  <2> DEFINE w == Apply(B, Way(v, s, << >>), e)
  <2>4. w = Way(w.card, SelAfter(s, e), << >>) /\ IsCard(w.card)
    BY <2>2, ApplyFacts
  <2> HIDE DEF w
  <2>5. SelAfter(s, e) = s
    BY <2>2 DEF SelAfter
  <2> QED
    BY <2>2, <2>3, <2>4, <2>5 DEF w
<1> HIDE DEF S
<1>7. \A i \in Nat : i \in S
  BY <1>5, <1>6, Induct
<1>8. n \in S /\ n <= n
  BY <1>1, <1>7
<1>9. f[n] = Way(f[n].card, s, << >>)
  BY <1>8 DEF S
<1>10. f[n].sel = s
  BY <1>9 DEF Way
<1> QED
  BY <1>4, <1>10 DEF base

(* The last selection of a row holds.                                      *)
LEMMA LastSelects ==
  ASSUME NEW B, NEW c, IsCard(c), NEW s, NEW pre \in Seq(EntryType), NEW e \in EntryType,
         e.op \in {"select", "free"}, NEW rest \in Seq(EntryType),
         \A i \in DOMAIN rest : rest[i].op \notin {"select", "free"}
  PROVE  Applying!Fold(B, Way(c, s, << >>), pre \o <<e>> \o rest).sel = SelAfter(s, e)
<1> DEFINE one == <<e>>
           head == pre \o one
<1>1. one \in Seq(EntryType) /\ head \in Seq(EntryType)
  OBVIOUS
<1> HIDE DEF one
<1> DEFINE x == Applying!Fold(B, Way(c, s, << >>), pre)
<1>2. x = Way(x.card, x.sel, << >>) /\ IsCard(x.card)
  BY ApplyFold
<1> HIDE DEF x
<1>3. Applying!Fold(B, Way(c, s, << >>), head) = Applying!Fold(B, x, one)
  BY <1>1, Inductions, Applying!FoldConcat DEF x
<1>4. Applying!Fold(B, x, one) = Apply(B, x, e)
  BY Inductions, Applying!FoldOne DEF one
<1> DEFINE y == Apply(B, x, e)
<1>5. y = Way(y.card, SelAfter(x.sel, e), << >>) /\ IsCard(y.card)
  BY <1>2, ApplyFacts
<1> HIDE DEF y, head
<1>6. Applying!Fold(B, Way(c, s, << >>), head \o rest) = Applying!Fold(B, y, rest)
  BY <1>1, <1>3, <1>4, Inductions, Applying!FoldConcat DEF y
<1>7. Applying!Fold(B, y, rest).sel = SelAfter(x.sel, e)
  BY <1>5, FoldQuiet
<1>8. SelAfter(x.sel, e) = SelAfter(s, e)
  BY DEF SelAfter
<1> QED
  BY <1>6, <1>7, <1>8 DEF head, one

-----------------------------------------------------------------------------
(* The card, what is selected and what waits.                              *)

CardInv ==
  /\ IsCard(card) /\ sel \in 0 .. 1
  /\ \/ batch = << >> /\ sel = front
     \/ batch = <<Entry("select", Screen, front)>>

SeenType == [known : BOOLEAN, colour : Colours, d : Seq(Rect)]

BookTypes ==
  /\ seen \in SeenType /\ drawn \in Seq(Tris) /\ box \in [0 .. 1 -> Seq(Rect)]
  /\ held \in [1 .. HeldMax -> Rect \cup {NoRect}]
  /\ page \in 0 .. 1 /\ direct \in {"no", "yes", "unset"}

BookFlags ==
  /\ fpStale \in BOOLEAN /\ gdi \in BOOLEAN /\ context \in BOOLEAN
  /\ paged \in BOOLEAN /\ lapse \in BOOLEAN

BookInv == BookTypes /\ BookFlags

(* Entries of the screen, whatever they are told.                          *)
LEMMA EntryFacts ==
  ASSUME NEW op \in {"send", "fill", "select", "alloc", "free", "forget"}, NEW a \in Rect,
         NEW arg \in Colours \cup 0 .. 2
  PROVE  /\ Entry(op, a, arg) \in EntryType /\ Entry(op, a, arg).op = op
         /\ Entry(op, a, arg).a = a /\ Entry(op, a, arg).arg = arg
  BY DEF Entry, EntryType

(* What waits is a way, and once it is flushed the shown buffer is         *)
(* selected.                                                               *)
LEMMA WayFacts ==
  ASSUME CardInv, front \in 0 .. 1
  PROVE  /\ D0 = Way(card, sel, batch) /\ IsWay(D0)
         /\ \A B : Flushed(B, D0).sel = front
<1>1. /\ D0 = Way(card, sel, batch) /\ D0.card = card /\ D0.sel = sel /\ D0.batch = batch
      /\ IsCard(card)
  BY DEF D0, Way, CardInv
<1> DEFINE e == Entry("select", Screen, front)
<1>2. e \in EntryType /\ e.op = "select" /\ e.arg = front
  BY EntryFacts, ScreenFacts
<1> HIDE DEF e
<1>3. << >> \in Seq(EntryType) /\ <<e>> \in Seq(EntryType) /\ Len(<< >>) = 0 /\ Len(<<e>>) = 1
  BY <1>2
<1>4. batch \in Seq(EntryType) /\ Len(batch) <= BatchMax
  <2>1. BatchMax \in Nat /\ BatchMax >= 1
    BY BufferAssumption
  <2>2. batch = << >> \/ batch = <<e>>
    BY DEF CardInv, e
  <2>3. CASE batch = << >>
    BY ONLY <1>3, <2>1, <2>3
  <2>4. CASE batch = <<e>>
    BY ONLY <1>3, <2>1, <2>4
  <2> QED
    BY <2>2, <2>3, <2>4
<1>5. IsWay(D0)
  BY <1>1, <1>4 DEF IsWay
<1>6. ASSUME NEW B PROVE Flushed(B, D0).sel = front
  <2>1. Flushed(B, D0) = Applying!Fold(B, Way(card, sel, << >>), batch)
    BY <1>1, <1>5, FlushedFacts
  <2>2. CASE batch = << >> /\ sel = front
    <3>1. Flushed(B, D0) = Way(card, sel, << >>)
      BY <2>1, <2>2, Inductions, Applying!FoldEmpty
    <3> QED
      BY <2>2, <3>1 DEF Way
  <2>3. CASE batch = <<e>>
    <3>1. Flushed(B, D0) = Apply(B, Way(card, sel, << >>), e)
      BY <2>1, <2>3, Inductions, Applying!FoldOne
    <3> DEFINE w == Apply(B, Way(card, sel, << >>), e)
    <3>2. w = Way(w.card, SelAfter(sel, e), << >>)
      BY <1>1, <1>2, ApplyFacts
    <3> HIDE DEF w
    <3>3. w.sel = SelAfter(sel, e)
      BY <3>2 DEF Way
    <3> QED
      BY <1>2, <3>1, <3>3 DEF w, SelAfter
  <2> QED
    BY <2>2, <2>3 DEF CardInv, e
<1> QED
  BY <1>1, <1>5, <1>6

(* m8dd_flip16_fast's selection: the only entry that waits.                *)
LEMMA SelectFacts ==
  ASSUME CardInv, front \in 0 .. 1, NEW k \in 0 .. 1
  PROVE  Select(k) = Way(card, sel, <<Entry("select", Screen, k)>>)
<1> DEFINE e == Entry("select", Screen, front)
<1>1. D0 = Way(card, sel, batch) /\ D0.batch = batch
  BY DEF D0, Way
<1>2. e.op = "select" /\ [e EXCEPT !.arg = k] = Entry("select", Screen, k)
  BY DEF Entry
<1> HIDE DEF e
<1>3. CASE batch = << >>
  <2>1. Len(batch) = 0 /\ Len(batch) # BatchMax
    BY <1>3, BufferAssumption
  <2>2. Select(k) = [D0 EXCEPT !.batch = Append(batch, Entry("select", Screen, k))]
    BY <1>1, <2>1 DEF Select, Push
  <2>3. Append(batch, Entry("select", Screen, k)) = <<Entry("select", Screen, k)>>
    BY <1>3
  <2> QED
    BY <2>2, <2>3 DEF D0, Way
<1>4. CASE batch = <<e>>
  <2>1. Len(batch) = 1 /\ batch[1] = e /\ batch[Len(batch)].op = "select"
    BY <1>2, <1>4
  <2>2. Select(k) = [D0 EXCEPT !.batch[1].arg = k]
    BY <1>1, <2>1 DEF Select
  <2>3. [batch EXCEPT ![1].arg = k] = <<[e EXCEPT !.arg = k]>>
    BY <1>4
  <2>4. [D0 EXCEPT !.batch[1].arg = k] = [D0 EXCEPT !.batch = [batch EXCEPT ![1].arg = k]]
    BY <1>1 DEF D0
  <2> QED
    BY <1>2, <2>2, <2>3, <2>4 DEF D0, Way
<1> QED
  BY <1>3, <1>4 DEF CardInv, e

(* m8d3d_replay draws on the page's pixels and no others.                  *)
LEMMA ReplayType ==
  ASSUME NEW px, NEW erase, NEW tris \in Seq(Tris)
  PROVE  DOMAIN Replay(px, erase, tris) = Pixels
<1> DEFINE n == Len(tris)
           base == [p \in Pixels |-> IF p \in Cover(erase) THEN Shown(p, Black) ELSE px[p]]
<1>1. n \in Nat /\ DOMAIN tris = 1 .. n /\ DOMAIN base = Pixels
  OBVIOUS
<1> HIDE DEF n
<1>2. PICK f : Replaying!Trace(0, base, tris, n, f)
  BY <1>1, Inductions, Replaying!FoldTrace
<1>3. f[0] = base /\ f[n] = Replay(px, erase, tris)
      /\ \A i \in 0 .. n - 1 : f[i + 1] = Replayed(0, f[i], tris[i + 1])
  BY <1>2, AsFolds DEF Replaying!Trace
<1> HIDE DEF base
<1> DEFINE S == {i \in Nat : i <= n => DOMAIN f[i] = Pixels}
<1>4. 0 \in S
  BY <1>1, <1>3
<1>5. ASSUME NEW i \in Nat, i \in S PROVE i + 1 \in S
  <2> SUFFICES ASSUME i + 1 <= n PROVE DOMAIN f[i + 1] = Pixels
    OBVIOUS
  <2>1. i \in 0 .. n - 1
    BY <1>1
  <2> QED
    BY <1>3, <2>1 DEF Replayed
<1> HIDE DEF S
<1>6. \A i \in Nat : i \in S
  BY <1>4, <1>5, Induct
<1>7. n \in S /\ n <= n
  BY <1>1, <1>6
<1> QED
  BY <1>3, <1>7 DEF S

(* What the engine leaves of a frame, drawn or given up on.                *)
LEMMA Drew ==
  ASSUME NEW px, NEW erase, NEW tris, NEW o \in Replays(px, erase, tris)
  PROVE  /\ o = [px |-> o.px, ok |-> o.ok] /\ o.ok \in BOOLEAN
         /\ o.ok => context /\ o.px = Replay(px, erase, tris)
         /\ ~context => o.px = px
         /\ context /\ ~EngineFails => o.ok
<1>1. CASE o = [px |-> px, ok |-> FALSE] /\ ~context
  BY <1>1
<1>2. CASE context /\ o = [px |-> Replay(px, erase, tris), ok |-> TRUE]
  BY <1>2
<1>3. CASE /\ context /\ EngineFails
           /\ \E x : o = [px |-> x, ok |-> FALSE]
  BY <1>3
<1> QED
  BY <1>1, <1>2, <1>3 DEF Replays, Parts

LEMMA DrewType ==
  ASSUME NEW px, NEW erase, NEW tris \in Seq(Tris), NEW o \in Replays(px, erase, tris),
         DOMAIN px = Pixels
  PROVE  DOMAIN o.px = Pixels
<1>1. CASE o.px = px
  BY <1>1
<1>2. CASE o.px = Replay(px, erase, tris)
  BY <1>2, ReplayType
<1>3. CASE \E n \in Parts(erase, tris) :
             o.px = Replay(px, SubSeq(erase, 1, n[1]), SubSeq(tris, 1, n[2]))
  <2>1. PICK n \in Parts(erase, tris) :
               o.px = Replay(px, SubSeq(erase, 1, n[1]), SubSeq(tris, 1, n[2]))
    BY <1>3
  <2>2. n[2] \in 0 .. Len(tris)
    BY <2>1 DEF Parts
  <2>3. SubSeq(tris, 1, n[2]) \in Seq(Tris)
    BY <2>2
  <2> QED
    BY <2>1, <2>3, ReplayType
<1> QED
  BY <1>1, <1>2, <1>3 DEF Replays

LEMMA DrewAtop ==
  ASSUME NEW px, NEW tris \in Seq(Tris), NEW o \in Atop(px, tris)
  PROVE  /\ o = [px |-> o.px, ok |-> o.ok] /\ o.ok \in BOOLEAN
         /\ DOMAIN px = Pixels => DOMAIN o.px = Pixels
         /\ tris = << >> => o.ok /\ o.px = px
         /\ tris # << >> => o \in Replays(px, << >>, tris)
<1>1. CASE tris = << >>
  <2>1. o = [px |-> px, ok |-> TRUE]
    BY <1>1 DEF Atop
  <2> QED
    BY ONLY <1>1, <2>1
<1>2. CASE tris # << >>
  <2>1. o \in Replays(px, << >>, tris)
    BY <1>2 DEF Atop
  <2>2. o = [px |-> o.px, ok |-> o.ok] /\ o.ok \in BOOLEAN
    BY <2>1, Drew
  <2>3. DOMAIN px = Pixels => DOMAIN o.px = Pixels
    BY <2>1, DrewType
  <2> QED
    BY <1>2, <2>1, <2>2, <2>3
<1> QED
  BY <1>1, <1>2

(* m8dd_diff_row's rectangles are finitely many.                           *)
LEMMA DiffFinite ==
  ASSUME NEW old, NEW new
  PROVE  IsFiniteSet(DiffRects(old, new))
<1> DEFINE Diff    == {p \in Pixels : old[p] # new[p]}
           Rows    == {p[2] : p \in Diff}
           Runs    == {w \in Rows \X Rows : /\ w[1] .. w[2] \subseteq Rows /\ w[1] <= w[2]
                                            /\ w[1] - 1 \notin Rows /\ w[2] + 1 \notin Rows}
           Cols(w) == {p[1] : p \in {q \in Diff : q[2] \in w[1] .. w[2]}}
           Put     == [w \in Runs |-> [l |-> Min(Cols(w)), t |-> w[1],
                                       r |-> Max(Cols(w)) + 1, b |-> w[2] + 1]]
           All     == DiffRects(old, new)
<1>1. All = {Put[w] : w \in Runs}
  BY DEF DiffRects
<1>2. \A p \in Pixels : p[2] \in 0 .. Height - 1
  BY DEF Pixels
<1>3. IsFiniteSet(0 .. Height - 1)
  BY FS_Interval, GeometryAssumption
<1>4. IsFiniteSet(Rows)
  <2>1. Rows \in SUBSET (0 .. Height - 1)
    BY <1>2
  <2> QED
    BY <1>3, <2>1, FS_Subset
<1> HIDE DEF Rows
<1>5. IsFiniteSet(Runs)
  <2>1. IsFiniteSet(Rows \X Rows) /\ Runs \in SUBSET (Rows \X Rows)
    BY <1>4, FS_Product
  <2> QED
    BY <2>1, FS_Subset
<1>6. DOMAIN Put = Runs
  OBVIOUS
<1> HIDE DEF Runs, Put, All
<1>a. Put = [w \in Runs |-> Put[w]]
  BY <1>6 DEF Put
<1>7. Put \in [Runs -> All]
  BY <1>1, <1>a
<1>8. Put \in Surjection(Runs, All)
  BY <1>1, <1>7 DEF Surjection
<1> QED
  BY <1>5, <1>8, FS_Surjection DEF All

(* What a Blt sends leaves a card.                                         *)
LEMMA SendNowType ==
  ASSUME CardInv, NEW B, NEW a, NEW solid, SendNow(B, a, solid)
  PROVE  IsCard(card')
  BY SendRectType DEF SendNow, CardInv

(* m8dd_copied leaves a card.                                              *)
LEMMA CopyNowType ==
  ASSUME CardInv, NEW B, NEW a, NEW m, CopyNow(B, a, m)
  PROVE  IsCard(card')
<1> DEFINE x == [card EXCEPT !.px = [p \in Pixels |->
                   IF p \in Area(a) THEN @[<<p[1] + m[1], p[2] + m[2]>>] ELSE @[p]]]
<1>1. IsCard(card)
  BY DEF CardInv
<1>2. IsCard(x)
  BY <1>1 DEF IsCard
<1> HIDE DEF x
<1>3. IsCard(Forget(x, a))
  BY <1>2, ForgetFacts
<1>4. IsCard(CardCopy(card, a, m[1], m[2]))
  BY <1>3 DEF CardCopy, x
<1>5. IsCard(Flush(card, B[sel].ram, a))
  BY <1>1, FlushTypeFacts
<1> QED
  BY <1>1, <1>4, <1>5 DEF CopyNow

(* Sending what differs leaves a card.                                     *)
LEMMA SendDiffType ==
  ASSUME CardInv, NEW B, NEW old, NEW new, SendDiff(B, old, new)
  PROVE  IsCard(card')
<1> DEFINE mem == B[sel].ram
           seq == SetToSeq(DiffRects(old, new))
           n   == Cardinality(DiffRects(old, new))
<1>1. n \in Nat /\ DOMAIN seq = 1 .. n
  BY DiffFinite, SeqOfSet
<1>2. card' = Sending!Fold(mem, card, seq)
  BY DEF SendDiff, Sending!Fold, SendExact, FoldLeft,
         MapThenFoldSet, Max, Sending!Last
<1> HIDE DEF mem, seq, n
<1>3. PICK f : Sending!Trace(mem, card, seq, n, f)
  BY <1>1, Inductions, Sending!FoldTrace
<1>4. f[0] = card /\ f[n] = card'
      /\ \A i \in 0 .. n - 1 : f[i + 1] = SendRect(f[i], mem, seq[i + 1], Exact)
  BY <1>2, <1>3 DEF Sending!Trace, SendExact
<1> DEFINE S == {i \in Nat : i <= n => IsCard(f[i])}
<1>5. 0 \in S
  BY <1>4 DEF CardInv
<1>6. ASSUME NEW i \in Nat, i \in S PROVE i + 1 \in S
  <2> SUFFICES ASSUME i + 1 <= n PROVE IsCard(f[i + 1])
    OBVIOUS
  <2>1. i \in 0 .. n - 1 /\ i <= n
    BY <1>1
  <2>2. IsCard(f[i])
    BY <1>6, <2>1
  <2> QED
    BY <1>4, <2>1, <2>2, SendRectType
<1> HIDE DEF S
<1>7. \A i \in Nat : i \in S
  BY <1>5, <1>6, Induct
<1>8. n \in S /\ n <= n
  BY <1>1, <1>7
<1> QED
  BY <1>4, <1>8 DEF S

-----------------------------------------------------------------------------
(* The entries of a Flip.                                                  *)

Quiet == {e \in EntryType : e.op \notin {"select", "free"}}

(* Fills, sends and replays do not select.                                 *)
LEMMA QuietSeq ==
  ASSUME NEW s \in Seq(Quiet)
  PROVE  s \in Seq(EntryType) /\ \A i \in DOMAIN s : s[i].op \notin {"select", "free"}
<1>1. s \in [1 .. Len(s) -> Quiet] /\ Len(s) \in Nat /\ DOMAIN s = 1 .. Len(s)
  OBVIOUS
<1>2. \A i \in 1 .. Len(s) : s[i] \in EntryType /\ s[i].op \notin {"select", "free"}
  BY <1>1 DEF Quiet
<1>3. s \in [1 .. Len(s) -> EntryType]
  BY <1>1, <1>2
<1> QED
  BY <1>1, <1>2, <1>3

(* One entry for each rectangle of a list.                                 *)
LEMMA EntriesOf ==
  ASSUME NEW op \in {"send", "fill", "forget"}, NEW d \in Seq(Rect), NEW arg \in Colours \cup 0 .. 2
  PROVE  [i \in DOMAIN d |-> Entry(op, d[i], arg)] \in Seq(Quiet)
<1> DEFINE n == Len(d)
           s == [i \in 1 .. n |-> Entry(op, d[i], arg)]
<1>1. n \in Nat /\ DOMAIN d = 1 .. n /\ \A i \in 1 .. n : d[i] \in Rect
  OBVIOUS
<1>2. \A i \in 1 .. n : Entry(op, d[i], arg) \in EntryType /\ Entry(op, d[i], arg).op = op
  BY <1>1, EntryFacts
<1>3. \A i \in 1 .. n : Entry(op, d[i], arg) \in Quiet
  BY <1>2 DEF Quiet
<1>4. s \in [1 .. n -> Quiet]
  BY <1>3
<1> QED
  BY <1>1, <1>4

(* What Flip erases with are entries that do not select.                   *)
LEMMA FillsType ==
  ASSUME NEW t, Fits(t), seen.d \in Seq(Rect), box[0] \in Seq(Rect)
  PROVE  Fills(t) \in Seq(Quiet)
<1> DEFINE n == Len(Erase)
<1>1. Erase \in Seq(Rect)
  BY DEF Erase
<1>2. n \in Nat /\ DOMAIN Erase = 1 .. n /\ \A i \in 1 .. n : Erase[i] \in Rect
  BY <1>1
<1>3. t.d \in Seq(Rect) /\ t.colour \in Colours
  BY DEF Fits, BufType
<1>4. ASSUME NEW list \in Seq(Quiet), NEW i \in 1 .. n
      PROVE  AddFills(t, list, Erase[i]) \in Seq(Quiet)
  <2>1. Outside(t.d, Erase[i]) \in Seq(Rect)
    BY <1>2, <1>3, OutsideExact
  <2>2. Filled(Outside(t.d, Erase[i]), t.colour) \in Seq(Quiet)
    BY <1>3, <2>1, EntriesOf DEF Filled
  <2> QED
    BY <2>2 DEF AddFills
<1>5. << >> \in Seq(Quiet)
  OBVIOUS
<1> HIDE DEF n
<1>6. Filling!Fold(t, << >>, Erase) \in Seq(Quiet)
  BY <1>2, <1>4, <1>5, Inductions, Filling!FoldKeeps
<1> QED
  BY <1>6, AsFolds

(* The slow flip selects the hidden buffer, once.                          *)
LEMMA FlipEntries ==
  ASSUME NEW k \in 0 .. 1, Fits(buf[k]), seen.d \in Seq(Rect), box[0] \in Seq(Rect),
         NEW trusted \in BOOLEAN
  PROVE  \E pre \in Seq(EntryType), rest \in Seq(Quiet) :
            Entries(k, trusted) = pre \o <<Entry("select", Screen, k)>> \o rest
<1> DEFINE t    == buf[k]
           pre  == IF fpStale THEN <<Entry("forget", Screen, 0)>> ELSE << >>
           all  == <<Entry("send", Screen, 0)>>
           back == IF trusted THEN Fills(t) ELSE <<Entry("fill", Screen, t.colour)>>
           puts == [i \in DOMAIN t.d |-> Entry("send", t.d[i], 0)]
           rest == IF ~t.known THEN all ELSE back \o puts
<1>1. t.d \in Seq(Rect) /\ t.colour \in Colours
  BY DEF Fits, BufType
<1>2. pre \in Seq(EntryType)
  BY EntryFacts, ScreenFacts
<1>3. all \in Seq(Quiet)
  <2>1. Entry("send", Screen, 0) \in Quiet
    BY EntryFacts, ScreenFacts DEF Quiet
  <2> QED
    BY <2>1
<1>4. back \in Seq(Quiet)
  <2>1. Entry("fill", Screen, t.colour) \in Quiet
    BY <1>1, EntryFacts, ScreenFacts DEF Quiet
  <2> QED
    BY <2>1, FillsType
<1>5. puts \in Seq(Quiet)
  <2> DEFINE td == t.d
  <2>1. td \in Seq(Rect)
    BY <1>1
  <2> HIDE DEF td
  <2>2. [i \in DOMAIN td |-> Entry("send", td[i], 0)] \in Seq(Quiet)
    BY ONLY <2>1, EntriesOf
  <2> QED
    BY <2>2 DEF td
<1>6. Entries(k, trusted) = pre \o <<Entry("select", Screen, k)>> \o rest
  BY DEF Entries
<1> HIDE DEF pre, all, back, puts
<1>7. rest \in Seq(Quiet)
  BY <1>3, <1>4, <1>5
<1> QED
  BY <1>2, <1>6, <1>7

-----------------------------------------------------------------------------
(* What each step does to card, selection and batch.                       *)

(* The entries pushed, and flushed, after what waited: the last selection  *)
(* among them is the selection.                                            *)
LEMMA FlushedSelects ==
  ASSUME CardInv, front \in 0 .. 1, NEW B, NEW pre \in Seq(EntryType), NEW e \in EntryType,
         e.op \in {"select", "free"}, NEW rest \in Seq(Quiet)
  PROVE  LET w == Flushed(B, PushAll(B, D0, pre \o <<e>> \o rest)) IN
         w = Way(w.card, SelAfter(0, e), << >>) /\ IsCard(w.card)
<1> DEFINE list == pre \o <<e>> \o rest
           w == Flushed(B, PushAll(B, D0, list))
           x == Flushed(B, D0)
<1>1. rest \in Seq(EntryType) /\ \A i \in DOMAIN rest : rest[i].op \notin {"select", "free"}
  BY QuietSeq
<1>2. list \in Seq(EntryType)
  BY <1>1
<1>3. x = Way(x.card, x.sel, << >>) /\ IsCard(x.card)
  BY WayFacts, FlushedFacts
<1>4. Applying!Fold(B, Way(x.card, x.sel, << >>), list).sel = SelAfter(x.sel, e)
  BY <1>1, <1>3, LastSelects
<1>5. SelAfter(x.sel, e) = SelAfter(0, e)
  BY DEF SelAfter
<1> HIDE DEF list, x
<1>6. IsWay(PushAll(B, D0, list)) /\ w = Applying!Fold(B, x, list)
  BY <1>2, WayFacts, BatchExact DEF x
<1>7. w = Way(w.card, w.sel, << >>) /\ IsCard(w.card)
  BY <1>6, FlushedFacts
<1>8. w.sel = SelAfter(0, e)
  BY <1>3, <1>4, <1>5, <1>6
<1> QED
  BY <1>7, <1>8 DEF list

(* Drawing on the card past the driver leaves a card.                      *)
LEMMA PxType ==
  ASSUME NEW c, IsCard(c), NEW s, NEW b, NEW img, DOMAIN img = Pixels
  PROVE  LET w == [Way(c, s, b) EXCEPT !.card.px = img] IN
         w = Way(w.card, s, b) /\ IsCard(w.card)
<1> DEFINE v == [c EXCEPT !.px = img]
<1>1. IsCard(v)
  BY DEF IsCard
<1>2. [Way(c, s, b) EXCEPT !.card.px = img] = Way(v, s, b)
  BY DEF Way
<1> HIDE DEF v
<1> QED
  BY <1>1, <1>2 DEF Way

(* What leaves selection and batch alone keeps them right.                 *)
LEMMA CardKept ==
  ASSUME CardInv, IsCard(card'), sel' = sel, batch' = batch, front' = front
  PROVE  CardInv'
  BY DEF CardInv

(* m8dd_blt16 leaves them alone.                                           *)
LEMMA CardBlt ==
  ASSUME CardInv,
         \/ \E k \in Buffers, a \in Boxes, c \in Colours : BltFill(k, a, c)
         \/ BltCopy \/ BltSelf
         \/ \E k, s \in Buffers, a \in Boxes, c \in Colours : BltOwn(k, s, a, c)
  PROVE  CardInv'
<1>0. IsCard(card)
  BY DEF CardInv
<1>1. CASE \E k \in Buffers, a \in Boxes, c \in Colours : BltFill(k, a, c)
  <2>1. PICK k \in Buffers, a \in Boxes, c \in Colours : BltFill(k, a, c)
    BY <1>1
  <2>2. CASE \E B : OnHidden(B)
    BY <1>0, <2>2, CardKept DEF OnHidden, cardVars
  <2>3. CASE \E B : OnShown(B) /\ SendNow(B, a, 1)
    BY <2>3, SendNowType, CardKept DEF OnShown
  <2> QED
    BY <2>1, <2>2, <2>3 DEF BltFill, FillShown, FillHidden
<1>2. CASE BltCopy
  <2>1. CASE \E B : OnHidden(B)
    BY <1>0, <2>1, CardKept DEF OnHidden, cardVars
  <2>2. CASE \E B, a : OnShown(B) /\ SendNow(B, a, 0)
    BY <2>2, SendNowType, CardKept DEF OnShown
  <2>3. CASE \E B, old, new : OnShown(B) /\ SendDiff(B, old, new)
    BY <2>3, SendDiffType, CardKept DEF OnShown
  <2>4. \E k, a, s, src, m, keyed : CopyShown(k, a, s, src, m, keyed) \/ CopyHidden(k, a, s, src, m, keyed)
    BY <1>2 DEF BltCopy
  <2>5. \E B : \/ OnHidden(B)
               \/ \E a : OnShown(B) /\ SendNow(B, a, 0)
               \/ \E old, new : OnShown(B) /\ SendDiff(B, old, new)
    BY <2>4 DEF CopyShown, CopyHidden
  <2> QED
    BY <2>1, <2>2, <2>3, <2>5
<1>3. CASE BltSelf
  <2>1. CASE \E B : OnHidden(B)
    BY <1>0, <2>1, CardKept DEF OnHidden, cardVars
  <2>2. CASE \E B, a, m : OnShown(B) /\ CopyNow(B, a, m)
    BY <2>2, CopyNowType, CardKept DEF OnShown
  <2>3. \E B : OnHidden(B) \/ \E a, m : OnShown(B) /\ CopyNow(B, a, m)
    BY <1>3 DEF BltSelf
  <2> QED
    BY <2>1, <2>2, <2>3
<1>4. CASE \E k, s \in Buffers, a \in Boxes, c \in Colours : BltOwn(k, s, a, c)
  BY <1>0, <1>4, CardKept DEF BltOwn, OnHidden, cardVars
<1> QED
  BY <1>1, <1>2, <1>3, <1>4

(* The fast Flip's selection and, if the engine drew on page 0, its pixels.*)
LEMMA CardSelect ==
  ASSUME CardInv, front \in 0 .. 1, NEW k \in 0 .. 1, front' = k,
         \/ Becomes(Select(k))
         \/ \E img : DOMAIN img = Pixels /\ Becomes([Select(k) EXCEPT !.card.px = img])
  PROVE  CardInv'
<1> DEFINE one == <<Entry("select", Screen, k)>>
           d   == Select(k)
<1>1. d = Way(card, sel, one)
  BY SelectFacts
<1>2. IsCard(card)
  BY DEF CardInv
<1> HIDE DEF d, one
<1>3. \E w : Becomes(w) /\ w = Way(w.card, sel, one) /\ IsCard(w.card)
  <2>1. CASE Becomes(d)
    <3>1. d.card = card
      BY <1>1 DEF Way
    <3> QED
      BY <1>1, <1>2, <2>1, <3>1
  <2>2. CASE \E img : DOMAIN img = Pixels /\ Becomes([d EXCEPT !.card.px = img])
    <3>1. PICK img : DOMAIN img = Pixels /\ Becomes([d EXCEPT !.card.px = img])
      BY <2>2
    <3> DEFINE w == [Way(card, sel, one) EXCEPT !.card.px = img]
    <3>2. w = Way(w.card, sel, one) /\ IsCard(w.card)
      BY <1>2, <3>1, PxType
    <3>3. Becomes(w)
      BY <1>1, <3>1
    <3> HIDE DEF w
    <3> QED
      BY <3>2, <3>3
  <2> QED
    BY <2>1, <2>2 DEF d
<1>4. PICK w : Becomes(w) /\ w = Way(w.card, sel, one) /\ IsCard(w.card)
  BY <1>3
<1>5. w.sel = sel /\ w.batch = one
  BY <1>4 DEF Way
<1>6. IsCard(card') /\ sel' = sel /\ batch' = one
  BY <1>4, <1>5 DEF Becomes
<1> QED
  BY <1>6 DEF CardInv, one

(* m8dd_flip16 leaves the selection of the shown buffer, or its entry.     *)
LEMMA CardFlip ==
  ASSUME BufInv, CardInv, seen.d \in Seq(Rect), box \in [0 .. 1 -> Seq(Rect)], Flip
  PROVE  CardInv'
<1> DEFINE k == 1 - front
<1>1. front \in 0 .. 1 /\ front' = k /\ k \in 0 .. 1 /\ Fits(buf[k])
  <2>1. front \in 0 .. 1
    BY BufferIndex DEF BufInv
  <2> QED
    BY <2>1 DEF BufInv, Sound, Flip
<1>2. buf[k].tris \in Seq(Tris) /\ box[0] \in Seq(Rect)
  BY <1>1 DEF Fits, BufType
<1>3. FlipFast(k) \/ FlipSlow(k)
  BY DEF Flip
<1> HIDE DEF k
<1>4. CASE FlipFast(k)
  <2>1. CASE Becomes(Select(k))
    BY <1>1, <2>1, CardSelect
  <2>2. CASE PageFrame(k)
    <3>1. \E px, erase : \E o \in Replays(px, erase, buf[k].tris) :
            \/ Becomes(Select(k))
            \/ px = card.px /\ Becomes([Select(k) EXCEPT !.card.px = o.px])
      <4> DEFINE h     == IF paged THEN 1 - page ELSE 1
                 under == IF h = 0 THEN card.px
                          ELSE IF paged THEN page1 ELSE [p \in Pixels |-> Shown(p, Black)]
      <4>1. \E o \in Replays(under, BoxesOn(h), buf[k].tris) :
              IF h = 0 THEN Becomes([Select(k) EXCEPT !.card.px = o.px]) ELSE Becomes(Select(k))
        BY <2>2 DEF PageFrame
      <4>2. h = 0 => under = card.px
        OBVIOUS
      <4> HIDE DEF h, under
      <4> QED
        BY <4>1, <4>2
    <3>2. PICK px, erase : \E o \in Replays(px, erase, buf[k].tris) :
            \/ Becomes(Select(k))
            \/ px = card.px /\ Becomes([Select(k) EXCEPT !.card.px = o.px])
      BY <3>1
    <3>3. PICK o \in Replays(px, erase, buf[k].tris) :
            \/ Becomes(Select(k))
            \/ px = card.px /\ Becomes([Select(k) EXCEPT !.card.px = o.px])
      BY <3>2
    <3>4. DOMAIN o.px = Pixels \/ Becomes(Select(k))
      BY <1>2, <3>3, DrewType DEF CardInv, IsCard
    <3> QED
      BY <1>1, <3>3, <3>4, CardSelect
  <2>3. CASE OneFrame(k)
    <3>1. PICK o \in Replays(Select(k).card.px, box[0], buf[k].tris) :
            Becomes([Select(k) EXCEPT !.card.px = o.px])
      BY <2>3 DEF OneFrame
    <3>2. Select(k).card.px = card.px
      BY <1>1, SelectFacts DEF Way
    <3>3. DOMAIN o.px = Pixels
      BY <1>2, <3>1, <3>2, DrewType DEF CardInv, IsCard
    <3> QED
      BY <1>1, <3>1, <3>3, CardSelect
  <2>4. CASE PageUncleared(k)
    BY <1>1, <2>4, CardSelect DEF PageUncleared
  <2> QED
    BY <1>4, <2>1, <2>2, <2>3, <2>4 DEF FlipFast
<1>5. CASE FlipSlow(k)
  <2> DEFINE trusted == SeenNow.known /\ ~paged /\ seen.colour = buf[k].colour
             d == Flushed(buf, PushAll(buf, D0, Entries(k, trusted)))
             e == Entry("select", Screen, k)
  <2>1. PICK o \in Atop(d.card.px, buf[k].tris) : Becomes([d EXCEPT !.card.px = o.px])
    BY <1>5 DEF FlipSlow
  <2>2. e \in EntryType /\ e.op = "select" /\ SelAfter(0, e) = k
    BY <1>1, EntryFacts, ScreenFacts DEF SelAfter
  <2>3. PICK pre \in Seq(EntryType), rest \in Seq(Quiet) : Entries(k, trusted) = pre \o <<e>> \o rest
    <3>1. trusted \in BOOLEAN
      OBVIOUS
    <3> HIDE DEF trusted
    <3> QED
      BY <1>1, <1>2, <3>1, FlipEntries
  <2> HIDE DEF trusted, e
  <2>4. d = Way(d.card, k, << >>) /\ IsCard(d.card)
    BY <1>1, <2>2, <2>3, FlushedSelects
  <2> HIDE DEF d
  <2> DEFINE w == [d EXCEPT !.card.px = o.px]
  <2>5. w = Way(w.card, k, << >>) /\ IsCard(w.card)
    <3> DEFINE c   == d.card
               img == o.px
    <3>1. DOMAIN img = Pixels /\ IsCard(c)
      BY <1>2, <2>1, <2>4, DrewAtop DEF IsCard
    <3>2. w = [Way(c, k, << >>) EXCEPT !.card.px = img]
      BY <2>4 DEF Way
    <3> HIDE DEF w, c, img
    <3>3. LET x == [Way(c, k, << >>) EXCEPT !.card.px = img]
          IN  x = Way(x.card, k, << >>) /\ IsCard(x.card)
      BY ONLY <3>1, PxType
    <3> QED
      BY ONLY <3>2, <3>3
  <2>6. Becomes(w)
    BY <2>1
  <2> HIDE DEF w
  <2>7. IsCard(card') /\ sel' = k /\ batch' = << >>
    BY <2>5, <2>6 DEF Becomes, Way
  <2> QED
    BY <1>1, <2>7 DEF CardInv
<1> QED
  BY <1>3, <1>4, <1>5

(* m8dd_create16 selects the first buffer.                                 *)
LEMMA CardCreate ==
  ASSUME BufInv, CardInv, Create16
  PROVE  CardInv'
<1> DEFINE e == Entry("alloc", Screen, 0)
           d == Flushed(buf, Push(buf, D0, e))
           x == Flushed(buf, D0)
<1>1. front = 0 /\ front' = 0
  BY DEF Create16, BufInv, Buffers
<1>2. e \in EntryType /\ e.op = "alloc" /\ SelAfter(0, e) = 0
  BY EntryFacts, ScreenFacts DEF SelAfter
<1> HIDE DEF e
<1>3. x = Way(x.card, 0, << >>) /\ IsCard(x.card)
  <2>1. x.sel = 0 /\ IsWay(D0)
    BY <1>1, WayFacts
  <2> QED
    BY <2>1, FlushedFacts
<1>4. d = Apply(buf, x, e)
  BY <1>1, <1>2, WayFacts, FlushPush
<1> HIDE DEF x, d
<1> DEFINE w == Apply(buf, Way(x.card, 0, << >>), e)
<1>5. w = Way(w.card, 0, << >>) /\ IsCard(w.card)
  BY <1>2, <1>3, ApplyFacts
<1> HIDE DEF w
<1>6. d = w
  BY <1>3, <1>4 DEF w
<1>7. Becomes(d)
  BY DEF Create16, d, e
<1>8. IsCard(card') /\ sel' = 0 /\ batch' = << >>
  BY <1>5, <1>6, <1>7 DEF Becomes, Way
<1> QED
  BY <1>1, <1>8 DEF CardInv

(* m8dd_destroy16 leaves the screen's own RAM selected.                    *)
LEMMA CardDestroy ==
  ASSUME BufInv, CardInv, Destroy16
  PROVE  CardInv' /\ batch' = << >>
<1> DEFINE B    == [buf EXCEPT ![0] = ReadyAll(@)]
           pre  == <<Entry("select", Screen, 0), Entry("forget", Screen, 0), Entry("send", Screen, 0)>>
           e    == Entry("free", Screen, 0)
           list == <<Entry("select", Screen, 0), Entry("forget", Screen, 0),
                     Entry("send", Screen, 0), Entry("free", Screen, 0)>>
           none == << >>
           d    == Flushed(B, PushAll(B, D0, list))
<1>1. front \in 0 .. 1 /\ front' = 0 /\ Becomes(d)
  BY BufferIndex DEF Destroy16, BufInv
<1>2. /\ pre \in Seq(EntryType)
      /\ e \in EntryType /\ e.op = "free" /\ SelAfter(0, e) = 0
  <2>1. /\ Entry("select", Screen, 0) \in EntryType /\ Entry("forget", Screen, 0) \in EntryType
        /\ Entry("send", Screen, 0) \in EntryType /\ e \in EntryType /\ e.op = "free"
    BY EntryFacts, ScreenFacts
  <2> QED
    BY <2>1 DEF SelAfter
<1>3. list = pre \o <<e>> \o none /\ none \in Seq(Quiet)
  OBVIOUS
<1>4. d = Flushed(B, PushAll(B, D0, pre \o <<e>> \o none))
  BY <1>3
<1> HIDE DEF B, pre, e, list, none, d
<1> DEFINE w == Flushed(B, PushAll(B, D0, pre \o <<e>> \o none))
<1>5. w = Way(w.card, SelAfter(0, e), << >>) /\ IsCard(w.card)
  BY <1>1, <1>2, <1>3, FlushedSelects
<1> HIDE DEF w
<1>6. IsCard(card') /\ sel' = 0 /\ batch' = << >>
  BY <1>1, <1>2, <1>4, <1>5 DEF Becomes, Way, w
<1> QED
  BY <1>1, <1>6 DEF CardInv

(* Every step keeps selection and batch right.                             *)
LEMMA CardStep ==
  ASSUME BufInv, CardInv, BookInv, [Next]_vars
  PROVE  CardInv'
<1>0. IsCard(card)
  BY DEF CardInv
<1>1. CASE \/ \E k \in Buffers, a \in Boxes, c \in Colours : BltFill(k, a, c)
           \/ BltCopy \/ BltSelf
           \/ \E k, s \in Buffers, a \in Boxes, c \in Colours : BltOwn(k, s, a, c)
  BY <1>1, CardBlt
<1>2. CASE Lock \/ WriteLocked \/ ContextCreate \/ ContextEnd \/ UNCHANGED vars
  BY <1>0, <1>2, CardKept DEF Lock, WriteLocked, ContextCreate, ContextEnd, vars, cardVars
<1>3. CASE Unlock
  <2>1. IsCard(card')
    <3>1. CASE \E a : SendNow(buf, a, 0)
      BY <3>1, SendNowType
    <3> QED
      BY <1>0, <1>3, <3>1 DEF Unlock
  <2> QED
    BY <1>3, <2>1, CardKept DEF Unlock
<1>4. CASE Record
  <2>1. CASE \E B : OnHidden(B)
    BY <1>0, <2>1, CardKept DEF OnHidden, cardVars
  <2>2. CASE \E k, t : RecordShown(k, t)
    <3>1. \E B : SendNow(B, Screen, 0)
      BY <2>2 DEF RecordShown
    <3> QED
      BY <2>2, <3>1, SendNowType, CardKept DEF RecordShown
  <2> QED
    BY <1>4, <2>1, <2>2 DEF Record, Triangle, RecordHidden
<1>5. CASE Flip
  <2>1. seen.d \in Seq(Rect) /\ box \in [0 .. 1 -> Seq(Rect)]
    BY DEF BookInv, BookTypes, SeenType
  <2> QED
    BY <1>5, <2>1, CardFlip
<1>6. CASE Gdi
  <2>1. card' = card \/ \E B, a : card' = Flush(card, B[sel].ram, a)
    BY <1>6 DEF Gdi
  <2>2. IsCard(card')
    BY <1>0, <2>1, FlushTypeFacts
  <2> QED
    BY <1>6, <2>2, CardKept DEF Gdi
<1>7. CASE Create16
  BY <1>7, CardCreate
<1>8. CASE Destroy16
  BY <1>8, CardDestroy
<1> QED
  BY <1>1, <1>2, <1>3, <1>4, <1>5, <1>6, <1>7, <1>8 DEF Next

-----------------------------------------------------------------------------
(* What is known of the card, and the history.                             *)

(* What the driver notes as seen is a description it may note.             *)
LEMMA SeenFacts ==
  /\ BookInv => Unknown(seen) \in SeenType
  /\ \A b \in BufType : Described(b) \in SeenType
  BY DEF BookInv, BookTypes, BookFlags, SeenType, Unknown, Described, BufType

(* The boxes of recorded triangles are rectangles.                         *)
LEMMA BoxesType ==
  ASSUME NEW tris \in Seq(Tris)
  PROVE  TriBoxes(tris) \in Seq(Rect)
<1>1. tris \in [1 .. Len(tris) -> Tris] /\ Len(tris) \in Nat /\ DOMAIN tris = 1 .. Len(tris)
  OBVIOUS
<1>2. \A t \in Tris : t.box \in Rect
  BY BufferAssumption
<1>3. [i \in 1 .. Len(tris) |-> tris[i].box] \in [1 .. Len(tris) -> Rect]
  BY <1>1, <1>2
<1> QED
  BY <1>1, <1>3 DEF TriBoxes

BooksKept == UNCHANGED <<drawn, box, fpStale, gdi, page, paged, context>>

(* The shown buffer drawn on directly: the card's description is gone.     *)
LEMMA BookDirect ==
  ASSUME BookInv, BooksKept, UNCHANGED held, seen' = Unknown(seen),
         direct' \in {direct, "yes", "unset"}, lapse' \in BOOLEAN
  PROVE  BookInv'
<1>1. seen' \in SeenType
  BY SeenFacts
<1>2. direct' \in {"no", "yes", "unset"}
  BY DEF BookInv, BookTypes, BookFlags
<1> QED
  BY <1>1, <1>2 DEF BookInv, BookTypes, BookFlags, BooksKept, SeenType

(* Drawing on the shown buffer keeps the driver's notes of their kinds.    *)
LEMMA BookShown ==
  ASSUME BookInv, NEW B, OnShown(B)
  PROVE  BookInv'
<1>1. UNCHANGED <<drawn, box, fpStale, gdi, pageVars, progVars>> /\ seen' = Unknown(seen)
  BY DEF OnShown
<1>2. BooksKept /\ UNCHANGED held
  BY <1>1 DEF BooksKept, pageVars, progVars
<1>3. direct' \in {direct, "yes", "unset"}
  BY DEF OnShown
<1>4. lapse' \in BOOLEAN
  BY DEF OnShown
<1> QED
  BY <1>1, <1>2, <1>3, <1>4, BookDirect

(* Drawing on the hidden one leaves them alone.                            *)
LEMMA BookHidden ==
  ASSUME BookInv, NEW B, OnHidden(B)
  PROVE  BookInv'
  BY DEF BookInv, BookTypes, BookFlags, OnHidden, bookVars, pageVars, progVars

(* So do Blts,                                                             *)
LEMMA BookBlt ==
  ASSUME BookInv,
         \/ \E k \in Buffers, a \in Boxes, c \in Colours : BltFill(k, a, c)
         \/ BltCopy \/ BltSelf
         \/ \E k, s \in Buffers, a \in Boxes, c \in Colours : BltOwn(k, s, a, c)
  PROVE  BookInv'
<1>1. CASE \E k \in Buffers, a \in Boxes, c \in Colours : BltFill(k, a, c)
  <2>1. \E B : OnShown(B) \/ OnHidden(B)
    BY <1>1 DEF BltFill, FillShown, FillHidden
  <2> QED
    BY <2>1, BookShown, BookHidden
<1>2. CASE BltCopy
  <2>1. \E k, a, s, src, m, keyed : CopyShown(k, a, s, src, m, keyed) \/ CopyHidden(k, a, s, src, m, keyed)
    BY <1>2 DEF BltCopy
  <2>2. \E B : OnShown(B) \/ OnHidden(B)
    BY <2>1 DEF CopyShown, CopyHidden
  <2> QED
    BY <2>2, BookShown, BookHidden
<1>3. CASE BltSelf
  <2>1. \E B : OnShown(B) \/ OnHidden(B)
    BY <1>3 DEF BltSelf
  <2> QED
    BY <2>1, BookShown, BookHidden
<1>4. CASE \E k, s \in Buffers, a \in Boxes, c \in Colours : BltOwn(k, s, a, c)
  <2>1. CASE \E B : OnHidden(B)
    BY <2>1, BookHidden
  <2>2. CASE /\ seen' = Unknown(seen) /\ direct' = "unset" /\ lapse' = TRUE
             /\ UNCHANGED <<drawn, box, fpStale, gdi, pageVars, progVars>>
    <3>1. BooksKept /\ UNCHANGED held
      BY <2>2 DEF BooksKept, pageVars, progVars
    <3>2. lapse' \in BOOLEAN /\ direct' \in {direct, "yes", "unset"}
      BY <2>2
    <3> QED
      BY <2>2, <3>1, <3>2, BookDirect
  <2> QED
    BY ZenonT(60), <1>4, <2>1, <2>2 DEF BltOwn
<1> QED
  BY <1>1, <1>2, <1>3, <1>4

(* locks,                                                                  *)
LEMMA BookLocks ==
  ASSUME BookInv, Lock \/ WriteLocked \/ Unlock
  PROVE  BookInv'
<1>1. CASE Lock
  <2>1. PICK k \in Buffers, r \in LockBoxes, write \in BOOLEAN :
          IF write /\ k = front
          THEN /\ Hold(r) /\ seen' = Unknown(seen)
               /\ direct' = IF direct = "no" THEN "yes" ELSE direct
               /\ lapse' = (lapse \/ Strayed(buf[k]))
          ELSE UNCHANGED <<held, seen, direct, lapse>>
    BY <1>1 DEF Lock
  <2>2. BooksKept
    BY <1>1 DEF Lock, BooksKept, pageVars
  <2>3. CASE write /\ k = front
    <3>1. seen' \in SeenType /\ direct' \in {"no", "yes", "unset"}
      BY <2>1, <2>3, SeenFacts DEF BookInv, BookTypes, BookFlags
    <3>2. held' \in [1 .. HeldMax -> Rect \cup {NoRect}]
      <4>1. r \in Rect /\ Screen \in Rect /\ Hold(r)
        BY <2>1, <2>3, BoxFacts, ScreenFacts
      <4> QED
        BY <4>1 DEF Hold, BookInv, BookTypes, BookFlags
    <3>3. lapse' = (lapse \/ Strayed(buf[k]))
      BY <2>1, <2>3
    <3>4. lapse' \in BOOLEAN
      BY <3>3
    <3> QED
      BY <2>2, <3>1, <3>2, <3>4 DEF BookInv, BookTypes, BookFlags, BooksKept, SeenType
  <2>4. CASE ~(write /\ k = front)
    BY <2>1, <2>2, <2>4 DEF BookInv, BookTypes, BookFlags, BooksKept
  <2> QED
    BY <2>3, <2>4
<1>2. CASE WriteLocked
  BY <1>2 DEF WriteLocked, BookInv, BookTypes, BookFlags, bookVars, pageVars, progVars
<1>3. CASE Unlock
  <2>1. BooksKept /\ UNCHANGED <<seen, direct>>
    BY <1>3 DEF Unlock, BooksKept, bookVars, pageVars
  <2>2. CASE UNCHANGED <<held, lapse>>
    BY <2>1, <2>2 DEF BookInv, BookTypes, BookFlags, BooksKept
  <2>3. CASE \E i : held' = [held EXCEPT ![i] = NoRect] /\ lapse' = (lapse \/ Behind)
    <3>1. held' \in [1 .. HeldMax -> Rect \cup {NoRect}]
      BY <2>3 DEF BookInv, BookTypes, BookFlags
    <3>2. lapse' \in BOOLEAN
      BY <2>3
    <3> QED
      BY <2>1, <3>1, <3>2 DEF BookInv, BookTypes, BookFlags, BooksKept
  <2>4. UNCHANGED <<held, lapse>> \/ \E i : held' = [held EXCEPT ![i] = NoRect] /\ lapse' = (lapse \/ Behind)
    BY <1>3 DEF Unlock
  <2> QED
    BY <2>2, <2>3, <2>4
<1> QED
  BY <1>1, <1>2, <1>3

(* triangles, contexts and GDI,                                            *)
LEMMA BookDraw ==
  ASSUME BookInv, Record \/ ContextCreate \/ ContextEnd \/ Gdi
  PROVE  BookInv'
<1>1. CASE Record
  <2>1. CASE \E k, t : RecordShown(k, t)
    <3>1. PICK k, t : RecordShown(k, t)
      BY <2>1
    <3>2. BooksKept /\ UNCHANGED held /\ seen' = Unknown(seen)
      BY <3>1 DEF RecordShown, BooksKept, pageVars, progVars
    <3>3. direct' \in {direct, "yes", "unset"}
      BY <3>1 DEF RecordShown
    <3>4. lapse' = (lapse \/ Behind \/ buf[k].known)
      BY <3>1 DEF RecordShown
    <3>5. lapse' \in BOOLEAN
      BY <3>4
    <3> QED
      BY <3>2, <3>3, <3>5, BookDirect
  <2>2. CASE \E B : OnHidden(B)
    BY <2>2, BookHidden
  <2> QED
    BY <1>1, <2>1, <2>2 DEF Record, Triangle, RecordHidden
<1>2. CASE ContextCreate
  BY <1>2 DEF ContextCreate, BookInv, BookTypes, BookFlags, bookVars, pageVars
<1>3. CASE ContextEnd
  <2>1. /\ context' = FALSE /\ UNCHANGED <<fpStale, gdi, held>>
    BY <1>3 DEF ContextEnd
  <2>2. CASE ~paged
    <3>1. UNCHANGED <<pageVars, seen, drawn, box, direct, lapse>>
      BY <1>3, <2>2 DEF ContextEnd
    <3> QED
      BY <2>1, <3>1 DEF BookInv, BookTypes, BookFlags, pageVars
  <2>3. CASE paged
    <3>1. /\ page' = 0 /\ paged' = FALSE /\ seen' = Unknown(seen) /\ drawn' = << >>
          /\ box' = [box EXCEPT ![0] = << >>]
          /\ direct' = IF page = 1 THEN "unset" ELSE direct
          /\ lapse' = (lapse \/ page = 1)
      BY <1>3, <2>3 DEF ContextEnd, LeavePages
    <3>2. << >> \in Seq(Rect) /\ << >> \in Seq(Tris) /\ seen' \in SeenType
      BY <3>1, SeenFacts
    <3>3. box' \in [0 .. 1 -> Seq(Rect)] /\ direct' \in {"no", "yes", "unset"}
      BY <3>1, <3>2 DEF BookInv, BookTypes, BookFlags
    <3>4. lapse' \in BOOLEAN
      BY <3>1
    <3>5. BookTypes'
      BY ONLY BookInv, <2>1, <3>1, <3>2, <3>3 DEF BookInv, BookTypes
    <3>6. BookFlags'
      BY ONLY BookInv, <2>1, <3>1, <3>4 DEF BookInv, BookFlags
    <3> QED
      BY <3>5, <3>6 DEF BookInv
  <2> QED
    BY <2>2, <2>3
<1>4. CASE Gdi
  <2>1. /\ gdi' = TRUE /\ page' = 0 /\ lapse' \in BOOLEAN
        /\ direct' \in {direct, "unset"}
    BY <1>4 DEF Gdi
  <2>2. UNCHANGED <<seen, drawn, box, fpStale, paged, held, context>>
    BY <1>4 DEF Gdi, bookVars, progVars
  <2> QED
    BY <2>1, <2>2 DEF BookInv, BookTypes, BookFlags
<1> QED
  BY <1>1, <1>2, <1>3, <1>4

(* What a Flip leaves noted: its frame, or nothing the engine gave up on.  *)
LEMMA FlipNotes ==
  ASSUME Flip
  PROVE  LET t == buf[1 - front] IN
         \/ seen' = Described(t) /\ drawn' = t.tris /\ direct' = "no"
         \/ /\ lapse' = TRUE /\ direct' = "unset" /\ seen' = Unknown(seen)
            /\ EngineFails \/ ~context
<1> DEFINE k == 1 - front
<1>1. FlipFast(k) \/ FlipSlow(k)
  BY DEF Flip
<1> HIDE DEF k
<1>2. CASE FlipSlow(k)
  BY <1>2 DEF FlipSlow, k
<1>3. CASE FlipFast(k)
  <2>1. CASE PageFrame(k)
    <3>1. \E px, erase : \E o \in Replays(px, erase, buf[k].tris) :
             IF o.ok THEN Noted(k, TRUE)
             ELSE lapse' = TRUE /\ direct' = "unset" /\ seen' = Unknown(seen)
      BY <2>1 DEF PageFrame, PageLost
    <3>2. \A px, erase : \A o \in Replays(px, erase, buf[k].tris) :
             o.ok \/ EngineFails \/ ~context
      BY Drew
    <3> QED
      BY <3>1, <3>2 DEF Noted, k
  <2> QED
    BY <1>3, <2>1 DEF FlipFast, OneFrame, PageUncleared, Noted, k
<1> QED
  BY <1>1, <1>2, <1>3

(* Flips,                                                                  *)
LEMMA BookFlip ==
  ASSUME BufInv, BookInv, Flip
  PROVE  BookInv'
<1> DEFINE k == 1 - front
           boxes == TriBoxes(buf[k].tris)
<1>1. k \in 0 .. 1 /\ buf[k] \in BufType
  <2>1. front \in 0 .. 1
    BY BufferIndex DEF BufInv
  <2> QED
    BY <2>1 DEF BufInv
<1>2. /\ gdi' = FALSE /\ UNCHANGED <<held, context>>
      /\ FlipFast(k) \/ FlipSlow(k)
  BY DEF Flip, progVars
<1> HIDE DEF k
<1>3. /\ buf[k].tris \in Seq(Tris) /\ boxes \in Seq(Rect) /\ Described(buf[k]) \in SeenType
      /\ << >> \in Seq(Rect) /\ << >> \in Seq(Tris) /\ Unknown(seen) \in SeenType
  BY <1>1, BoxesType, SeenFacts DEF BufType
<1> HIDE DEF boxes
<1>4. SUFFICES /\ seen' \in SeenType /\ drawn' \in Seq(Tris) /\ box' \in [0 .. 1 -> Seq(Rect)]
               /\ page' \in 0 .. 1 /\ direct' \in {"no", "yes", "unset"}
               /\ {fpStale', paged', lapse'} \subseteq BOOLEAN
  BY <1>2 DEF BookInv, BookTypes, BookFlags
<1>5. \A x : x \in BOOLEAN => (Noted(k, x) =>
        /\ seen' \in SeenType /\ drawn' \in Seq(Tris) /\ lapse' \in BOOLEAN /\ direct' = "no")
  BY <1>3 DEF Noted, Undrawn
<1>6. CASE FlipFast(k)
  <2>1. CASE Noted(k, TRUE) /\ UNCHANGED <<box, fpStale, pageVars>>
    BY <1>5, <2>1 DEF BookInv, BookTypes, BookFlags, pageVars
  <2>2. CASE OneFrame(k)
    <3>1. PICK o \in Replays(Select(k).card.px, box[0], buf[k].tris) : Noted(k, o.ok)
      BY <2>2 DEF OneFrame
    <3>2. o.ok \in BOOLEAN
      BY <3>1, Drew
    <3>3. box' = [box EXCEPT ![0] = boxes] /\ fpStale' = TRUE /\ UNCHANGED pageVars
      BY <2>2 DEF OneFrame, boxes
    <3>4. box' \in [0 .. 1 -> Seq(Rect)]
      BY <1>3, <3>3 DEF BookInv, BookTypes
    <3> QED
      BY <1>5, <3>1, <3>2, <3>3, <3>4 DEF BookInv, BookTypes, BookFlags, pageVars
  <2>3. CASE PageUncleared(k)
    BY <1>3, <2>3 DEF PageUncleared, BookInv, BookTypes, BookFlags, pageVars
  <2>4. CASE PageFrame(k)
    <3> DEFINE h == IF paged THEN 1 - page ELSE 1
               old == IF paged THEN box ELSE [box EXCEPT ![1] = << >>]
    <3>1. \/ /\ paged' = TRUE /\ page' = h /\ fpStale' = TRUE
             /\ box' = [old EXCEPT ![h] = boxes] /\ Noted(k, TRUE)
          \/ PageLost(old)
      BY <2>4 DEF PageFrame, boxes
    <3>2. h \in 0 .. 1
      BY DEF BookInv, BookTypes
    <3>3. old \in [0 .. 1 -> Seq(Rect)]
      BY <1>3 DEF BookInv, BookTypes
    <3> HIDE DEF h, old
    <3>4. CASE PageLost(old)
      <4>1. box' \in [0 .. 1 -> Seq(Rect)]
        BY <1>3, <3>3, <3>4 DEF PageLost
      <4>2. /\ seen' = Unknown(seen) /\ drawn' = << >> /\ page' = 0 /\ paged' = FALSE
            /\ direct' = "unset" /\ lapse' = TRUE /\ fpStale' = fpStale
        BY <3>4 DEF PageLost
      <4>3. fpStale' \in BOOLEAN /\ page' \in 0 .. 1
        BY <4>2 DEF BookInv, BookFlags
      <4> QED
        BY ONLY <1>3, <4>1, <4>2, <4>3
    <3>5. CASE /\ paged' = TRUE /\ page' = h /\ fpStale' = TRUE
               /\ box' = [old EXCEPT ![h] = boxes] /\ Noted(k, TRUE)
      <4>1. box' \in [0 .. 1 -> Seq(Rect)]
        BY <1>3, <3>3, <3>5
      <4> QED
        BY <1>5, <3>2, <3>5, <4>1
    <3> QED
      BY <3>1, <3>4, <3>5
  <2> QED
    BY <1>6, <2>1, <2>2, <2>3, <2>4 DEF FlipFast
<1>7. CASE FlipSlow(k)
  <2>1. /\ page' = 0 /\ paged' = FALSE /\ seen' = Described(buf[k]) /\ direct' = "no"
        /\ drawn' = buf[k].tris /\ box' = [box EXCEPT ![0] = boxes]
        /\ fpStale' \in BOOLEAN /\ lapse' \in BOOLEAN
    BY <1>7 DEF FlipSlow, LeavePages, boxes
  <2>2. box' \in [0 .. 1 -> Seq(Rect)]
    BY <1>3, <2>1 DEF BookInv, BookTypes
  <2> QED
    BY <1>3, <2>1, <2>2
<1> QED
  BY <1>2, <1>6, <1>7

(* and creation and destruction.                                           *)
LEMMA BookPair ==
  ASSUME BookInv, Create16 \/ Destroy16
  PROVE  BookInv'
<1>1. << >> \in Seq(Rect) /\ << >> \in Seq(Tris) /\ Unknown(seen) \in SeenType
  BY SeenFacts
<1>2. CASE Create16
  <2>1. /\ seen' = Unknown(seen) /\ drawn' = << >> /\ box' = [box EXCEPT ![0] = << >>]
        /\ fpStale' = FALSE /\ direct' = "unset" /\ lapse' = TRUE
        /\ UNCHANGED <<page, paged, held, context, gdi>>
    BY <1>2 DEF Create16, pageVars, progVars
  <2>2. box' \in [0 .. 1 -> Seq(Rect)]
    BY <1>1, <2>1 DEF BookInv, BookTypes, BookFlags
  <2> QED
    BY <1>1, <2>1, <2>2 DEF BookInv, BookTypes, BookFlags, SeenType
<1>3. CASE Destroy16
  <2>1. /\ seen' = Unknown(seen) /\ direct' = "no" /\ lapse' = FALSE /\ context' = FALSE
        /\ page' = 0 /\ paged' = FALSE /\ UNCHANGED <<fpStale, gdi, held>>
    BY <1>3 DEF Destroy16, LeavePages
  <2>2. drawn' \in Seq(Tris) /\ box' \in [0 .. 1 -> Seq(Rect)]
    <3>1. \/ drawn' = << >> /\ box' = [box EXCEPT ![0] = << >>]
          \/ UNCHANGED <<drawn, box>>
      BY <1>3 DEF Destroy16
    <3> QED
      BY <1>1, <3>1 DEF BookInv, BookTypes, BookFlags
  <2>3. BookTypes'
    BY ONLY BookInv, <1>1, <2>1, <2>2 DEF BookInv, BookTypes
  <2>4. BookFlags'
    BY ONLY BookInv, <2>1 DEF BookInv, BookFlags
  <2> QED
    BY <2>3, <2>4 DEF BookInv
<1> QED
  BY <1>2, <1>3

(* Every step keeps the notes of their kinds.                              *)
LEMMA BookStep ==
  ASSUME BufInv, BookInv, [Next]_vars
  PROVE  BookInv'
<1>1. CASE \/ \E k \in Buffers, a \in Boxes, c \in Colours : BltFill(k, a, c)
           \/ BltCopy \/ BltSelf
           \/ \E k, s \in Buffers, a \in Boxes, c \in Colours : BltOwn(k, s, a, c)
  BY <1>1, BookBlt
<1>2. CASE Lock \/ WriteLocked \/ Unlock
  BY <1>2, BookLocks
<1>3. CASE Record \/ ContextCreate \/ ContextEnd \/ Gdi
  BY <1>3, BookDraw
<1>4. CASE Flip
  BY <1>4, BookFlip
<1>5. CASE Create16 \/ Destroy16
  BY <1>5, BookPair
<1>6. CASE UNCHANGED vars
  BY <1>6 DEF BookInv, BookTypes, BookFlags, vars, bookVars, pageVars, progVars
<1> QED
  BY <1>1, <1>2, <1>3, <1>4, <1>5, <1>6 DEF Next

(* Selection, batch and notes start right.                                 *)
LEMMA WayInit == Init => CardInv /\ BookInv
<1> SUFFICES ASSUME Init PROVE CardInv /\ BookInv
  OBVIOUS
<1> DEFINE black == [p \in Pixels |-> Black]
           bare  == [px |-> black, fp |-> [s \in Pieces |-> NoFp]]
<1>1. IsCard(bare)
  BY DEF IsCard
<1> HIDE DEF bare, black
<1>2. card = SendAll(bare, black) /\ sel = 0 /\ batch = << >> /\ front = 0
  BY DEF Init, bare, black
<1>3. CardInv
  BY <1>1, <1>2, SendAllFacts DEF CardInv
<1>4. << >> \in Seq(Rect) /\ << >> \in Seq(Tris)
  OBVIOUS
<1>5. /\ seen = [known |-> FALSE, colour |-> Black, d |-> << >>] /\ drawn = << >>
      /\ box = [h \in 0 .. 1 |-> << >>] /\ held = [i \in 1 .. HeldMax |-> NoRect]
      /\ page = 0 /\ direct = "no" /\ fpStale = FALSE /\ gdi = FALSE /\ context = FALSE
      /\ paged = FALSE /\ lapse = FALSE
  BY DEF Init
<1>6. seen \in SeenType
  BY ONLY <1>4, <1>5, ColourAssumption DEF SeenType
<1>7. box \in [0 .. 1 -> Seq(Rect)] /\ held \in [1 .. HeldMax -> Rect \cup {NoRect}]
  BY ONLY <1>4, <1>5
<1>8. BookTypes
  BY ONLY <1>4, <1>5, <1>6, <1>7 DEF BookTypes
<1>9. BookFlags
  BY ONLY <1>5 DEF BookFlags
<1> QED
  BY <1>3, <1>8, <1>9 DEF BookInv

(* Nothing but memory a program can see ever leaves its kind: the buffers, *)
(* their descriptions within M8DD_DIRTY_MAX and M8DD_TRIS_MAX, the batch   *)
(* within M8DD_BATCH_MAX, the locks held within M8DD_HELD_MAX              *)
(* (m8dd32.c:556-623), whatever sizes these have.                          *)
THEOREM BufferTypes == Spec => []TypeOK
<1>1. Init => BufInv /\ CardInv /\ BookInv
  BY BufInit, WayInit
<1>2. BufInv /\ CardInv /\ BookInv /\ [Next]_vars => BufInv' /\ CardInv' /\ BookInv'
  <2> SUFFICES ASSUME BufInv, CardInv, BookInv, [Next]_vars
               PROVE  BufInv' /\ CardInv' /\ BookInv'
    OBVIOUS
  <2> QED
    BY BufStep, CardStep, BookStep
<1>3. BufInv /\ CardInv /\ BookInv => TypeOK
  <2> SUFFICES ASSUME BufInv, CardInv, BookInv PROVE TypeOK
    OBVIOUS
  <2>1. /\ buf \in [0 .. 1 -> [ram : [Pixels -> Colours], known : BOOLEAN, filled : BOOLEAN,
                               colour : Colours, d : Seq(Rect), tris : Seq(Tris)]]
        /\ front \in 0 .. 1 /\ live \in BOOLEAN
    BY BufferIndex DEF BufInv, BufType
  <2>2. \A k \in 0 .. 1 : /\ Len(buf[k].d) <= DirtyMax /\ Len(buf[k].tris) <= TrisMax
                          /\ buf[k].tris # << >> => buf[k].known
    BY DEF BufInv, Sound, Fits
  <2>3. sel \in 0 .. 1 /\ DOMAIN card = {"px", "fp"} /\ Len(batch) <= BatchMax
    <3>1. BatchMax \in Nat /\ BatchMax >= 1
      BY BufferAssumption
    <3>2. PICK e : batch = << >> \/ batch = <<e>>
      BY DEF CardInv
    <3>3. Len(batch) <= BatchMax
      BY ONLY <3>1, <3>2
    <3> QED
      BY <3>3 DEF CardInv, IsCard
  <2>4. /\ page \in 0 .. 1 /\ seen \in [known : BOOLEAN, colour : Colours, d : Seq(Rect)]
        /\ drawn \in Seq(Tris) /\ box \in [0 .. 1 -> Seq(Rect)]
        /\ held \in [1 .. HeldMax -> Rect \cup {NoRect}]
        /\ direct \in {"no", "yes", "unset"}
    BY DEF BookInv, BookTypes, SeenType
  <2>5. /\ fpStale \in BOOLEAN /\ gdi \in BOOLEAN /\ context \in BOOLEAN
        /\ paged \in BOOLEAN /\ lapse \in BOOLEAN
    BY DEF BookInv, BookTypes, BookFlags
  <2> QED
    BY <2>1, <2>2, <2>3, <2>4, <2>5 DEF TypeOK
<1> QED
  BY <1>1, <1>2, <1>3, PTL DEF Spec

(* Only a selection of the shown buffer ever waits in the batch: that much *)
(* the fast Flip leaves behind, the rest has reached the card when a call  *)
(* returns (m8dd32.c:1477-1480).                                           *)
THEOREM OnlySelectionWaits == Spec => []OneSelectionWaits
<1>1. Init => BufInv /\ CardInv /\ BookInv
  BY BufInit, WayInit
<1>2. BufInv /\ CardInv /\ BookInv /\ [Next]_vars => BufInv' /\ CardInv' /\ BookInv'
  <2> SUFFICES ASSUME BufInv, CardInv, BookInv, [Next]_vars
               PROVE  BufInv' /\ CardInv' /\ BookInv'
    OBVIOUS
  <2> QED
    BY BufStep, CardStep, BookStep
<1>3. CardInv => OneSelectionWaits
  <2> SUFFICES ASSUME CardInv, batch = <<Entry("select", Screen, front)>> PROVE OneSelectionWaits
    BY DEF CardInv, OneSelectionWaits
  <2> DEFINE e == Entry("select", Screen, front)
  <2>1. e.op = "select" /\ e.arg = front
    BY DEF Entry
  <2> HIDE DEF e
  <2>2. Len(<<e>>) = 1 /\ <<e>>[1] = e
    OBVIOUS
  <2> QED
    BY <2>1, <2>2 DEF OneSelectionWaits, e
<1> QED
  BY <1>1, <1>2, <1>3, PTL DEF Spec

-----------------------------------------------------------------------------
(* Rectangles of one kind.  G holds the screen and the union of any two it *)
(* holds; what the program, GDI and its triangles name is in it.  Then all *)
(* that a description ever holds is.                                       *)

Closed(G) == /\ G \subseteq Rect /\ Screen \in G
             /\ \A a, r \in G : UnionRect(a, r) \in G

Named(G) == /\ Boxes \cup LockBoxes \cup GdiBoxes \subseteq G
            /\ \A t \in Tris : t.box \in G

In(G, b) == /\ DOMAIN b = {"ram", "known", "filled", "colour", "d", "tris"}
            /\ b.d \in Seq(G) /\ b.tris \in Seq(Tris)

(* Rectangles of whole pieces are such a kind, and even ones.              *)
LEMMA AlignedClosed ==
  ASSUME NEW n \in {2, SegW}
  PROVE  Closed(Aligned(n))
<1>1. Aligned(n) \subseteq Rect /\ Screen \in Aligned(n)
  BY AlignedFacts DEF Aligned
<1>2. ASSUME NEW a \in Aligned(n), NEW r \in Aligned(n)
      PROVE  UnionRect(a, r) \in Aligned(n)
  <2>1. /\ a \in Rect /\ r \in Rect /\ a.l % n = 0 /\ a.r % n = 0 /\ r.l % n = 0 /\ r.r % n = 0
    BY DEF Aligned
  <2>2. a.l \in Int /\ a.r \in Int /\ r.l \in Int /\ r.r \in Int
    BY <2>1 DEF Rect
  <2>3. \A x, y \in Int : Min({x, y}) \in {x, y} /\ Max({x, y}) \in {x, y}
    <3> SUFFICES ASSUME NEW x \in Int, NEW y \in Int
                 PROVE  Min({x, y}) \in {x, y} /\ Max({x, y}) \in {x, y}
      OBVIOUS
    <3>1. /\ \E m \in {x, y} : \A z \in {x, y} : m <= z
          /\ \E m \in {x, y} : \A z \in {x, y} : m >= z
      OBVIOUS
    <3> QED
      BY <3>1 DEF Min, Max
  <2> DEFINE u == UnionRect(a, r)
  <2>4. u \in Rect
    BY <2>1, UnionFacts
  <2>5. u.l = Min({a.l, r.l}) /\ u.r = Max({a.r, r.r})
    BY DEF UnionRect
  <2>6. u.l \in {a.l, r.l} /\ u.r \in {a.r, r.r}
    BY <2>2, <2>3, <2>5
  <2> HIDE DEF u
  <2>7. u.l % n = 0 /\ u.r % n = 0
    BY <2>1, <2>6
  <2> QED
    BY <2>4, <2>7 DEF Aligned, u
<1> QED
  BY <1>1, <1>2 DEF Closed

(* What adds no rectangle keeps a description's rectangles in G.           *)
LEMMA SameIn ==
  ASSUME NEW G, NEW b, In(G, b)
  PROVE  /\ \A A : In(G, Ready(b, A))
         /\ \A A, c : In(G, Paint(b, A, c))
         /\ In(G, Unknown(b)) /\ \A img : In(G, [b EXCEPT !.ram = img])
         /\ \A x : In(G, [b EXCEPT !.filled = x])
         /\ \A c : In(G, Cleared(b, c)) /\ In(G, [b EXCEPT !.tris = << >>])
<1>1. << >> \in Seq(G) /\ << >> \in Seq(Tris)
  OBVIOUS
<1>2. \A img : In(G, [b EXCEPT !.ram = img])
  BY DEF In
<1>3. \A A : In(G, Ready(b, A))
  BY <1>2 DEF Ready
<1>4. \A A, c : In(G, Paint(b, A, c))
  BY <1>2 DEF Paint
<1>5. In(G, Unknown(b)) /\ \A x : In(G, [b EXCEPT !.filled = x])
  BY DEF In, Unknown
<1>6. \A c : In(G, Cleared(b, c))
  BY <1>1 DEF In, Cleared
<1>7. In(G, [b EXCEPT !.tris = << >>])
  BY <1>1 DEF In
<1> QED
  BY <1>2, <1>3, <1>4, <1>5, <1>6, <1>7

(* m8dd_dirty does: it adds one of G, or joins within G.                   *)
LEMMA DirtyIn ==
  ASSUME NEW G, Closed(G), NEW b, In(G, b), NEW a \in G
  PROVE  In(G, Dirty(b, a))
<1>1. G \subseteq Rect /\ b.d \in Seq(G) /\ b.d \in Seq(Rect) /\ b.tris \in Seq(Tris)
      /\ DOMAIN b = {"ram", "known", "filled", "colour", "d", "tris"}
  BY DEF Closed, In
<1> DEFINE covered == ~b.known \/ \E i \in DOMAIN b.d : Inside(a, b.d[i])
<1>2. CASE covered
  <2>1. Dirty(b, a) = b
    BY <1>2 DEF Dirty
  <2> QED
    BY <2>1
<1>3. CASE ~covered /\ Len(b.d) < DirtyMax
  <2>1. Dirty(b, a) = [b EXCEPT !.d = Append(@, a)]
    BY <1>3 DEF Dirty
  <2>2. Append(b.d, a) \in Seq(G)
    BY <1>1
  <2> QED
    BY <1>1, <2>1, <2>2 DEF In
<1>4. CASE ~covered /\ ~(Len(b.d) < DirtyMax)
  <2> DEFINE Least == {i \in DOMAIN b.d : \A j \in DOMAIN b.d : Growth(b.d[i], a) <= Growth(b.d[j], a)}
             k    == Min(Least)
             u    == UnionRect(b.d[k], a)
             ram  == Ready([b EXCEPT !.d = Append(@, a)], Area(u)).ram
  <2>1. Dirty(b, a) = [b EXCEPT !.ram = ram, !.d[k] = u]
    BY <1>4 DEF Dirty
  <2>2. b.d # << >>
    BY <1>1, <1>4, BufferAssumption
  <2>3. k \in DOMAIN b.d
    BY <1>1, <2>2, LeastGrowth
  <2> HIDE DEF Least, k
  <2>4. b.d[k] \in G
    BY <1>1, <2>3
  <2>5. u \in G
    BY <2>4 DEF Closed
  <2> HIDE DEF u, ram
  <2>6. [b.d EXCEPT ![k] = u] \in Seq(G)
    BY <1>1, <2>3, <2>5
  <2> QED
    BY <1>1, <2>1, <2>6 DEF In
<1> QED
  BY <1>2, <1>3, <1>4

(* So does a triangle drawn in RAM,                                        *)
LEMMA TriRamIn ==
  ASSUME NEW G, Closed(G), Named(G), NEW b, In(G, b), NEW t \in Tris
  PROVE  In(G, TriRam(b, t))
<1>1. t.box \in G
  BY DEF Named
<1>2. In(G, Paint(Ready(b, Area(t.box)), t.px, t.c))
  BY SameIn
<1> QED
  BY <1>1, <1>2, DirtyIn DEF TriRam

(* and all of them.                                                        *)
LEMMA TrisToRamIn ==
  ASSUME NEW G, Closed(G), Named(G), NEW b, In(G, b)
  PROVE  In(G, TrisToRam(b)) /\ In(G, ReadyAll(b))
<1> DEFINE x == [b EXCEPT !.tris = << >>]
           n == Len(b.tris)
<1>1. n \in Nat /\ DOMAIN b.tris = 1 .. n /\ \A i \in 1 .. n : b.tris[i] \in Tris
  BY DEF In
<1>2. In(G, x)
  BY SameIn
<1> HIDE DEF x, n
<1>3. PICK g : Drawing!Trace(0, x, b.tris, n, g)
  BY <1>1, Inductions, Drawing!FoldTrace
<1>4. g[0] = x /\ g[n] = TrisToRam(b)
  BY <1>3, AsFolds DEF Drawing!Trace, x
<1>5. \A i \in Nat : i + 1 <= n => g[i + 1] = TriRam(g[i], b.tris[i + 1])
  BY <1>1, <1>3, Drawing!TraceStep DEF DrawTri
<1> DEFINE S == {i \in Nat : i <= n => In(G, g[i])}
<1>6. 0 \in S
  BY <1>2, <1>4
<1>7. ASSUME NEW i \in Nat, i \in S PROVE i + 1 \in S
  <2> SUFFICES ASSUME i + 1 <= n PROVE In(G, g[i + 1])
    OBVIOUS
  <2>1. In(G, g[i]) /\ b.tris[i + 1] \in Tris
    BY <1>1, <1>7
  <2> QED
    BY <1>5, <2>1, TriRamIn
<1> HIDE DEF S
<1>8. \A i \in Nat : i \in S
  BY <1>6, <1>7, Induct
<1>9. In(G, TrisToRam(b))
  BY <1>1, <1>4, <1>8 DEF S
<1> QED
  BY <1>9, SameIn DEF ReadyAll

DescIn(G) == DOMAIN buf = 0 .. 1 /\ \A k \in 0 .. 1 : In(G, buf[k])

HeldIn(G) == held \in [1 .. HeldMax -> G \cup {NoRect}]

(* Changing one buffer is enough to look at.                               *)
LEMMA OneIn ==
  ASSUME NEW G, DescIn(G), NEW k \in 0 .. 1, NEW x, In(G, x), buf' = [buf EXCEPT ![k] = x]
  PROVE  DescIn(G)'
<1>1. DOMAIN buf' = 0 .. 1 /\ \A j \in 0 .. 1 : buf'[j] = IF j = k THEN x ELSE buf[j]
  BY DEF DescIn
<1> QED
  BY <1>1 DEF DescIn

(* Blts keep the descriptions' rectangles in G,                            *)
LEMMA BltIn ==
  ASSUME NEW G, Closed(G), Named(G), DescIn(G),
         \/ \E k \in Buffers, a \in Boxes, c \in Colours : BltFill(k, a, c)
         \/ BltCopy \/ BltSelf
         \/ \E k, s \in Buffers, a \in Boxes, c \in Colours : BltOwn(k, s, a, c)
  PROVE  DescIn(G)'
<1>1. \A k \in 0 .. 1 : In(G, buf[k]) /\ In(G, TrisToRam(buf[k])) /\ In(G, ReadyAll(buf[k]))
  BY TrisToRamIn DEF DescIn
<1>2. Boxes \subseteq G /\ Buffers \subseteq 0 .. 1
  BY BufferIndex DEF Named
<1>3. ASSUME NEW k \in Buffers, NEW a \in Boxes, NEW c \in Colours, BltFill(k, a, c)
      PROVE  DescIn(G)'
  <2> DEFINE x == Paint(Unknown(ReadyAll(buf[k])), Area(a), c)
             y == Cleared(buf[k], c)
             z == Dirty(Paint(Ready(TrisToRam(buf[k]), Area(a)), Area(a), c), a)
  <2>0. k \in 0 .. 1 /\ a \in G
    BY <1>2
  <2>1. In(G, x)
    BY <1>1, <2>0, SameIn
  <2>2. In(G, y)
    BY <1>1, <2>0, SameIn
  <2>3. In(G, z)
    <3>1. In(G, Paint(Ready(TrisToRam(buf[k]), Area(a)), Area(a), c))
      BY <1>1, <2>0, SameIn
    <3> QED
      BY <2>0, <3>1, DirtyIn
  <2>4. PICK w \in {x, y, z} : buf' = [buf EXCEPT ![k] = w]
    <3>1. CASE k = front
      BY <1>3, <3>1 DEF BltFill, FillShown, OnShown
    <3>2. CASE k # front
      <4>1. CASE Whole(a)
        BY <1>3, <3>2, <4>1 DEF BltFill, FillHidden, OnHidden
      <4>2. CASE ~Whole(a)
        BY <1>3, <3>2, <4>2 DEF BltFill, FillHidden, OnHidden
      <4> QED
        BY <4>1, <4>2
    <3> QED
      BY <3>1, <3>2
  <2> HIDE DEF x, y, z
  <2> QED
    BY <2>0, <2>1, <2>2, <2>3, <2>4, OneIn
<1>4. ASSUME NEW k \in Buffers, NEW a \in Boxes, NEW s, s = -1 \/ s \in 0 .. 1,
             NEW src, NEW m, NEW keyed \in BOOLEAN,
             CopyShown(k, a, s, src, m, keyed) \/ CopyHidden(k, a, s, src, m, keyed)
      PROVE  DescIn(G)'
  <2> DEFINE own  == Unknown(ReadyAll(buf[k]))
             from == IF s = -1 THEN src ELSE ReadyAll(buf[s]).ram
             new  == Taken(own.ram, from, a, m, keyed)
             x    == [own EXCEPT !.ram = new]
             kept == Ready(TrisToRam(buf[k]), Area(a))
             y    == Dirty([kept EXCEPT !.ram = Taken(@, from, a, m, keyed)], a)
  <2>0. k \in 0 .. 1 /\ a \in G
    BY <1>2
  <2>1. In(G, x)
    <3>1. In(G, own)
      BY <1>1, <2>0, SameIn
    <3> HIDE DEF own, new
    <3> QED
      BY <3>1, SameIn
  <2>2. In(G, y)
    <3>1. In(G, kept)
      BY <1>1, <2>0, SameIn
    <3> DEFINE img == Taken(kept.ram, from, a, m, keyed)
    <3> HIDE DEF kept, img
    <3>2. In(G, [kept EXCEPT !.ram = img])
      BY <3>1, SameIn
    <3>3. In(G, Dirty([kept EXCEPT !.ram = img], a))
      BY <2>0, <3>2, DirtyIn
    <3> QED
      BY <3>3 DEF img
  <2>3. PICK w \in {x, y} : buf' = [j \in 0 .. 1 |-> IF j = k THEN w
                                                   ELSE IF j = s THEN ReadyAll(buf[j]) ELSE buf[j]]
    <3>1. CASE CopyShown(k, a, s, src, m, keyed)
      BY <3>1 DEF CopyShown, OnShown
    <3>2. CASE CopyHidden(k, a, s, src, m, keyed)
      BY <3>2 DEF CopyHidden, OnHidden
    <3> QED
      BY <1>4, <3>1, <3>2
  <2> HIDE DEF x, y
  <2>4. In(G, w)
    BY <2>1, <2>2
  <2>5. DOMAIN buf' = 0 .. 1 /\ \A j \in 0 .. 1 : buf'[j] \in {w, ReadyAll(buf[j]), buf[j]}
    BY <2>3
  <2> QED
    BY <1>1, <2>4, <2>5 DEF DescIn
<1>5. CASE BltCopy
  <2>1. PICK k \in Buffers, a \in Boxes, keyed \in BOOLEAN :
          \E s, src, m :
             /\ s = -1 \/ s = 1 - k
             /\ CopyShown(k, a, s, src, m, keyed) \/ CopyHidden(k, a, s, src, m, keyed)
    BY <1>5 DEF BltCopy
  <2>2. PICK s, src, m :
          /\ s = -1 \/ s = 1 - k
          /\ CopyShown(k, a, s, src, m, keyed) \/ CopyHidden(k, a, s, src, m, keyed)
    BY <2>1
  <2>3. s = -1 \/ s \in 0 .. 1
    BY <1>2, <2>2
  <2> QED
    BY <1>4, <2>2, <2>3
<1>6. CASE BltSelf
  <2>1. PICK k \in Buffers, a \in Boxes, m \in Moves :
          IF k = front
          THEN LET own == Unknown(ReadyAll(buf[k]))
                   B   == [buf EXCEPT ![k] = [own EXCEPT !.ram = Taken(@, @, a, m, FALSE)]]
               IN  OnShown(B)
          ELSE LET own == Ready(Ready(TrisToRam(buf[k]), Area(a)), Area(Shifted(a, m)))
               IN  OnHidden([buf EXCEPT ![k] =
                               Dirty([own EXCEPT !.ram = Taken(@, @, a, m, FALSE)], a)])
    BY ZenonT(60), <1>6 DEF BltSelf
  <2> DEFINE own  == Unknown(ReadyAll(buf[k]))
             new  == Taken(own.ram, own.ram, a, m, FALSE)
             x    == [own EXCEPT !.ram = new]
             kept == Ready(Ready(TrisToRam(buf[k]), Area(a)), Area(Shifted(a, m)))
             img  == Taken(kept.ram, kept.ram, a, m, FALSE)
             y    == Dirty([kept EXCEPT !.ram = img], a)
  <2>0. k \in 0 .. 1 /\ a \in G
    BY <1>2
  <2>2. In(G, x)
    <3>1. In(G, own)
      BY <1>1, <2>0, SameIn
    <3> HIDE DEF own, new
    <3> QED
      BY <3>1, SameIn
  <2>3. In(G, y)
    <3>1. In(G, Ready(TrisToRam(buf[k]), Area(a)))
      BY <1>1, <2>0, SameIn
    <3>2. In(G, kept)
      BY <3>1, SameIn
    <3> HIDE DEF kept, img
    <3>3. In(G, [kept EXCEPT !.ram = img])
      BY <3>2, SameIn
    <3> QED
      BY <2>0, <3>3, DirtyIn
  <2>4. PICK w \in {x, y} : buf' = [buf EXCEPT ![k] = w]
    <3>1. CASE k = front
      BY <2>1, <3>1 DEF OnShown
    <3>2. CASE k # front
      BY <2>1, <3>2 DEF OnHidden
    <3> QED
      BY <3>1, <3>2
  <2> HIDE DEF x, y
  <2> QED
    BY <2>0, <2>2, <2>3, <2>4, OneIn
<1>7. ASSUME NEW k \in Buffers, NEW s \in Buffers, NEW a \in Boxes, NEW c \in Colours,
             BltOwn(k, s, a, c)
      PROVE  DescIn(G)'
  <2> DEFINE R == [j \in 0 .. 1 |-> IF j \in {k, s} THEN ReadyAll(buf[j]) ELSE buf[j]]
             x == Paint(Unknown(R[k]), Area(a), c)
  <2>0. k \in 0 .. 1
    BY <1>2
  <2>1. \A j \in 0 .. 1 : In(G, R[j])
    BY <1>1
  <2>2. buf' = [R EXCEPT ![k] = x]
    <3>1. CASE k = front
      BY <1>7, <3>1 DEF BltOwn
    <3>2. CASE k # front
      BY <1>7, <3>2 DEF BltOwn, OnHidden
    <3> QED
      BY <3>1, <3>2
  <2>3. DOMAIN R = 0 .. 1
    OBVIOUS
  <2> HIDE DEF R
  <2>4. In(G, x)
    BY <2>0, <2>1, SameIn
  <2> HIDE DEF x
  <2>5. DOMAIN buf' = 0 .. 1 /\ \A j \in 0 .. 1 : buf'[j] = IF j = k THEN x ELSE R[j]
    BY <2>0, <2>2, <2>3
  <2> QED
    BY <2>1, <2>4, <2>5 DEF DescIn
<1> QED
  BY <1>3, <1>5, <1>6, <1>7

(* A held rectangle is what a lock named, or the screen.                   *)
LEMMA HoldIn ==
  ASSUME NEW G, Closed(G), HeldIn(G), NEW r \in G, Hold(r)
  PROVE  HeldIn(G)'
<1>1. Screen \in G
  BY DEF Closed
<1>2. \A i, x : x \in G => [held EXCEPT ![i] = x] \in [1 .. HeldMax -> G \cup {NoRect}]
  BY DEF HeldIn
<1> QED
  BY <1>1, <1>2 DEF Hold, HeldIn

(* locks keep those and the rectangles they hold,                          *)
LEMMA LocksIn ==
  ASSUME NEW G, Closed(G), Named(G), DescIn(G), HeldIn(G), BufInv, Lock \/ WriteLocked \/ Unlock
  PROVE  DescIn(G)' /\ HeldIn(G)'
<1>1. \A k \in 0 .. 1 : In(G, buf[k]) /\ In(G, ReadyAll(buf[k]))
  BY TrisToRamIn DEF DescIn
<1>2. CASE Lock
  <2>1. PICK k \in Buffers, r \in LockBoxes, write \in BOOLEAN :
          /\ buf' = [buf EXCEPT ![k] = IF write THEN Unknown(ReadyAll(@)) ELSE ReadyAll(@)]
          /\ Hold(r) \/ UNCHANGED held
    BY <1>2 DEF Lock
  <2> DEFINE w == IF write THEN Unknown(ReadyAll(buf[k])) ELSE ReadyAll(buf[k])
  <2>2. k \in 0 .. 1 /\ r \in G
    BY BufferIndex DEF Named
  <2>3. In(G, w)
    <3>1. In(G, Unknown(ReadyAll(buf[k]))) /\ In(G, ReadyAll(buf[k]))
      BY <1>1, <2>2, SameIn
    <3> QED
      BY <3>1
  <2>4. buf' = [buf EXCEPT ![k] = w]
    BY <2>1
  <2> HIDE DEF w
  <2>5. DescIn(G)'
    BY <2>2, <2>3, <2>4, OneIn
  <2>6. HeldIn(G)'
    <3>1. CASE Hold(r)
      BY <2>2, <3>1, HoldIn
    <3>2. CASE UNCHANGED held
      BY <3>2 DEF HeldIn
    <3> QED
      BY <2>1, <3>1, <3>2
  <2> QED
    BY <2>5, <2>6
<1>3. CASE WriteLocked
  <2>1. UNCHANGED held
    BY <1>3 DEF WriteLocked, progVars
  <2>2. PICK i \in DOMAIN locks, c \in Colours :
          buf' = [buf EXCEPT ![locks[i].k] = Paint(@, Area(locks[i].r), c)]
    BY <1>3 DEF WriteLocked
  <2> DEFINE k == locks[i].k
  <2>3. k \in 0 .. 1
    <3>1. locks[i].k \in Buffers
      BY DEF BufInv
    <3> QED
      BY <3>1, BufferIndex
  <2> DEFINE w == Paint(buf[k], Area(locks[i].r), c)
  <2>4. buf' = [buf EXCEPT ![k] = w]
    BY <2>2
  <2> HIDE DEF k
  <2>5. In(G, w)
    BY <1>1, <2>3, SameIn
  <2> HIDE DEF w
  <2> QED
    BY <2>1, <2>3, <2>4, <2>5, OneIn DEF HeldIn
<1>4. CASE Unlock
  <2>1. UNCHANGED buf
    BY <1>4 DEF Unlock
  <2>2. UNCHANGED held \/ \E i : held' = [held EXCEPT ![i] = NoRect]
    BY <1>4 DEF Unlock
  <2>3. HeldIn(G)'
    BY <2>2 DEF HeldIn
  <2> QED
    BY <2>1, <2>3 DEF DescIn
<1> QED
  BY <1>2, <1>3, <1>4

(* triangles and GDI keep them,                                            *)
LEMMA DrawIn ==
  ASSUME NEW G, Closed(G), Named(G), DescIn(G), BufInv, Record \/ Gdi
  PROVE  DescIn(G)'
<1>1. \A k \in 0 .. 1 : In(G, buf[k]) /\ In(G, TrisToRam(buf[k]))
  BY TrisToRamIn DEF DescIn
<1>2. CASE Record
  <2>1. PICK k \in Buffers, t \in Tris : IF k = front THEN RecordShown(k, t) ELSE RecordHidden(k, t)
    BY <1>2 DEF Record, Triangle
  <2> DEFINE b == IF Len(buf[k].tris) = TrisMax THEN TrisToRam(buf[k]) ELSE buf[k]
             x == TriRam(buf[k], t)
             y == [b EXCEPT !.tris = Append(@, t)]
  <2>2. k \in 0 .. 1
    BY BufferIndex
  <2>3. In(G, x)
    BY <1>1, <2>2, TriRamIn
  <2>4. In(G, y)
    <3>1. In(G, b)
      BY <1>1, <2>2
    <3> HIDE DEF b
    <3>2. Append(b.tris, t) \in Seq(Tris)
      BY <3>1 DEF In
    <3> QED
      BY <3>1, <3>2 DEF In
  <2>5. PICK w \in {x, y} : buf' = [buf EXCEPT ![k] = w]
    <3>1. CASE k = front
      BY <2>1, <3>1 DEF RecordShown
    <3>2. CASE k # front
      <4>1. CASE buf[k].known
        BY <2>1, <3>2, <4>1 DEF RecordHidden, OnHidden
      <4>2. CASE ~buf[k].known
        BY <2>1, <3>2, <4>2 DEF RecordHidden, OnHidden
      <4> QED
        BY <4>1, <4>2
    <3> QED
      BY <3>1, <3>2
  <2> HIDE DEF x, y
  <2> QED
    BY <2>2, <2>3, <2>4, <2>5, OneIn
<1>3. CASE Gdi
  <2>1. PICK a \in GdiBoxes, c \in Colours : buf' = [buf EXCEPT ![0] = Paint(@, Area(a), c)]
    BY <1>3 DEF Gdi
  <2> DEFINE w == Paint(buf[0], Area(a), c)
  <2>2. 0 \in 0 .. 1 /\ In(G, buf[0])
    BY <1>1
  <2>3. In(G, w)
    BY ONLY <2>2, SameIn
  <2>4. buf' = [buf EXCEPT ![0] = w]
    BY <2>1
  <2> HIDE DEF w
  <2> QED
    BY ONLY DescIn(G), <2>2, <2>3, <2>4, OneIn
<1> QED
  BY <1>2, <1>3

(* and so do creation and destruction.                                     *)
LEMMA PairIn ==
  ASSUME NEW G, Closed(G), Named(G), DescIn(G), Create16 \/ Destroy16
  PROVE  DescIn(G)'
<1>1. \A k \in 0 .. 1 : In(G, buf[k]) /\ In(G, ReadyAll(buf[k]))
  BY TrisToRamIn DEF DescIn
<1>2. CASE Create16
  <2>1. buf' = [k \in 0 .. 1 |-> Cleared(buf[k], Black)]
    BY <1>2 DEF Create16
  <2>2. \A k \in 0 .. 1 : In(G, Cleared(buf[k], Black))
    BY <1>1, SameIn
  <2> QED
    BY <2>1, <2>2 DEF DescIn
<1>3. CASE Destroy16
  <2> DEFINE B == [buf EXCEPT ![0] = ReadyAll(@)]
  <2>1. \A k \in 0 .. 1 : In(G, B[k])
    BY <1>1 DEF DescIn
  <2>2. buf' = [k \in 0 .. 1 |-> [Unknown(B[k]) EXCEPT !.tris = << >>]]
    BY <1>3 DEF Destroy16
  <2> HIDE DEF B
  <2>3. ASSUME NEW k \in 0 .. 1 PROVE In(G, [Unknown(B[k]) EXCEPT !.tris = << >>])
    <3>1. In(G, Unknown(B[k]))
      BY <2>1, SameIn
    <3> QED
      BY <3>1, SameIn
  <2> QED
    BY <2>2, <2>3 DEF DescIn
<1> QED
  BY <1>2, <1>3

(* What a description and a held lock name is of the kind the program uses.*)
LEMMA InStep ==
  ASSUME NEW G, Closed(G), Named(G), DescIn(G), HeldIn(G), BufInv, [Next]_vars
  PROVE  DescIn(G)' /\ HeldIn(G)'
<1>1. CASE \/ \E k \in Buffers, a \in Boxes, c \in Colours : BltFill(k, a, c)
           \/ BltCopy \/ BltSelf
           \/ \E k, s \in Buffers, a \in Boxes, c \in Colours : BltOwn(k, s, a, c)
  <2>0. /\ \A B : OnShown(B) \/ OnHidden(B) => UNCHANGED held
        /\ \A k, a, c : FillShown(k, a, c) \/ FillHidden(k, a, c) => UNCHANGED held
        /\ \A k, a, s, src, m, keyed :
              CopyShown(k, a, s, src, m, keyed) \/ CopyHidden(k, a, s, src, m, keyed) => UNCHANGED held
    <3>1. \A B : OnShown(B) \/ OnHidden(B) => UNCHANGED held
      BY DEF OnShown, OnHidden, progVars
    <3>2. \A k, a, c : FillShown(k, a, c) \/ FillHidden(k, a, c) => UNCHANGED held
      BY <3>1 DEF FillShown, FillHidden
    <3>3. \A k, a, s, src, m, keyed :
              CopyShown(k, a, s, src, m, keyed) \/ CopyHidden(k, a, s, src, m, keyed) => UNCHANGED held
      BY <3>1 DEF CopyShown, CopyHidden
    <3> QED
      BY <3>1, <3>2, <3>3
  <2>1. UNCHANGED held
    <3>1. CASE \E k \in Buffers, a \in Boxes, c \in Colours : BltFill(k, a, c)
      BY <2>0, <3>1 DEF BltFill
    <3>2. CASE BltCopy
      BY <2>0, <3>2 DEF BltCopy
    <3>3. CASE BltSelf
      BY <2>0, <3>3 DEF BltSelf
    <3>4. CASE \E k, s \in Buffers, a \in Boxes, c \in Colours : BltOwn(k, s, a, c)
      BY <2>0, <3>4 DEF BltOwn, progVars
    <3> QED
      BY <1>1, <3>1, <3>2, <3>3, <3>4
  <2> QED
    BY <1>1, <2>1, BltIn DEF HeldIn
<1>2. CASE Lock \/ WriteLocked \/ Unlock
  BY <1>2, LocksIn
<1>3. CASE Record \/ Gdi
  <2>1. UNCHANGED held
    BY <1>3 DEF Record, Triangle, RecordShown, RecordHidden, OnHidden, Gdi, progVars
  <2> QED
    BY <1>3, <2>1, DrawIn DEF HeldIn
<1>4. CASE Create16 \/ Destroy16
  <2>1. UNCHANGED held
    BY <1>4 DEF Create16, Destroy16, progVars
  <2> QED
    BY <1>4, <2>1, PairIn DEF HeldIn
<1>5. CASE ContextCreate \/ ContextEnd \/ Flip \/ UNCHANGED vars
  <2>1. UNCHANGED <<buf, held>>
    BY <1>5 DEF ContextCreate, ContextEnd, Flip, vars, progVars
  <2> QED
    BY <2>1 DEF DescIn, HeldIn
<1> QED
  BY <1>1, <1>2, <1>3, <1>4, <1>5 DEF Next

(* At first no rectangle is described or held.                             *)
LEMMA InInit ==
  ASSUME NEW G, Init
  PROVE  DescIn(G) /\ HeldIn(G)
<1>1. << >> \in Seq(G) /\ << >> \in Seq(Tris)
  OBVIOUS
<1>2. held = [i \in 1 .. HeldMax |-> NoRect]
      /\ buf = [k \in 0 .. 1 |-> [ram |-> [p \in Pixels |-> Black], known |-> FALSE, filled |-> FALSE,
                                  colour |-> Black, d |-> << >>, tris |-> << >>]]
  BY DEF Init
<1> QED
  BY <1>1, <1>2 DEF DescIn, HeldIn, In

-----------------------------------------------------------------------------
(* Fingerprints that speak the truth.                                      *)

(* Entries that send no piece in part.                                     *)
WholeSends == {e \in EntryType : e.op = "send" => e.a \in Aligned(SegW)}

(* An entry leaves true fingerprints true.                                 *)
LEMMA ApplyHonest ==
  ASSUME NEW B, NEW c, IsCard(c), NEW s, NEW e \in WholeSends,
         AllHonest(c) \/ (e.op = "forget" /\ e.a = Screen)
  PROVE  AllHonest(Apply(B, Way(c, s, << >>), e).card)
<1>1. CASE e.op = "send"
  <2> DEFINE v == SendRect(c, B[s].ram, e.a, e.arg)
  <2>1. AllHonest(v)
    BY <1>1, SendRectHonest DEF WholeSends
  <2>2. Apply(B, Way(c, s, << >>), e) = Way(v, s, << >>)
    BY <1>1 DEF Apply, Way
  <2> HIDE DEF v
  <2> QED
    BY <2>1, <2>2 DEF Way
<1>2. CASE e.op = "fill"
  <2> DEFINE v == IF Area(e.a) = {} THEN c ELSE Solid(c, e.a, e.arg)
  <2>1. AllHonest(c)
    BY <1>2
  <2>2. \A p \in Pixels : Honest(Solid(c, e.a, e.arg), p)
    <3> DEFINE a == e.a
               x == e.arg
    <3>1. \A p \in Pixels : Honest(c, p)
      BY <2>1 DEF AllHonest
    <3> HIDE DEF a, x
    <3>2. \A p \in Pixels : Honest(Solid(c, a, x), p)
      BY ONLY IsCard(c), <3>1, SolidFacts
    <3> QED
      BY <3>2 DEF a, x
  <2>3. AllHonest(v)
    BY <2>1, <2>2 DEF AllHonest
  <2>4. Apply(B, Way(c, s, << >>), e) = Way(v, s, << >>)
    BY <1>2 DEF Apply, Way
  <2> HIDE DEF v
  <2> QED
    BY <2>3, <2>4 DEF Way
<1>3. CASE e.op = "forget"
  <2> DEFINE v == Forget(c, e.a)
  <2>1. AllHonest(v)
    BY ForgetHonest
  <2>2. Apply(B, Way(c, s, << >>), e) = Way(v, s, << >>)
    BY <1>3 DEF Apply, Way
  <2> HIDE DEF v
  <2> QED
    BY <2>1, <2>2 DEF Way
<1>4. CASE e.op \in {"select", "alloc", "free"}
  <2>1. \E x : Apply(B, Way(c, s, << >>), e) = Way(c, x, << >>)
    BY <1>4 DEF Apply, Way
  <2>2. AllHonest(c)
    BY <1>4
  <2> QED
    BY <2>1, <2>2 DEF Way
<1>5. e.op \in {"send", "fill", "select", "alloc", "free", "forget"}
  BY DEF EntryType, WholeSends
<1> QED
  BY <1>1, <1>2, <1>3, <1>4, <1>5

(* A row of entries does.                                                  *)
LEMMA FoldHonest ==
  ASSUME NEW B, NEW c, IsCard(c), AllHonest(c), NEW s, NEW seq \in Seq(WholeSends)
  PROVE  AllHonest(Applying!Fold(B, Way(c, s, << >>), seq).card)
<1> DEFINE n == Len(seq)
           base == Way(c, s, << >>)
<1>1. n \in Nat /\ DOMAIN seq = 1 .. n /\ \A i \in 1 .. n : seq[i] \in WholeSends
  OBVIOUS
<1>2. base.card = c /\ base.sel = s
  BY DEF Way
<1> HIDE DEF n, base
<1>3. PICK f : Applying!Trace(B, base, seq, n, f)
  BY <1>1, Inductions, Applying!FoldTrace
<1>4. /\ f[0] = base /\ f[n] = Applying!Fold(B, base, seq)
      /\ \A i \in 0 .. n - 1 : f[i + 1] = Apply(B, f[i], seq[i + 1])
  BY <1>3 DEF Applying!Trace
<1> DEFINE S == {i \in Nat : i <= n => /\ f[i] = Way(f[i].card, f[i].sel, << >>)
                                       /\ IsCard(f[i].card) /\ AllHonest(f[i].card)}
<1>5. 0 \in S
  BY <1>2, <1>4 DEF base
<1>6. ASSUME NEW i \in Nat, i \in S PROVE i + 1 \in S
  <2> SUFFICES ASSUME i + 1 <= n
               PROVE  /\ f[i + 1] = Way(f[i + 1].card, f[i + 1].sel, << >>)
                      /\ IsCard(f[i + 1].card) /\ AllHonest(f[i + 1].card)
    OBVIOUS
  <2>1. i \in 0 .. n - 1 /\ i + 1 \in 1 .. n /\ i <= n
    BY <1>1
  <2> DEFINE e == seq[i + 1]
             v == f[i].card
             q == f[i].sel
  <2>2. e \in WholeSends /\ f[i] = Way(v, q, << >>) /\ IsCard(v) /\ AllHonest(v)
    BY <1>1, <1>6, <2>1
  <2>3. f[i + 1] = Apply(B, f[i], e)
    BY <1>4, <2>1
  <2> HIDE DEF e, v, q
  <2> DEFINE w == Apply(B, Way(v, q, << >>), e)
  <2>4. e \in EntryType
    BY <2>2 DEF WholeSends
  <2>5. w = Way(w.card, SelAfter(q, e), << >>) /\ IsCard(w.card)
    BY <2>2, <2>4, ApplyFacts
  <2>6. AllHonest(w.card)
    BY <2>2, ApplyHonest
  <2> HIDE DEF w
  <2>7. w.sel = SelAfter(q, e)
    BY <2>5 DEF Way
  <2>8. f[i + 1] = w
    BY <2>2, <2>3 DEF w
  <2> QED
    BY <2>5, <2>6, <2>7, <2>8
<1> HIDE DEF S
<1>7. \A i \in Nat : i \in S
  BY <1>5, <1>6, Induct
<1>8. n \in S /\ n <= n
  BY <1>1, <1>7
<1> QED
  BY <1>4, <1>8 DEF S, base

(* And one that forgets the whole screen makes them true.                  *)
LEMMA ForgetMends ==
  ASSUME NEW B, NEW c, IsCard(c), NEW s, NEW pre \in Seq(EntryType), NEW rest \in Seq(WholeSends)
  PROVE  AllHonest(Applying!Fold(B, Way(c, s, << >>),
                                 pre \o <<Entry("forget", Screen, 0)>> \o rest).card)
<1> DEFINE e    == Entry("forget", Screen, 0)
           one  == <<e>>
           head == pre \o one
           x    == Applying!Fold(B, Way(c, s, << >>), pre)
           y    == Apply(B, x, e)
<1>1. e \in EntryType /\ e.op = "forget" /\ e.a = Screen
  BY EntryFacts, ScreenFacts
<1>2. e \in WholeSends
  BY <1>1 DEF WholeSends
<1> HIDE DEF e
<1>3. one \in Seq(EntryType) /\ head \in Seq(EntryType)
  BY <1>1
<1> HIDE DEF one
<1>4. rest \in Seq(EntryType)
  <2>1. WholeSends \subseteq EntryType
    BY DEF WholeSends
  <2> QED
    BY <2>1, SeqWider
<1>5. x = Way(x.card, x.sel, << >>) /\ IsCard(x.card)
  BY ApplyFold
<1> HIDE DEF x
<1>6. Applying!Fold(B, Way(c, s, << >>), head) = Applying!Fold(B, x, one)
  BY <1>3, Inductions, Applying!FoldConcat DEF x
<1>7. Applying!Fold(B, x, one) = y
  BY Inductions, Applying!FoldOne DEF one
<1>8. y = Way(y.card, SelAfter(x.sel, e), << >>) /\ IsCard(y.card)
  BY <1>1, <1>5, ApplyFacts
<1>9. AllHonest(y.card)
  <2>1. AllHonest(Apply(B, Way(x.card, x.sel, << >>), e).card)
    BY <1>1, <1>2, <1>5, ApplyHonest
  <2> QED
    BY <1>5, <2>1
<1> HIDE DEF y, head
<1>10. Applying!Fold(B, Way(c, s, << >>), head \o rest) = Applying!Fold(B, y, rest)
  BY <1>3, <1>4, <1>6, <1>7, Inductions, Applying!FoldConcat
<1>11. AllHonest(Applying!Fold(B, y, rest).card)
  BY <1>8, <1>9, FoldHonest
<1> QED
  BY <1>10, <1>11 DEF head, one, e

(* What the fast Flip left waiting changes nothing on the card.            *)
LEMMA WaitingKept ==
  ASSUME CardInv, front \in 0 .. 1, NEW B
  PROVE  Flushed(B, D0) = Way(card, front, << >>)
<1> DEFINE e == Entry("select", Screen, front)
           x == Flushed(B, D0)
<1>1. D0 = Way(card, sel, batch) /\ IsWay(D0) /\ x.sel = front
  BY WayFacts
<1>2. D0.card = card /\ D0.sel = sel /\ D0.batch = batch
  BY DEF D0
<1>3. x = Applying!Fold(B, Way(card, sel, << >>), batch) /\ x = Way(x.card, x.sel, << >>)
  BY <1>1, <1>2, FlushedFacts
<1>4. e.op = "select"
  BY DEF Entry
<1> HIDE DEF e, x
<1>5. x.card = card
  <2>1. CASE batch = << >>
    <3>1. x = Way(card, sel, << >>)
      BY <1>3, <2>1, Inductions, Applying!FoldEmpty
    <3> QED
      BY <3>1 DEF Way
  <2>2. CASE batch = <<e>>
    <3>1. x = Apply(B, Way(card, sel, << >>), e)
      BY <1>3, <2>2, Inductions, Applying!FoldOne
    <3> QED
      BY <1>4, <3>1 DEF Apply, Way
  <2> QED
    BY <2>1, <2>2 DEF CardInv, e
<1> QED
  BY <1>1, <1>3, <1>5 DEF x

-----------------------------------------------------------------------------
(* What each step does to the fingerprints.                                *)

FpMarked == AllHonest(card) \/ (fpStale /\ live)

PagedInv == paged => live /\ fpStale

FpInv == FpMarked /\ PagedInv

(* What is sent at once.                                                   *)
LEMMA SendNowHonest ==
  ASSUME CardInv, AllHonest(card), NEW B, NEW a \in Aligned(SegW), NEW solid,
         SendNow(B, a, solid)
  PROVE  AllHonest(card)'
<1>1. IsCard(card)
  BY DEF CardInv
<1>2. AllHonest(SendRect(card, B[sel].ram, a, solid))
  BY <1>1, SendRectHonest
<1>3. AllHonest(card')
  BY <1>2 DEF SendNow
<1> QED
  BY <1>3 DEF AllHonest, Honest

(* m8dd_copied of whole pieces leaves honest fingerprints.                 *)
LEMMA CopyNowHonest ==
  ASSUME CardInv, AllHonest(card), NEW B, NEW a \in Aligned(SegW), NEW m, CopyNow(B, a, m)
  PROVE  AllHonest(card)'
<1>1. IsCard(card)
  BY DEF CardInv
<1>2. AllHonest(CardCopy(card, a, m[1], m[2])) /\ AllHonest(Flush(card, B[sel].ram, a))
  BY <1>1, CopyHonest, FlushHonest
<1>3. AllHonest(card')
  BY <1>2 DEF CopyNow
<1> QED
  BY <1>3 DEF AllHonest, Honest

(* So does sending what differs.                                           *)
LEMMA SendDiffHonest ==
  ASSUME CardInv, AllHonest(card), NEW B, NEW old, NEW new, SendDiff(B, old, new)
  PROVE  AllHonest(card)'
<1> DEFINE mem == B[sel].ram
           seq == SetToSeq(DiffRects(old, new))
           n   == Cardinality(DiffRects(old, new))
<1>1. n \in Nat /\ DOMAIN seq = 1 .. n
  BY DiffFinite, SeqOfSet
<1>2. card' = Sending!Fold(mem, card, seq)
  BY DEF SendDiff, Sending!Fold, SendExact, FoldLeft,
         MapThenFoldSet, Max, Sending!Last
<1> HIDE DEF mem, seq, n
<1>3. PICK f : Sending!Trace(mem, card, seq, n, f)
  BY <1>1, Inductions, Sending!FoldTrace
<1>4. f[0] = card /\ f[n] = card'
      /\ \A i \in 0 .. n - 1 : f[i + 1] = SendRect(f[i], mem, seq[i + 1], Exact)
  BY <1>2, <1>3 DEF Sending!Trace, SendExact
<1> DEFINE S == {i \in Nat : i <= n => IsCard(f[i]) /\ AllHonest(f[i])}
<1>5. 0 \in S
  BY <1>4 DEF CardInv
<1>6. ASSUME NEW i \in Nat, i \in S PROVE i + 1 \in S
  <2> SUFFICES ASSUME i + 1 <= n PROVE IsCard(f[i + 1]) /\ AllHonest(f[i + 1])
    OBVIOUS
  <2>1. i \in 0 .. n - 1 /\ i <= n
    BY <1>1
  <2>2. IsCard(f[i]) /\ AllHonest(f[i])
    BY <1>6, <2>1
  <2> QED
    BY <1>4, <2>1, <2>2, SendRectType, SendRectHonest
<1> HIDE DEF S
<1>7. \A i \in Nat : i \in S
  BY <1>5, <1>6, Induct
<1>8. n \in S /\ n <= n
  BY <1>1, <1>7
<1>9. AllHonest(card')
  BY <1>4, <1>8 DEF S
<1> QED
  BY <1>9 DEF AllHonest, Honest

(* A step that leaves the pair and fpStale keeps the invariant when it     *)
(* keeps true fingerprints true.                                           *)
LEMMA FpKept ==
  ASSUME FpMarked, AllHonest(card) => AllHonest(card)', UNCHANGED <<fpStale, live>>
  PROVE  FpMarked'
  BY DEF FpMarked

(* What does not touch the card leaves fingerprints as honest as before.   *)
LEMMA FpUnsent ==
  ASSUME FpMarked, UNCHANGED <<card, fpStale, live>>
  PROVE  FpMarked'
<1>1. AllHonest(card) => AllHonest(card)'
  BY DEF AllHonest, Honest
<1> QED
  BY <1>1, FpKept

(* Blts of whole pieces keep fingerprints honest,                          *)
LEMMA FpBlt ==
  ASSUME Named(Aligned(SegW)), CardInv, FpMarked,
         \/ \E k \in Buffers, a \in Boxes, c \in Colours : BltFill(k, a, c)
         \/ BltCopy \/ BltSelf
         \/ \E k, s \in Buffers, a \in Boxes, c \in Colours : BltOwn(k, s, a, c)
  PROVE  FpMarked'
<1>0. /\ \A B : OnHidden(B) => UNCHANGED <<card, fpStale, live>>
      /\ \A B : OnShown(B) => UNCHANGED <<fpStale, live>>
      /\ \A a \in Boxes : a \in Aligned(SegW)
  BY DEF OnHidden, OnShown, cardVars, bookVars, Named
<1>1. CASE \E B : OnHidden(B)
  BY <1>0, <1>1, FpUnsent
<1>2. CASE \E B : \E a \in Boxes : \E solid : OnShown(B) /\ SendNow(B, a, solid)
  BY <1>0, <1>2, SendNowHonest, FpKept
<1>3. CASE \E B, old, new : OnShown(B) /\ SendDiff(B, old, new)
  BY <1>0, <1>3, SendDiffHonest, FpKept
<1>4. CASE \E B : \E a \in Boxes : \E m : OnShown(B) /\ CopyNow(B, a, m)
  BY <1>0, <1>4, CopyNowHonest, FpKept
<1>5. CASE \E k \in Buffers, a \in Boxes, c \in Colours : BltFill(k, a, c)
  <2>1. PICK k \in Buffers, a \in Boxes, c \in Colours : BltFill(k, a, c)
    BY <1>5
  <2>2. FillShown(k, a, c) \/ FillHidden(k, a, c)
    BY <2>1 DEF BltFill
  <2>3. \/ \E B : OnHidden(B)
        \/ \E B : OnShown(B) /\ SendNow(B, a, 1)
    BY ONLY <2>2 DEF FillShown, FillHidden
  <2>4. CASE \E B : OnShown(B) /\ SendNow(B, a, 1)
    <3>1. \E B : \E q \in Boxes : \E solid : OnShown(B) /\ SendNow(B, q, solid)
      BY <2>4
    <3> QED
      BY ONLY <3>1, <1>2
  <2> QED
    BY ONLY <1>1, <2>3, <2>4
<1>6. CASE BltCopy
  <2>1. PICK k \in Buffers, a \in Boxes :
          \E s, src, m, keyed :
             CopyShown(k, a, s, src, m, keyed) \/ CopyHidden(k, a, s, src, m, keyed)
    BY <1>6 DEF BltCopy
  <2>2. \E B : \/ OnHidden(B)
               \/ OnShown(B) /\ SendNow(B, a, 0)
               \/ \E old, new : OnShown(B) /\ SendDiff(B, old, new)
    BY <2>1 DEF CopyShown, CopyHidden
  <2>3. CASE \E B : OnShown(B) /\ SendNow(B, a, 0)
    <3>1. \E B : \E q \in Boxes : \E solid : OnShown(B) /\ SendNow(B, q, solid)
      BY <2>3
    <3> QED
      BY ONLY <3>1, <1>2
  <2> QED
    BY ONLY <1>1, <1>3, <2>2, <2>3
<1>7. CASE BltSelf
  <2>1. \/ \E B : OnHidden(B)
        \/ \E a \in Boxes : \E m : \E B : OnShown(B) /\ CopyNow(B, a, m)
    BY <1>7 DEF BltSelf
  <2>2. CASE \E a \in Boxes : \E m : \E B : OnShown(B) /\ CopyNow(B, a, m)
    <3>1. \E B : \E a \in Boxes : \E m : OnShown(B) /\ CopyNow(B, a, m)
      BY <2>2
    <3> QED
      BY ONLY <3>1, <1>4
  <2> QED
    BY ONLY <1>1, <2>1, <2>2
<1>8. CASE \E k, s \in Buffers, a \in Boxes, c \in Colours : BltOwn(k, s, a, c)
  <2>1. \/ \E B : OnHidden(B)
        \/ UNCHANGED <<card, fpStale, live>>
    BY <1>8 DEF BltOwn, cardVars
  <2> QED
    BY <1>1, <2>1, FpUnsent
<1> QED
  BY <1>5, <1>6, <1>7, <1>8

(* so do unlocks, triangles and GDI.                                       *)
LEMMA FpDraw ==
  ASSUME Named(Aligned(SegW)), HeldIn(Aligned(SegW)), CardInv, FpMarked, Unlock \/ Record \/ Gdi
  PROVE  FpMarked'
<1>1. CASE Unlock
  <2>1. PICK i \in DOMAIN locks :
          LET Mine == IF locks[i].k = front THEN 1 .. HeldMax \ Free ELSE {}
          IN  IF Mine # {} THEN SendNow(buf, held[Min(Mine)], 0) ELSE UNCHANGED card
    BY <1>1 DEF Unlock
  <2> DEFINE Mine == IF locks[i].k = front THEN 1 .. HeldMax \ Free ELSE {}
  <2>2. UNCHANGED <<fpStale, live>>
    BY <1>1 DEF Unlock, bookVars
  <2>3. CASE Mine # {}
    <3> DEFINE m == Min(Mine)
    <3>1. m \in 1 .. HeldMax \ Free
      <4>1. Mine \in SUBSET Nat
        OBVIOUS
      <4>2. PICK x \in Mine : \A y \in Mine : x <= y
        BY <2>3, <4>1, NatMin
      <4>3. m \in Mine
        BY <4>2 DEF Min
      <4> QED
        BY <4>3
    <3> HIDE DEF m
    <3>2. held[m] \in Aligned(SegW)
      BY <3>1 DEF HeldIn, Free
    <3>3. SendNow(buf, held[m], 0)
      BY <2>1, <2>3 DEF m
    <3>4. AllHonest(card) => AllHonest(card)'
      BY <3>2, <3>3, SendNowHonest
    <3> QED
      BY <2>2, <3>4, FpKept
  <2>4. CASE Mine = {}
    <3>1. UNCHANGED card
      BY <2>1, <2>4
    <3> QED
      BY <2>2, <3>1, FpUnsent
  <2> QED
    BY <2>3, <2>4
<1>2. CASE Record
  <2>1. CASE \E B : OnHidden(B)
    <3>1. UNCHANGED <<card, fpStale, live>>
      BY <2>1 DEF OnHidden, cardVars, bookVars
    <3> QED
      BY <3>1, FpUnsent
  <2>2. CASE \E k, t : RecordShown(k, t)
    <3>1. PICK B : SendNow(B, Screen, 0)
      BY <2>2 DEF RecordShown
    <3>2. UNCHANGED <<fpStale, live>>
      BY <2>2 DEF RecordShown
    <3>3. AllHonest(card) => AllHonest(card)'
      BY <3>1, AlignedFacts, SendNowHonest
    <3> QED
      BY <3>2, <3>3, FpKept
  <2> QED
    BY <1>2, <2>1, <2>2 DEF Record, Triangle, RecordHidden
<1>3. CASE Gdi
  <2>1. PICK a \in GdiBoxes : card' = card \/ \E B : card' = Flush(card, B[sel].ram, a)
    BY <1>3 DEF Gdi
  <2>2. a \in Aligned(SegW) /\ IsCard(card)
    BY DEF Named, CardInv
  <2>3. UNCHANGED <<fpStale, live>>
    BY <1>3 DEF Gdi, bookVars
  <2>4. ASSUME AllHonest(card) PROVE AllHonest(card)'
    <3>1. AllHonest(card')
      BY <2>1, <2>2, <2>4, FlushHonest
    <3> QED
      BY <3>1 DEF AllHonest, Honest
  <2> QED
    BY <2>3, <2>4, FpKept
<1> QED
  BY <1>1, <1>2, <1>3

(* The pair made: the card is not touched.                                 *)
LEMMA CreateKeeps ==
  ASSUME BufInv, CardInv, Create16
  PROVE  card' = card
<1> DEFINE e == Entry("alloc", Screen, 0)
           d == Flushed(buf, Push(buf, D0, e))
           x == Way(card, front, << >>)
<1>1. front \in 0 .. 1 /\ Becomes(d)
  BY DEF Create16, BufInv, Buffers
<1>2. e \in EntryType /\ e.op = "alloc"
  BY EntryFacts, ScreenFacts
<1> HIDE DEF e
<1>3. d = Apply(buf, Flushed(buf, D0), e)
  BY <1>1, <1>2, WayFacts, FlushPush
<1>4. Flushed(buf, D0) = x
  BY <1>1, WaitingKept
<1>5. Apply(buf, x, e) = x
  BY <1>2 DEF Apply
<1> HIDE DEF d
<1>6. d.card = card
  BY <1>3, <1>4, <1>5 DEF Way
<1> QED
  BY <1>1, <1>6 DEF Becomes

(* No triangle is on it without a pair.                                    *)
LEMMA FpCreate ==
  ASSUME BufInv, CardInv, FpMarked, Create16
  PROVE  FpMarked'
<1>1. card' = card /\ AllHonest(card)
  BY CreateKeeps DEF Create16, BufInv, Buffers, FpMarked
<1> QED
  BY <1>1 DEF FpMarked, AllHonest, Honest

(* The pair given up: the fingerprints go before the screen is sent.       *)
LEMMA FpDestroy ==
  ASSUME BufInv, CardInv, Destroy16
  PROVE  FpMarked'
<1> DEFINE B    == [buf EXCEPT ![0] = ReadyAll(@)]
           pre  == <<Entry("select", Screen, 0)>>
           rest == <<Entry("send", Screen, 0), Entry("free", Screen, 0)>>
           list == <<Entry("select", Screen, 0), Entry("forget", Screen, 0),
                     Entry("send", Screen, 0), Entry("free", Screen, 0)>>
           d    == Flushed(B, PushAll(B, D0, list))
           mid  == pre \o <<Entry("forget", Screen, 0)>> \o rest
<1>1. front \in 0 .. 1 /\ Becomes(d)
  BY BufferIndex DEF Destroy16, BufInv
<1>2. /\ pre \in Seq(EntryType) /\ rest \in Seq(WholeSends) /\ mid \in Seq(EntryType)
  <2>1. /\ Entry("select", Screen, 0) \in EntryType /\ Entry("forget", Screen, 0) \in EntryType
        /\ Entry("send", Screen, 0) \in EntryType /\ Entry("free", Screen, 0) \in EntryType
        /\ Entry("send", Screen, 0).a = Screen /\ Entry("free", Screen, 0).a = Screen
    BY EntryFacts, ScreenFacts
  <2>2. Entry("send", Screen, 0) \in WholeSends /\ Entry("free", Screen, 0) \in WholeSends
    BY <2>1, AlignedFacts DEF WholeSends
  <2> QED
    BY <2>1, <2>2
<1>3. list = mid
  OBVIOUS
<1> HIDE DEF B, list, pre, rest
<1>4. d = Applying!Fold(B, Flushed(B, D0), mid)
  BY <1>1, <1>2, <1>3, WayFacts, BatchExact
<1>5. Flushed(B, D0) = Way(card, front, << >>) /\ IsCard(card)
  BY <1>1, WaitingKept DEF CardInv
<1>6. AllHonest(d.card)
  <2>1. AllHonest(Applying!Fold(B, Way(card, front, << >>), mid).card)
    BY <1>2, <1>5, ForgetMends
  <2> QED
    BY <1>4, <1>5, <2>1
<1> HIDE DEF d, mid
<1>7. AllHonest(card)'
  BY <1>1, <1>6 DEF Becomes, AllHonest, Honest
<1> QED
  BY <1>7 DEF FpMarked

-----------------------------------------------------------------------------
(* What m8dd_fill_outside fills.                                           *)

FillOf(c) == {e \in EntryType : e.op = "fill" /\ e.arg = c}

(* A list of fills, one for each rectangle.                                *)
LEMMA FilledFacts ==
  ASSUME NEW d \in Seq(Rect), NEW c \in Colours
  PROVE  /\ Filled(d, c) \in Seq(FillOf(c))
         /\ DOMAIN Filled(d, c) = DOMAIN d
         /\ \A i \in DOMAIN d : Filled(d, c)[i].a = d[i]
<1> DEFINE n == Len(d)
           s == Filled(d, c)
<1>1. n \in Nat /\ DOMAIN d = 1 .. n /\ \A i \in 1 .. n : d[i] \in Rect
  OBVIOUS
<1>2. s = [i \in 1 .. n |-> Entry("fill", d[i], c)]
  BY <1>1 DEF Filled
<1>3. ASSUME NEW i \in 1 .. n PROVE Entry("fill", d[i], c) \in FillOf(c) /\ Entry("fill", d[i], c).a = d[i]
  <2> DEFINE a == d[i]
  <2>1. a \in Rect
    BY <1>1
  <2> HIDE DEF a
  <2>2. Entry("fill", a, c) \in EntryType /\ Entry("fill", a, c).op = "fill"
        /\ Entry("fill", a, c).a = a /\ Entry("fill", a, c).arg = c
    BY <2>1, EntryFacts
  <2> QED
    BY <2>2 DEF FillOf, a
<1>4. s \in [1 .. n -> FillOf(c)]
  BY <1>2, <1>3
<1> QED
  BY <1>1, <1>2, <1>3, <1>4

(* Fills of the description's colour, over all of the old frame that the   *)
(* description's rectangles do not cover.                                  *)
LEMMA FillsFacts ==
  ASSUME NEW t, Fits(t), seen.d \in Seq(Rect), box[0] \in Seq(Rect)
  PROVE  /\ Fills(t) \in Seq(FillOf(t.colour))
         /\ \A p \in Cover(Erase) \ Cover(t.d) :
               \E i \in DOMAIN Fills(t) : p \in Area(Fills(t)[i].a)
<1> DEFINE n == Len(Erase)
           c == t.colour
           D == t.d
           Q == FillOf(c)
<1>1. Erase \in Seq(Rect)
  BY DEF Erase
<1>2. n \in Nat /\ DOMAIN Erase = 1 .. n /\ \A i \in 1 .. n : Erase[i] \in Rect
  BY <1>1
<1>3. D \in Seq(Rect) /\ c \in Colours
  BY DEF Fits, BufType
<1> HIDE DEF n
<1>4. PICK f : Filling!Trace(t, << >>, Erase, n, f)
  BY <1>2, Inductions, Filling!FoldTrace
<1>5. /\ f[0] = << >> /\ f[n] = Fills(t)
      /\ \A i \in 0 .. n - 1 : f[i + 1] = f[i] \o Filled(Outside(D, Erase[i + 1]), c)
  BY <1>4, AsFolds DEF Filling!Trace, AddFills
<1> HIDE DEF c, D, Q
<1> DEFINE Hit(s, p) == \E j \in DOMAIN s : p \in Area(s[j].a)
           S == {i \in Nat : i <= n => /\ f[i] \in Seq(Q)
                                       /\ \A k \in 1 .. i : \A p \in Area(Erase[k]) \ Cover(D) :
                                             Hit(f[i], p)}
<1>6. 0 \in S
  <2>1. f[0] \in Seq(Q) /\ 1 .. 0 = {}
    BY <1>5
  <2> HIDE DEF Hit
  <2> QED
    BY <2>1
<1>7. ASSUME NEW i \in Nat, i \in S PROVE i + 1 \in S
  <2> SUFFICES ASSUME i + 1 <= n
               PROVE  /\ f[i + 1] \in Seq(Q)
                      /\ \A k \in 1 .. i + 1 : \A p \in Area(Erase[k]) \ Cover(D) : Hit(f[i + 1], p)
    OBVIOUS
  <2>1. i \in 0 .. n - 1 /\ i + 1 \in 1 .. n /\ i <= n
    BY <1>2
  <2> DEFINE o   == Erase[i + 1]
             out == Outside(D, o)
             new == Filled(out, c)
             old == f[i]
  <2>2. old \in Seq(Q) /\ \A k \in 1 .. i : \A p \in Area(Erase[k]) \ Cover(D) : Hit(old, p)
    BY <1>7, <2>1
  <2>3. f[i + 1] = old \o new
    BY <1>5, <2>1
  <2>4. o \in Rect
    BY <1>2, <2>1
  <2> HIDE DEF o
  <2>5. out \in Seq(Rect) /\ Cover(out) = Area(o) \ Cover(D)
    BY <1>3, <2>4, OutsideExact
  <2> HIDE DEF out
  <2>6. new \in Seq(Q) /\ DOMAIN new = DOMAIN out /\ \A j \in DOMAIN out : new[j].a = out[j]
    BY <1>3, <2>5, FilledFacts DEF Q
  <2>7. \A p \in Area(o) \ Cover(D) : Hit(new, p)
    <3> SUFFICES ASSUME NEW p \in Area(o) \ Cover(D) PROVE Hit(new, p)
      OBVIOUS
    <3>1. PICK j \in DOMAIN out : p \in Area(out[j])
      BY <2>5 DEF Cover
    <3> QED
      BY <2>6, <3>1
  <2> HIDE DEF new, old, Hit
  <2> DEFINE both == old \o new
             l    == Len(old)
  <2>8. /\ both \in Seq(Q) /\ l \in Nat /\ DOMAIN old = 1 .. l
        /\ \A j \in DOMAIN old : j \in DOMAIN both /\ both[j] = old[j]
        /\ \A j \in DOMAIN new : l + j \in DOMAIN both /\ both[l + j] = new[j]
    BY <2>2, <2>6
  <2> HIDE DEF both, l
  <2>9. \A p : Hit(old, p) \/ Hit(new, p) => Hit(both, p)
    BY <2>8 DEF Hit
  <2>10. ASSUME NEW k \in 1 .. i + 1, NEW p \in Area(Erase[k]) \ Cover(D) PROVE Hit(both, p)
    <3>1. CASE k = i + 1
      BY <2>7, <2>9, <3>1 DEF o
    <3>2. CASE k # i + 1
      <4>1. k \in 1 .. i
        BY <3>2
      <4> QED
        BY <2>2, <2>9, <4>1
    <3> QED
      BY <3>1, <3>2
  <2> QED
    BY <2>3, <2>8, <2>10 DEF both
<1> HIDE DEF S
<1>8. \A i \in Nat : i \in S
  BY <1>6, <1>7, Induct
<1>9. n \in S /\ n <= n
  BY <1>2, <1>8
<1>10. /\ Fills(t) \in Seq(Q)
       /\ \A k \in 1 .. n : \A p \in Area(Erase[k]) \ Cover(D) : Hit(Fills(t), p)
  BY <1>5, <1>9 DEF S
<1>11. \A p \in Cover(Erase) : \E k \in 1 .. n : p \in Area(Erase[k])
  BY <1>2 DEF Cover
<1> QED
  BY <1>10, <1>11 DEF Q, c, D

-----------------------------------------------------------------------------
(* The slow flip's entries send whole pieces, after the fingerprints went  *)
(* if the engine drew.                                                     *)
LEMMA EntriesWhole ==
  ASSUME NEW k \in 0 .. 1, Fits(buf[k]), buf[k].d \in Seq(Aligned(SegW)),
         seen.d \in Seq(Rect), box[0] \in Seq(Rect), NEW trusted \in BOOLEAN
  PROVE  \E rest \in Seq(WholeSends) :
            Entries(k, trusted)
              = (IF fpStale THEN <<Entry("forget", Screen, 0)>> ELSE << >>) \o rest
<1> DEFINE t    == buf[k]
           pre  == IF fpStale THEN <<Entry("forget", Screen, 0)>> ELSE << >>
           one  == <<Entry("select", Screen, k)>>
           all  == <<Entry("send", Screen, 0)>>
           back == IF trusted THEN Fills(t) ELSE <<Entry("fill", Screen, t.colour)>>
           puts == [i \in DOMAIN t.d |-> Entry("send", t.d[i], 0)]
           tail == IF ~t.known THEN all ELSE back \o puts
           rest == one \o tail
<1>1. t.d \in Seq(Rect) /\ t.colour \in Colours
  BY DEF Fits, BufType
<1>2. all \in Seq(WholeSends) /\ one \in Seq(WholeSends)
  <2>1. Entry("send", Screen, 0) \in EntryType /\ Entry("send", Screen, 0).a = Screen
    BY EntryFacts, ScreenFacts
  <2>2. Entry("select", Screen, k) \in EntryType /\ Entry("select", Screen, k).a = Screen
    BY EntryFacts, ScreenFacts
  <2>3. Entry("send", Screen, 0) \in WholeSends /\ Entry("select", Screen, k) \in WholeSends
    BY <2>1, <2>2, AlignedFacts DEF WholeSends
  <2> QED
    BY <2>3
<1>3. back \in Seq(WholeSends)
  <2>1. Entry("fill", Screen, t.colour) \in EntryType /\ Entry("fill", Screen, t.colour).op = "fill"
    BY <1>1, EntryFacts, ScreenFacts
  <2>2. Entry("fill", Screen, t.colour) \in WholeSends
    BY <2>1 DEF WholeSends
  <2>3. FillOf(t.colour) \subseteq WholeSends
    BY DEF FillOf, WholeSends
  <2>4. Fills(t) \in Seq(FillOf(t.colour))
    BY FillsFacts
  <2>5. Fills(t) \in Seq(WholeSends)
    BY <2>3, <2>4, SeqWider
  <2> QED
    BY <2>2, <2>5
<1>4. puts \in Seq(WholeSends)
  <2> DEFINE td == t.d
             n  == Len(td)
             p  == [i \in 1 .. n |-> Entry("send", td[i], 0)]
  <2>1. td \in Seq(Aligned(SegW)) /\ DOMAIN td = 1 .. n /\ n \in Nat
    OBVIOUS
  <2> HIDE DEF td
  <2>2. ASSUME NEW i \in 1 .. n PROVE Entry("send", td[i], 0) \in WholeSends
    <3> DEFINE a == td[i]
    <3>1. a \in Aligned(SegW) /\ a \in Rect
      BY <2>1 DEF Aligned
    <3> HIDE DEF a
    <3>2. Entry("send", a, 0) \in EntryType /\ Entry("send", a, 0).a = a
      BY <3>1, EntryFacts
    <3> QED
      BY <3>1, <3>2 DEF WholeSends, a
  <2>3. p \in [1 .. n -> WholeSends]
    BY <2>2
  <2>4. p \in Seq(WholeSends)
    BY <2>1, <2>3
  <2> QED
    BY <2>1, <2>4 DEF td
<1>5. Entries(k, trusted) = pre \o one \o tail
  BY DEF Entries
<1>6. pre \in Seq(EntryType)
  BY EntryFacts, ScreenFacts
<1> HIDE DEF all, back, puts, one, pre
<1>7. tail \in Seq(WholeSends)
  BY <1>2, <1>3, <1>4
<1> HIDE DEF tail
<1>8. rest \in Seq(WholeSends)
  BY <1>2, <1>7
<1>9. Entries(k, trusted) = pre \o rest
  <2>1. one \in Seq(EntryType) /\ tail \in Seq(EntryType)
    <3>1. WholeSends \subseteq EntryType
      BY DEF WholeSends
    <3> QED
      BY <1>2, <1>7, <3>1, SeqWider
  <2> QED
    BY SMTT(60), <1>5, <1>6, <2>1
<1> QED
  BY <1>8, <1>9 DEF pre

(* After those entries the fingerprints are true.                          *)
LEMMA FlushedHonest ==
  ASSUME CardInv, front \in 0 .. 1, fpStale \in BOOLEAN, fpStale \/ AllHonest(card),
         NEW k \in 0 .. 1, Fits(buf[k]), buf[k].d \in Seq(Aligned(SegW)),
         seen.d \in Seq(Rect), box[0] \in Seq(Rect), NEW trusted \in BOOLEAN
  PROVE  AllHonest(Flushed(buf, PushAll(buf, D0, Entries(k, trusted))).card)
<1> DEFINE list == Entries(k, trusted)
           none == << >>
<1>1. PICK rest \in Seq(WholeSends) :
        list = (IF fpStale THEN <<Entry("forget", Screen, 0)>> ELSE << >>) \o rest
  BY EntriesWhole
<1>2. rest \in Seq(EntryType) /\ none \in Seq(EntryType)
  <2>1. WholeSends \subseteq EntryType
    BY DEF WholeSends
  <2> QED
    BY <2>1, SeqWider
<1>3. Entry("forget", Screen, 0) \in EntryType
  BY EntryFacts, ScreenFacts
<1>4. list = rest \/ list = none \o <<Entry("forget", Screen, 0)>> \o rest
  BY <1>1, <1>2, <1>3
<1>5. list \in Seq(EntryType)
  BY SMTT(60), <1>2, <1>3, <1>4
<1>6. Flushed(buf, D0) = Way(card, front, << >>) /\ IsCard(card)
  BY WaitingKept DEF CardInv
<1> HIDE DEF list, none
<1>7. Flushed(buf, PushAll(buf, D0, list)) = Applying!Fold(buf, Way(card, front, << >>), list)
  BY <1>5, <1>6, WayFacts, BatchExact
<1>8. CASE fpStale
  <2>1. list = none \o <<Entry("forget", Screen, 0)>> \o rest
    BY <1>1, <1>2, <1>3, <1>8 DEF none
  <2>2. AllHonest(Applying!Fold(buf, Way(card, front, << >>),
                                none \o <<Entry("forget", Screen, 0)>> \o rest).card)
    BY <1>2, <1>6, ForgetMends
  <2> QED
    BY <1>7, <2>1, <2>2 DEF list
<1>9. CASE ~fpStale
  <2>1. list = rest
    BY <1>1, <1>2, <1>9
  <2>2. AllHonest(Applying!Fold(buf, Way(card, front, << >>), rest).card)
    BY <1>6, <1>9, FoldHonest
  <2> QED
    BY <1>7, <2>1, <2>2 DEF list
<1> QED
  BY <1>8, <1>9

(* Flip notes when the engine drew past the fingerprints.                  *)
LEMMA FpFlip ==
  ASSUME BufInv, CardInv, BookInv, DescIn(Aligned(SegW)), FpMarked, PagedInv, Flip
  PROVE  FpMarked'
<1> DEFINE k == 1 - front
<1>1. front \in 0 .. 1 /\ k \in 0 .. 1 /\ Fits(buf[k]) /\ buf[k].d \in Seq(Aligned(SegW))
  <2>1. front \in 0 .. 1
    BY BufferIndex DEF BufInv
  <2> QED
    BY <2>1 DEF BufInv, Sound, DescIn, In
<1>2. live /\ live' = live
  BY DEF Flip
<1>3. FlipFast(k) \/ FlipSlow(k)
  BY DEF Flip
<1>4. seen.d \in Seq(Rect) /\ box[0] \in Seq(Rect) /\ fpStale \in BOOLEAN
  <2>1. seen \in SeenType /\ box \in [0 .. 1 -> Seq(Rect)]
    BY DEF BookInv, BookTypes
  <2>2. fpStale \in BOOLEAN
    BY DEF BookInv, BookFlags
  <2> QED
    BY <2>1, <2>2 DEF SeenType
<1> HIDE DEF k
<1>5. CASE FlipFast(k)
  <2>0. Select(k) = Way(card, sel, <<Entry("select", Screen, k)>>)
    BY <1>1, SelectFacts
  <2>1. CASE Becomes(Select(k)) /\ fpStale' = fpStale
    <3>1. card' = card
      BY <2>0, <2>1 DEF Becomes, Way
    <3> QED
      BY <1>2, <2>1, <3>1, FpUnsent
  <2>2. CASE fpStale'
    BY <1>2, <2>2 DEF FpMarked
  <2>3. CASE PageFrame(k) /\ ~fpStale'
    <3>1. fpStale' = fpStale
      BY <2>3 DEF PageFrame, PageLost
    <3>2. ~paged
      BY <2>3, <3>1 DEF PagedInv
    <3>3. Becomes(Select(k))
      BY <2>3, <3>2 DEF PageFrame
    <3> QED
      BY <2>1, <3>1, <3>3
  <2> QED
    BY <1>5, <2>1, <2>2, <2>3 DEF FlipFast, OneFrame, PageUncleared
<1>6. CASE FlipSlow(k)
  <2> DEFINE trusted == SeenNow.known /\ ~paged /\ seen.colour = buf[k].colour
             d == Flushed(buf, PushAll(buf, D0, Entries(k, trusted)))
  <2>1. /\ \E o \in Atop(d.card.px, buf[k].tris) : Becomes([d EXCEPT !.card.px = o.px])
        /\ fpStale' = (buf[k].tris # << >>)
    BY <1>6 DEF FlipSlow
  <2>2. CASE buf[k].tris # << >>
    BY <1>2, <2>1, <2>2 DEF FpMarked
  <2>3. CASE buf[k].tris = << >>
    <3>1. trusted \in BOOLEAN
      OBVIOUS
    <3>2. fpStale \/ AllHonest(card)
      BY DEF FpMarked
    <3> HIDE DEF trusted
    <3>3. AllHonest(d.card)
      BY <1>1, <1>4, <3>1, <3>2, FlushedHonest
    <3>4. Entries(k, trusted) \in Seq(EntryType)
      <4>1. PICK pre \in Seq(EntryType), rest \in Seq(Quiet) :
               Entries(k, trusted) = pre \o <<Entry("select", Screen, k)>> \o rest
        BY <1>1, <1>4, <3>1, FlipEntries
      <4>2. rest \in Seq(EntryType) /\ Entry("select", Screen, k) \in EntryType
        BY <1>1, QuietSeq, EntryFacts, ScreenFacts
      <4> QED
        BY <4>1, <4>2
    <3>5. d = Way(d.card, d.sel, << >>) /\ IsCard(d.card)
      BY <1>1, <3>4, WayFacts, BatchExact, FlushedFacts
    <3> HIDE DEF d
    <3>6. \A o \in Atop(d.card.px, buf[k].tris) : o.px = d.card.px
      BY <1>1, <2>3, DrewAtop DEF Fits, BufType
    <3>7. PICK o \in Atop(d.card.px, buf[k].tris) : Becomes([d EXCEPT !.card.px = o.px])
      BY <2>1
    <3>8. card'.px = d.card.px /\ card'.fp = d.card.fp
      <4> DEFINE c == d.card
                 w == [Way(c, d.sel, << >>) EXCEPT !.card.px = c.px]
      <4>1. card' = w.card
        BY <3>5, <3>6, <3>7 DEF Becomes
      <4>2. w.card = [c EXCEPT !.px = c.px]
        BY DEF Way
      <4> HIDE DEF w
      <4> QED
        BY <3>5, <4>1, <4>2 DEF IsCard
    <3>9. AllHonest(card)'
      BY <3>3, <3>8 DEF AllHonest, Honest
    <3> QED
      BY <3>9 DEF FpMarked
  <2> QED
    BY <2>2, <2>3
<1> QED
  BY <1>3, <1>5, <1>6

(* Every step keeps fingerprints honest, or noted as old.                  *)
LEMMA FpMoves ==
  ASSUME Named(Aligned(SegW)), DescIn(Aligned(SegW)), HeldIn(Aligned(SegW)),
         BufInv, CardInv, BookInv, FpMarked, PagedInv, [Next]_vars
  PROVE  FpMarked'
<1>1. CASE \/ \E k \in Buffers, a \in Boxes, c \in Colours : BltFill(k, a, c)
           \/ BltCopy \/ BltSelf
           \/ \E k, s \in Buffers, a \in Boxes, c \in Colours : BltOwn(k, s, a, c)
  BY <1>1, FpBlt
<1>2. CASE Lock \/ WriteLocked \/ ContextCreate \/ ContextEnd \/ UNCHANGED vars
  <2>1. UNCHANGED <<card, fpStale, live>>
    BY <1>2 DEF Lock, WriteLocked, ContextCreate, ContextEnd, vars, cardVars, bookVars
  <2> QED
    BY <2>1, FpUnsent
<1>3. CASE Unlock \/ Record \/ Gdi
  BY <1>3, FpDraw
<1>4. CASE Flip
  BY <1>4, FpFlip
<1>5. CASE Create16
  BY <1>5, FpCreate
<1>6. CASE Destroy16
  BY <1>6, FpDestroy
<1> QED
  BY <1>1, <1>2, <1>3, <1>4, <1>5, <1>6 DEF Next

(* Pages are on only while buffers flip, and the engine drew past fb16.c.  *)
LEMMA PagedStep ==
  ASSUME PagedInv, [Next]_vars
  PROVE  PagedInv'
<1> DEFINE still == UNCHANGED <<live, paged, fpStale>>
<1>1. \A B : OnShown(B) \/ OnHidden(B) => still
  BY DEF OnShown, OnHidden, bookVars, pageVars
<1> HIDE DEF still
<1>2. CASE \E k \in Buffers, a \in Boxes, c \in Colours : BltFill(k, a, c)
  BY <1>1, <1>2 DEF BltFill, FillShown, FillHidden, PagedInv, still
<1>3. CASE BltCopy
  <2>1. \A k, a, s, src, m, keyed :
          CopyShown(k, a, s, src, m, keyed) \/ CopyHidden(k, a, s, src, m, keyed) => still
    BY <1>1 DEF CopyShown, CopyHidden
  <2>2. still
    BY <1>3, <2>1 DEF BltCopy
  <2> QED
    BY <2>2 DEF PagedInv, still
<1>4. CASE BltSelf
  BY <1>1, <1>4 DEF BltSelf, PagedInv, still
<1>5. CASE \E k, s \in Buffers, a \in Boxes, c \in Colours : BltOwn(k, s, a, c)
  BY <1>1, <1>5 DEF BltOwn, pageVars, bookVars, PagedInv, still
<1>6. CASE Record
  BY <1>1, <1>6 DEF Record, Triangle, RecordShown, RecordHidden, pageVars, PagedInv, still
<1>7. CASE Lock \/ WriteLocked \/ Unlock \/ ContextCreate \/ UNCHANGED vars
  BY <1>7 DEF Lock, WriteLocked, Unlock, ContextCreate, vars, bookVars, pageVars, PagedInv
<1>8. CASE ContextEnd \/ Gdi
  BY <1>8 DEF ContextEnd, LeavePages, Gdi, bookVars, pageVars, PagedInv
<1>9. CASE Flip
  <2>1. live /\ live' = live
    BY <1>9 DEF Flip
  <2>2. CASE FlipSlow(1 - front)
    BY <2>2 DEF FlipSlow, LeavePages, PagedInv
  <2>3. CASE FlipFast(1 - front)
    <3>1. \/ fpStale' = TRUE
          \/ fpStale' = fpStale /\ paged' \in {paged, FALSE}
      <4>1. PageFrame(1 - front) => fpStale' = TRUE \/ (fpStale' = fpStale /\ paged' = FALSE)
        BY DEF PageFrame, PageLost
      <4> QED
        BY <2>3, <4>1 DEF FlipFast, OneFrame, PageUncleared, pageVars
    <3> QED
      BY <2>1, <3>1 DEF PagedInv
  <2> QED
    BY <1>9, <2>2, <2>3 DEF Flip
<1>10. CASE Create16
  BY <1>10 DEF Create16, pageVars, PagedInv
<1>11. CASE Destroy16
  BY <1>11 DEF Destroy16, LeavePages, PagedInv
<1> QED
  BY <1>2, <1>3, <1>4, <1>5, <1>6, <1>7, <1>8, <1>9, <1>10, <1>11 DEF Next

LEMMA FpStep ==
  ASSUME Named(Aligned(SegW)), DescIn(Aligned(SegW)), HeldIn(Aligned(SegW)),
         BufInv, CardInv, BookInv, FpInv, [Next]_vars
  PROVE  FpInv'
BY FpMoves, PagedStep DEF FpInv

(* The mode set, every pixel of the card is what its fingerprint holds.    *)
LEMMA FpInit == Init => FpInv
<1> SUFFICES ASSUME Init PROVE FpInv
  OBVIOUS
<1> DEFINE black == [p \in Pixels |-> Black]
           none  == [px |-> black, fp |-> [s \in Pieces |-> NoFp]]
<1>1. card = SendAll(none, black)
  BY DEF Init
<1>2. IsCard(none)
  BY DEF IsCard
<1> HIDE DEF black, none
<1>3. AllHonest(SendAll(none, black))
  BY <1>2, SendAllFacts DEF AllHonest
<1>4. paged = FALSE
  BY DEF Init
<1> QED
  BY <1>1, <1>3, <1>4 DEF FpInv, FpMarked, PagedInv

(* A fingerprint speaks for pixels the card shows, unless the engine drew  *)
(* since, whatever the buffers, Flips, locks and batches did               *)
(* (m8dd32.c:590, m8dd_fp_stale; fb16.c:50-55): as long as the rectangles  *)
(* named are whole pieces.  A send of part of a piece takes the            *)
(* fingerprint of all of it (README, MCDd16_piece.cfg).                    *)
THEOREM FingerprintsSpeak ==
  ASSUME Named(Aligned(SegW))
  PROVE  Spec => []FingerprintsTrue
<1> DEFINE Inv == /\ BufInv /\ CardInv /\ BookInv
                  /\ DescIn(Aligned(SegW)) /\ HeldIn(Aligned(SegW)) /\ FpInv
<1>1. Init => Inv
  BY BufInit, WayInit, InInit, FpInit
<1>2. Inv /\ [Next]_vars => Inv'
  <2> SUFFICES ASSUME Inv, [Next]_vars PROVE Inv'
    OBVIOUS
  <2>1. Closed(Aligned(SegW))
    BY AlignedClosed
  <2>2. BufInv' /\ CardInv' /\ BookInv'
    BY BufStep, CardStep, BookStep
  <2>3. DescIn(Aligned(SegW))' /\ HeldIn(Aligned(SegW))'
    BY <2>1, InStep
  <2>4. FpInv'
    BY FpStep
  <2> QED
    BY <2>2, <2>3, <2>4
<1>3. Inv => FingerprintsTrue
  <2> SUFFICES ASSUME AllHonest(card) PROVE FingerprintsTrue
    BY DEF FpInv, FpMarked, FingerprintsTrue
  <2>1. ASSUME NEW s \in Pieces, card.fp[s] # NoFp, NEW p \in InPiece(s)
        PROVE  card.px[p] = Shown(p, card.fp[s][p])
    <3>1. p \in Pixels /\ Piece(p) = s
      BY DEF InPiece
    <3> QED
      BY <2>1, <3>1 DEF AllHonest, Honest
  <2> QED
    BY <2>1 DEF FingerprintsTrue
<1> QED
  BY <1>1, <1>2, <1>3, PTL DEF Spec

-----------------------------------------------------------------------------
(* Rectangles held for Unlock: never more than locks of the shown buffer.  *)

Kept(h) == {i \in 1 .. HeldMax : h[i] # NoRect}

Fronts(l, f) == {j \in DOMAIN l : l[j].k = f}

HeldInv == Cardinality(Kept(held)) <= Cardinality(Fronts(locks, front))

(* The locks of the shown buffer can be counted.                           *)
LEMMA FrontsFinite ==
  ASSUME NEW X, NEW l \in Seq(X), NEW f
  PROVE  IsFiniteSet(Fronts(l, f)) /\ Cardinality(Fronts(l, f)) \in Nat
<1>1. Len(l) \in Nat /\ Len(l) \in Int /\ 1 \in Int /\ DOMAIN l = 1 .. Len(l)
  OBVIOUS
<1>2. IsFiniteSet(1 .. Len(l))
  BY <1>1, FS_Interval
<1>3. Fronts(l, f) \in SUBSET (1 .. Len(l))
  BY <1>1 DEF Fronts
<1> QED
  BY <1>2, <1>3, FS_Subset, FS_CardinalityType

(* A lock's end takes one of them at most.                                 *)
LEMMA FrontsRemove ==
  ASSUME NEW X, NEW l \in Seq(X), NEW i \in DOMAIN l, NEW f
  PROVE  /\ Cardinality(Fronts(RemoveAt(l, i), f)) >= Cardinality(Fronts(l, f)) - 1
         /\ l[i].k # f => Cardinality(Fronts(RemoveAt(l, i), f)) >= Cardinality(Fronts(l, f))
         /\ Cardinality(Fronts(RemoveAt(l, i), f)) \in Nat
<1> DEFINE w == RemoveAt(l, i)
           S == Fronts(w, f)
           T == Fronts(l, f) \ {i}
           g == [j \in S |-> IF j < i THEN j ELSE j + 1]
           n == Len(l)
<1>1. i \in 1 .. n /\ n \in Nat /\ DOMAIN l = 1 .. n
  OBVIOUS
<1>2. DOMAIN w = 1 .. n - 1 /\ \A j \in 1 .. n - 1 : w[j] = IF j < i THEN l[j] ELSE l[j + 1]
  BY Removed
<1> HIDE DEF w, n
<1>3. S = {j \in 1 .. n - 1 : w[j].k = f}
  BY <1>2 DEF Fronts
<1>4. IsFiniteSet(S) /\ Cardinality(S) \in Nat
  <2>1. n - 1 \in Int /\ 1 \in Int /\ S \in SUBSET (1 .. n - 1)
    BY <1>1, <1>3
  <2>2. IsFiniteSet(1 .. n - 1)
    BY <2>1, FS_Interval
  <2> QED
    BY <2>1, <2>2, FS_Subset, FS_CardinalityType
<1>5. T = {j \in 1 .. n : j # i /\ l[j].k = f}
  BY <1>1 DEF Fronts
<1> HIDE DEF S, T
<1>6. \A j \in S : j \in 1 .. n - 1 /\ (IF j < i THEN j ELSE j + 1) \in T
  <2> SUFFICES ASSUME NEW j \in S PROVE j \in 1 .. n - 1 /\ (IF j < i THEN j ELSE j + 1) \in T
    OBVIOUS
  <2>1. j \in 1 .. n - 1 /\ w[j].k = f
    BY <1>3
  <2>2. CASE j < i
    BY <1>1, <1>2, <1>5, <2>1, <2>2
  <2>3. CASE ~(j < i)
    <3>1. j + 1 \in 1 .. n /\ j + 1 # i
      BY <1>1, <2>1, <2>3
    <3> QED
      BY <1>2, <1>5, <2>1, <2>3, <3>1
  <2> QED
    BY <2>2, <2>3
<1>7. \A t \in T : \E j \in S : g[j] = t
  <2> SUFFICES ASSUME NEW t \in T PROVE \E j \in S : g[j] = t
    OBVIOUS
  <2>1. t \in 1 .. n /\ t # i /\ l[t].k = f
    BY <1>5
  <2>2. CASE t < i
    <3>1. t \in 1 .. n - 1
      BY <1>1, <2>1, <2>2
    <3>2. t \in S
      BY <1>2, <1>3, <2>1, <2>2, <3>1
    <3> QED
      BY <2>2, <3>2
  <2>3. CASE ~(t < i)
    <3>1. t - 1 \in 1 .. n - 1 /\ ~(t - 1 < i) /\ (t - 1) + 1 = t
      BY <1>1, <2>1, <2>3
    <3>2. t - 1 \in S
      BY <1>2, <1>3, <2>1, <3>1
    <3> QED
      BY <3>1, <3>2
  <2> QED
    BY <2>2, <2>3
<1>8. g \in Surjection(S, T)
  BY <1>6, <1>7 DEF Surjection
<1> HIDE DEF g
<1>9. Cardinality(T) <= Cardinality(S)
  BY <1>4, <1>8, FS_Surjection
<1>10. /\ IsFiniteSet(Fronts(l, f)) /\ Cardinality(Fronts(l, f)) \in Nat
       /\ (i \in Fronts(l, f)) <=> (l[i].k = f)
  <2>1. (i \in Fronts(l, f)) <=> (l[i].k = f)
    BY DEF Fronts
  <2> QED
    BY <2>1, FrontsFinite
<1>11. Cardinality(T) = IF l[i].k = f THEN Cardinality(Fronts(l, f)) - 1
                                      ELSE Cardinality(Fronts(l, f))
  <2> DEFINE F == Fronts(l, f)
             same == l[i].k = f
  <2>1. IsFiniteSet(F) /\ (i \in F <=> same)
    BY <1>10
  <2> HIDE DEF F, same
  <2>2. Cardinality(F \ {i}) = IF i \in F THEN Cardinality(F) - 1 ELSE Cardinality(F)
    BY ONLY <2>1, FS_RemoveElement
  <2> QED
    BY ONLY <2>1, <2>2 DEF T, F, same
<1> DEFINE cf == Cardinality(Fronts(l, f))
           cs == Cardinality(S)
           ct == Cardinality(T)
           same == l[i].k = f
<1>12. cf \in Nat /\ cs \in Nat /\ ct <= cs /\ ct = IF same THEN cf - 1 ELSE cf
  BY <1>4, <1>9, <1>10, <1>11
<1> HIDE DEF cf, cs, ct, same
<1>13. CASE same
  <2>1. cs >= cf - 1
    BY ONLY <1>12, <1>13
  <2> QED
    BY ONLY <1>12, <1>13, <2>1 DEF cf, cs, same, S, w
<1>14. CASE ~same
  <2>1. cs >= cf - 1 /\ cs >= cf
    BY ONLY <1>12, <1>14
  <2> QED
    BY ONLY <1>12, <1>14, <2>1 DEF cf, cs, same, S, w
<1> QED
  BY <1>13, <1>14

(* And a lock adds one.                                                    *)
LEMMA FrontsAppend ==
  ASSUME NEW X, NEW l \in Seq(X), NEW e \in X, NEW f
  PROVE  /\ Cardinality(Fronts(Append(l, e), f)) >= Cardinality(Fronts(l, f))
         /\ e.k = f => Cardinality(Fronts(Append(l, e), f)) = Cardinality(Fronts(l, f)) + 1
         /\ Cardinality(Fronts(Append(l, e), f)) \in Nat
<1> DEFINE w == Append(l, e)
           n == Len(l)
           S == Fronts(l, f)
<1>1. /\ n \in Nat /\ DOMAIN l = 1 .. n /\ DOMAIN w = 1 .. n + 1
      /\ w[n + 1] = e /\ \A j \in 1 .. n : w[j] = l[j]
  OBVIOUS
<1> HIDE DEF w, n
<1>2. IsFiniteSet(S) /\ Cardinality(S) \in Nat
  BY FrontsFinite
<1>3. Fronts(w, f) = IF e.k = f THEN S \cup {n + 1} ELSE S
  <2>1. DOMAIN w = DOMAIN l \cup {n + 1} /\ n + 1 \notin DOMAIN l
    BY <1>1
  <2> QED
    BY <1>1, <2>1 DEF Fronts
<1>4. n + 1 \notin S
  BY <1>1 DEF Fronts
<1> HIDE DEF S
<1>5. Cardinality(S \cup {n + 1}) = Cardinality(S) + 1
  BY <1>2, <1>4, FS_AddElement
<1>6. CASE e.k = f
  BY <1>2, <1>3, <1>5, <1>6 DEF w, S
<1>7. CASE e.k # f
  BY <1>2, <1>3, <1>7 DEF w, S
<1> QED
  BY <1>6, <1>7

(* So can the rectangles held for them.                                    *)
LEMMA KeptFinite ==
  ASSUME NEW h
  PROVE  IsFiniteSet(Kept(h)) /\ Cardinality(Kept(h)) \in Nat
<1>1. HeldMax \in Int /\ 1 \in Int /\ Kept(h) \in SUBSET (1 .. HeldMax)
  BY BufferAssumption DEF Kept
<1>2. IsFiniteSet(1 .. HeldMax)
  BY <1>1, FS_Interval
<1> QED
  BY <1>1, <1>2, FS_Subset, FS_CardinalityType

(* Without locks nothing is held.                                          *)
LEMMA HeldNone ==
  ASSUME HeldInv, locks = << >>
  PROVE  Kept(held) = {} /\ \A f : Fronts(locks, f) = {}
<1>1. \A f : Fronts(locks, f) = {}
  BY DEF Fronts
<1>2. IsFiniteSet(Kept(held)) /\ Cardinality(Kept(held)) \in Nat
  BY KeptFinite
<1>3. Cardinality(Kept(held)) = 0
  BY <1>1, <1>2, FS_EmptySet DEF HeldInv
<1> QED
  BY <1>1, <1>2, <1>3, FS_EmptySet

(* What touches no lock keeps the count of held rectangles right.          *)
LEMMA HeldSame ==
  ASSUME HeldInv, UNCHANGED <<held, locks, front>>
  PROVE  HeldInv'
  BY DEF HeldInv, Kept, Fronts

(* With no lock, Flip may name the other buffer the shown one.             *)
LEMMA HeldFlip ==
  ASSUME HeldInv, locks = << >>, UNCHANGED <<held, locks>>
  PROVE  HeldInv'
<1>1. Kept(held) = {} /\ Fronts(locks, front) = {} /\ Fronts(locks, front') = {}
  BY HeldNone
<1>2. Kept(held)' = {} /\ Fronts(locks, front)' = {}
  BY <1>1 DEF Kept, Fronts
<1>3. Cardinality({}) = 0 /\ Cardinality({}) <= Cardinality({})
  BY FS_EmptySet
<1> QED
  BY ONLY <1>2, <1>3 DEF HeldInv

(* m8dd_lock16 holds one more rectangle, or none is free.                  *)
LEMMA HeldLock ==
  ASSUME BufInv, BookInv, HeldInv, Lock
  PROVE  HeldInv'
<1>1. PICK k \in Buffers, r \in LockBoxes, write \in BOOLEAN :
        /\ locks' = Append(locks, [k |-> k, r |-> r, write |-> write])
        /\ IF write /\ k = front THEN Hold(r) ELSE UNCHANGED held
  BY DEF Lock
<1> DEFINE e == [k |-> k, r |-> r, write |-> write]
<1>0. DOMAIN held = 1 .. HeldMax
  BY DEF BookInv, BookTypes
<1>2. e \in LockType /\ e.k = k /\ locks \in Seq(LockType)
  <2>1. k \in 0 .. 1
    BY BufferIndex
  <2>2. e \in LockType /\ e.k = k
    BY <2>1 DEF LockType
  <2> QED
    BY <2>2 DEF BufInv
<1>3. front' = front /\ locks' = Append(locks, e)
  BY <1>1 DEF Lock
<1> HIDE DEF e
<1> DEFINE cf == Cardinality(Fronts(locks, front))
           cg == Cardinality(Fronts(locks', front))
           ck == Cardinality(Kept(held))
           cl == Cardinality(Kept(held'))
<1>4. cg \in Nat /\ cf \in Nat /\ cg >= cf /\ (e.k = front => cg = cf + 1)
  BY <1>2, <1>3, FrontsAppend, FrontsFinite
<1>5. ck \in Nat /\ cl \in Nat /\ ck <= cf
  BY KeptFinite DEF HeldInv
<1>6. ASSUME NEW m, held' = [held EXCEPT ![m] = Screen] \/ held' = [held EXCEPT ![m] = r]
      PROVE  cl <= ck + 1
  <2> DEFINE K == Kept(held)
  <2>1. Kept(held') \subseteq K \cup {m}
    <3>1. \A j \in DOMAIN held : j # m => held'[j] = held[j]
      BY <1>6
    <3> QED
      BY <1>0, <3>1 DEF Kept
  <2>2. IsFiniteSet(K) /\ Cardinality(K) \in Nat
    BY KeptFinite
  <2> HIDE DEF K
  <2>3. IsFiniteSet(K \cup {m}) /\ Cardinality(K \cup {m}) <= Cardinality(K) + 1
        /\ Cardinality(K \cup {m}) \in Nat
    <3>1. IsFiniteSet(K \cup {m})
          /\ Cardinality(K \cup {m}) = IF m \in K THEN Cardinality(K) ELSE Cardinality(K) + 1
      BY ONLY <2>2, FS_AddElement
    <3> QED
      BY ONLY <2>2, <3>1
  <2>4. cl <= Cardinality(K \cup {m})
    <3> DEFINE L == Kept(held')
               M == K \cup {m}
    <3>1. L \in SUBSET M /\ IsFiniteSet(M)
      BY <2>1, <2>3
    <3> HIDE DEF L, M
    <3>2. Cardinality(L) <= Cardinality(M)
      BY ONLY <3>1, FS_Subset
    <3> QED
      BY <3>2 DEF L, M
  <2> HIDE DEF cl
  <2> QED
    BY <1>5, <2>2, <2>3, <2>4 DEF K
<1>7. CASE write /\ k = front
  <2>1. Hold(r)
    BY <1>1, <1>7
  <2>2. cl <= ck + 1
    BY <1>6, <2>1 DEF Hold
  <2>3. e.k = front
    BY <1>2, <1>7
  <2>4. cl <= cg
    BY ONLY <1>4, <1>5, <2>2, <2>3
  <2> QED
    BY <1>3, <2>4 DEF HeldInv, Kept, Fronts
<1>8. CASE ~(write /\ k = front)
  <2>1. held' = held
    BY <1>1, <1>8
  <2>2. cl = ck
    BY <2>1
  <2>3. cl <= cg
    BY ONLY <1>4, <1>5, <2>2
  <2> QED
    BY <1>3, <2>3 DEF HeldInv, Kept, Fronts
<1> QED
  BY <1>7, <1>8

(* m8dd_unlock16 releases one.                                             *)
LEMMA HeldUnlock ==
  ASSUME BufInv, BookInv, HeldInv, Unlock
  PROVE  HeldInv'
<1>1. PICK i \in DOMAIN locks :
        LET Mine == IF locks[i].k = front THEN 1 .. HeldMax \ Free ELSE {}
        IN  /\ locks' = RemoveAt(locks, i)
            /\ IF Mine # {} THEN held' = [held EXCEPT ![Min(Mine)] = NoRect] ELSE UNCHANGED held
  BY DEF Unlock
<1>2. locks \in Seq(LockType) /\ front' = front
  BY DEF BufInv, Unlock
<1> DEFINE cf == Cardinality(Fronts(locks, front))
           cg == Cardinality(Fronts(locks', front))
           ck == Cardinality(Kept(held))
           cl == Cardinality(Kept(held'))
<1>3. cg \in Nat /\ cf \in Nat /\ cg >= cf - 1 /\ (locks[i].k # front => cg >= cf)
  BY <1>1, <1>2, FrontsRemove, FrontsFinite
<1>4. ck \in Nat /\ cl \in Nat /\ ck <= cf
  BY KeptFinite DEF HeldInv
<1>5. cl <= cg
  <2>1. CASE locks[i].k # front
    <3>1. held' = held
      BY <1>1, <2>1
    <3>2. cl = ck
      BY <3>1
    <3> HIDE DEF cf, cg, ck, cl
    <3> QED
      BY <1>3, <1>4, <2>1, <3>2
  <2>2. CASE locks[i].k = front /\ Kept(held) = {}
    <3>1. Kept(held) = 1 .. HeldMax \ Free
      BY DEF Kept, Free
    <3>2. held' = held
      BY <1>1, <2>2, <3>1
    <3>3. cl = 0
      BY <2>2, <3>2, FS_EmptySet
    <3> HIDE DEF cf, cg, ck, cl
    <3> QED
      BY <1>3, <3>3
  <2>3. CASE locks[i].k = front /\ Kept(held) # {}
    <3> DEFINE K == Kept(held)
               m == Min(K)
    <3>1. K = 1 .. HeldMax \ Free
      BY DEF Kept, Free
    <3>2. held' = [held EXCEPT ![m] = NoRect]
      BY <1>1, <2>3, <3>1
    <3>3. m \in K
      <4>1. K \in SUBSET Nat
        BY DEF Kept
      <4>2. PICK x \in K : \A y \in K : x <= y
        BY <2>3, <4>1, NatMin
      <4> QED
        BY <4>2 DEF Min
    <3>4. Kept(held') \subseteq K \ {m}
      <4>0. DOMAIN held = 1 .. HeldMax /\ m \in 1 .. HeldMax
        BY <3>3 DEF BookInv, BookTypes, Kept
      <4> HIDE DEF m
      <4>1. \A j \in DOMAIN held : j # m => held'[j] = held[j]
        BY <3>2
      <4>2. held'[m] = NoRect
        BY <3>2, <4>0
      <4> QED
        BY <4>0, <4>1, <4>2 DEF Kept
    <3>5. IsFiniteSet(K) /\ Cardinality(K) \in Nat
      BY KeptFinite
    <3> HIDE DEF K, m
    <3>6. IsFiniteSet(K \ {m}) /\ Cardinality(K \ {m}) = Cardinality(K) - 1
      BY ONLY <3>3, <3>5, FS_RemoveElement
    <3>7. cl <= Cardinality(K \ {m})
      BY <3>4, <3>6, FS_Subset
    <3>8. cl <= ck - 1
      BY <3>6, <3>7 DEF K
    <3> HIDE DEF cf, cg, ck, cl
    <3> QED
      BY ONLY <1>3, <1>4, <3>8
  <2> QED
    BY <2>1, <2>2, <2>3
<1> QED
  BY <1>2, <1>5 DEF HeldInv, Kept, Fronts

(* Every step keeps the count of held rectangles right.                    *)
LEMMA HeldStep ==
  ASSUME BufInv, BookInv, HeldInv, [Next]_vars
  PROVE  HeldInv'
<1>0. /\ \A B : OnShown(B) \/ OnHidden(B) => UNCHANGED <<held, locks, front>>
      /\ \A k, a, c : FillShown(k, a, c) \/ FillHidden(k, a, c) => UNCHANGED <<held, locks, front>>
      /\ \A k, a, s, src, m, keyed : CopyShown(k, a, s, src, m, keyed) \/ CopyHidden(k, a, s, src, m, keyed)
                                        => UNCHANGED <<held, locks, front>>
      /\ \A k, t : RecordShown(k, t) \/ RecordHidden(k, t) => UNCHANGED <<held, locks, front>>
  <2>1. \A B : OnShown(B) \/ OnHidden(B) => UNCHANGED <<held, locks, front>>
    BY DEF OnShown, OnHidden, progVars
  <2>2. \A k, a, c : FillShown(k, a, c) \/ FillHidden(k, a, c) => UNCHANGED <<held, locks, front>>
    BY <2>1 DEF FillShown, FillHidden
  <2>3. \A k, a, s, src, m, keyed : CopyShown(k, a, s, src, m, keyed) \/ CopyHidden(k, a, s, src, m, keyed)
                                       => UNCHANGED <<held, locks, front>>
    BY <2>1 DEF CopyShown, CopyHidden
  <2>4. \A k, t : RecordShown(k, t) \/ RecordHidden(k, t) => UNCHANGED <<held, locks, front>>
    BY <2>1 DEF RecordShown, RecordHidden, progVars
  <2> QED
    BY <2>1, <2>2, <2>3, <2>4
<1>1. CASE \/ \E k \in Buffers, a \in Boxes, c \in Colours : BltFill(k, a, c)
           \/ BltCopy \/ BltSelf \/ Record
           \/ \E k, s \in Buffers, a \in Boxes, c \in Colours : BltOwn(k, s, a, c)
  <2>1. CASE \E k \in Buffers, a \in Boxes, c \in Colours : BltFill(k, a, c)
    BY <1>0, <2>1, HeldSame DEF BltFill
  <2>2. CASE BltCopy
    BY <1>0, <2>2, HeldSame DEF BltCopy
  <2>3. CASE BltSelf
    BY <1>0, <2>3, HeldSame DEF BltSelf
  <2>4. CASE Record
    BY <1>0, <2>4, HeldSame DEF Record, Triangle
  <2>5. CASE \E k, s \in Buffers, a \in Boxes, c \in Colours : BltOwn(k, s, a, c)
    <3>1. UNCHANGED <<held, locks, front>>
      BY <1>0, <2>5 DEF BltOwn, progVars
    <3> QED
      BY <3>1, HeldSame
  <2> QED
    BY <1>1, <2>1, <2>2, <2>3, <2>4, <2>5
<1>2. CASE Lock
  BY <1>2, HeldLock
<1>3. CASE Unlock
  BY <1>3, HeldUnlock
<1>4. CASE WriteLocked \/ ContextCreate \/ ContextEnd \/ Gdi \/ UNCHANGED vars
  <2>1. UNCHANGED <<held, locks, front>>
    BY <1>4 DEF WriteLocked, ContextCreate, ContextEnd, Gdi, vars, progVars
  <2> QED
    BY <2>1, HeldSame
<1>5. CASE Flip \/ Create16 \/ Destroy16
  <2>1. locks = << >> /\ UNCHANGED <<held, locks>>
    BY <1>5 DEF Flip, Create16, Destroy16, progVars
  <2> QED
    BY <2>1, HeldFlip
<1> QED
  BY <1>1, <1>2, <1>3, <1>4, <1>5 DEF Next

(* While the card is known nothing is held, and, unless GDI drew, the      *)
(* shown buffer was not drawn on.                                          *)
SeenBooks == /\ seen.known => Kept(held) = {}
             /\ seen.known /\ ~gdi => direct = "no"

(* What is unknown needs no rectangles.                                    *)
LEMMA UnseenBooks ==
  ASSUME BookInv, seen' = Unknown(seen)
  PROVE  ~seen'.known
<1>1. seen \in SeenType
  BY DEF BookInv, BookTypes
<1> QED
  BY <1>1 DEF Unknown, SeenType

(* What each step does to what is known of the card.                       *)
LEMMA SeenMoves ==
  ASSUME BookInv, [Next]_vars
  PROVE  \/ ~seen'.known
         \/ Flip \/ Gdi
         \/ UNCHANGED <<card, seen, drawn, box, gdi, pageVars, direct, lapse, held>>
         \/ Unlock /\ UNCHANGED <<seen, drawn, box, gdi, pageVars, direct>>
<1>0. seen' = Unknown(seen) => ~seen'.known
  BY UnseenBooks
<1> DEFINE still == UNCHANGED <<card, seen, drawn, box, gdi, pageVars, direct, lapse, held>>
<1>1. \A B : /\ OnShown(B) => seen' = Unknown(seen)
             /\ OnHidden(B) => still
  BY DEF OnShown, OnHidden, cardVars, bookVars, pageVars, progVars
<1> HIDE DEF still
<1>2. CASE \/ \E k \in Buffers, a \in Boxes, c \in Colours : BltFill(k, a, c)
           \/ BltCopy \/ BltSelf \/ Record
           \/ \E k, s \in Buffers, a \in Boxes, c \in Colours : BltOwn(k, s, a, c)
  <2>1. CASE \E k \in Buffers, a \in Boxes, c \in Colours : BltFill(k, a, c)
    BY <1>0, <1>1, <2>1 DEF BltFill, FillShown, FillHidden, still
  <2>2. CASE BltCopy
    <3>1. \A k, a, s, src, m, keyed :
             /\ CopyShown(k, a, s, src, m, keyed) => seen' = Unknown(seen)
             /\ CopyHidden(k, a, s, src, m, keyed) => still
      BY <1>1 DEF CopyShown, CopyHidden
    <3> QED
      BY <1>0, <2>2, <3>1 DEF BltCopy, still
  <2>3. CASE BltSelf
    BY <1>0, <1>1, <2>3 DEF BltSelf, still
  <2>4. CASE Record
    BY <1>0, <1>1, <2>4 DEF Record, Triangle, RecordShown, RecordHidden, still
  <2>5. CASE \E k, s \in Buffers, a \in Boxes, c \in Colours : BltOwn(k, s, a, c)
    BY <1>0, <1>1, <2>5 DEF BltOwn, still
  <2> QED
    BY <1>2, <2>1, <2>2, <2>3, <2>4, <2>5
<1>3. CASE Lock
  <2>1. \/ seen' = Unknown(seen)
        \/ UNCHANGED <<held, seen, direct, lapse>>
    BY <1>3 DEF Lock
  <2>2. UNCHANGED <<card, drawn, box, gdi, pageVars>>
    BY <1>3 DEF Lock, cardVars
  <2> QED
    BY <1>0, <2>1, <2>2 DEF still
<1>4. CASE Unlock
  BY <1>4 DEF Unlock, bookVars, pageVars
<1>5. CASE ContextEnd
  <2>1. CASE paged
    BY <1>0, <1>5, <2>1 DEF ContextEnd
  <2>2. CASE ~paged
    BY <1>5, <2>2 DEF ContextEnd, cardVars, pageVars
  <2> QED
    BY <2>1, <2>2
<1>6. CASE WriteLocked \/ ContextCreate \/ UNCHANGED vars
  BY <1>6 DEF WriteLocked, ContextCreate, vars, cardVars, bookVars, pageVars, progVars
<1>7. CASE Create16 \/ Destroy16
  BY <1>0, <1>7 DEF Create16, Destroy16
<1>8. CASE Flip \/ Gdi
  BY <1>8
<1> QED
  BY <1>2, <1>3, <1>4, <1>5, <1>6, <1>7, <1>8 DEF Next

(* Every step keeps what is noted of the card consistent.                  *)
LEMMA BooksStep ==
  ASSUME BookInv, HeldInv, SeenBooks, [Next]_vars
  PROVE  SeenBooks'
<1>1. CASE ~seen'.known
  BY <1>1 DEF SeenBooks
<1>2. CASE Flip
  <2>1. locks = << >> /\ UNCHANGED held
    BY <1>2 DEF Flip, progVars
  <2>3. direct' = "no" \/ ~seen'.known
    BY <1>2, FlipNotes, UnseenBooks
  <2>2. Kept(held)' = {}
    BY <2>1, HeldNone DEF Kept
  <2> QED
    BY <2>2, <2>3 DEF SeenBooks
<1>3. CASE Gdi
  <2>1. gdi' /\ UNCHANGED <<seen, held>>
    BY <1>3 DEF Gdi, bookVars, progVars
  <2> QED
    BY <2>1 DEF SeenBooks, Kept
<1>4. CASE UNCHANGED <<card, seen, drawn, box, gdi, pageVars, direct, lapse, held>>
  BY <1>4 DEF SeenBooks, Kept
<1>5. CASE Unlock /\ UNCHANGED <<seen, drawn, box, gdi, pageVars, direct>>
  <2>1. CASE UNCHANGED held
    BY <1>5, <2>1 DEF SeenBooks, Kept
  <2>2. CASE \E i : held' = [held EXCEPT ![i] = NoRect]
    <3>1. PICK i : held' = [held EXCEPT ![i] = NoRect]
      BY <2>2
    <3>2. DOMAIN held = 1 .. HeldMax
      BY DEF BookInv, BookTypes
    <3>3. \A j \in 1 .. HeldMax : held'[j] \in {held[j], NoRect}
      BY <3>1, <3>2
    <3>4. Kept(held)' \subseteq Kept(held)
      BY <3>3 DEF Kept
    <3> QED
      BY <1>5, <3>4 DEF SeenBooks
  <2>3. UNCHANGED held \/ \E i : held' = [held EXCEPT ![i] = NoRect]
    BY <1>5 DEF Unlock
  <2> QED
    BY <2>1, <2>2, <2>3
<1> QED
  BY <1>1, <1>2, <1>3, <1>4, <1>5, SeenMoves

-----------------------------------------------------------------------------
(* What a Flip leaves on the card outside the description's rectangles.    *)

(* Entries that leave pixel p as it is or fill it with col.                *)
Leaves(p, col) ==
  {e \in EntryType : /\ e.op = "send" => e.arg = 0 /\ e.a \in Aligned(2) /\ p \notin Area(e.a)
                     /\ e.op = "fill" => e.arg = col}

FillsAt(e, p) == e.op = "fill" /\ p \in Area(e.a)

Coloured(v, p, col) == v.px[p] = Shown(p, col)

FilledBy(seq, p) == \E i \in DOMAIN seq : FillsAt(seq[i], p)

(* One of them.                                                            *)
LEMMA LeavesOne ==
  ASSUME NEW B, NEW c, IsCard(c), NEW s, NEW p \in Pixels, NEW col, NEW e \in Leaves(p, col)
  PROVE  Apply(B, Way(c, s, << >>), e).card.px[p]
           = IF FillsAt(e, p) THEN Shown(p, col) ELSE c.px[p]
<1>1. CASE e.op = "send"
  <2> DEFINE v == SendRect(c, B[s].ram, e.a, 0)
             a == e.a
  <2>1. e.arg = 0 /\ a \in Aligned(2) /\ p \in Pixels \ Area(a)
    BY <1>1 DEF Leaves
  <2>2. v.px[p] = c.px[p]
    <3> HIDE DEF a
    <3>1. SendRect(c, B[s].ram, a, 0).px[p] = c.px[p]
      BY <2>1, SendOnly
    <3> QED
      BY <3>1 DEF a
  <2>3. Apply(B, Way(c, s, << >>), e) = Way(v, s, << >>)
    BY <1>1, <2>1 DEF Apply, Way
  <2> HIDE DEF v
  <2> QED
    BY <1>1, <2>2, <2>3 DEF Way, FillsAt
<1>2. CASE e.op = "fill"
  <2> DEFINE a == e.a
             v == IF Area(a) = {} THEN c ELSE Solid(c, a, col)
  <2>1. Apply(B, Way(c, s, << >>), e) = Way(v, s, << >>)
    BY <1>2 DEF Apply, Way, Leaves
  <2>2. v.px[p] = IF p \in Area(a) THEN Shown(p, col) ELSE c.px[p]
    <3> HIDE DEF a
    <3> DEFINE x == Fill(c, Area(a), col)
    <3>1. IsCard(x) /\ x.px[p] = IF p \in Area(a) THEN Shown(p, col) ELSE c.px[p]
      BY FillFacts
    <3> HIDE DEF x
    <3>2. Known(x, a, col).px = x.px
      BY <3>1, KnownFacts
    <3>3. Solid(c, a, col).px[p] = IF p \in Area(a) THEN Shown(p, col) ELSE c.px[p]
      BY <3>1, <3>2 DEF Solid, x
    <3> QED
      BY <3>3
  <2> HIDE DEF v
  <2> QED
    BY <1>2, <2>1, <2>2 DEF Way, FillsAt
<1>3. CASE e.op = "forget"
  <2> DEFINE v == Forget(c, e.a)
  <2>1. v.px = c.px
    BY ForgetFacts
  <2>2. Apply(B, Way(c, s, << >>), e) = Way(v, s, << >>)
    BY <1>3 DEF Apply, Way
  <2> HIDE DEF v
  <2> QED
    BY <1>3, <2>1, <2>2 DEF Way, FillsAt
<1>4. CASE e.op \in {"select", "alloc", "free"}
  <2>1. \E x : Apply(B, Way(c, s, << >>), e) = Way(c, x, << >>)
    BY <1>4 DEF Apply, Way
  <2> QED
    BY <1>4, <2>1 DEF Way, FillsAt
<1>5. e.op \in {"send", "fill", "select", "alloc", "free", "forget"}
  BY DEF EntryType, Leaves
<1> QED
  BY <1>1, <1>2, <1>3, <1>4, <1>5

(* A row of them: the pixel has the colour if it had it, or one fills it.  *)
LEMMA LeavesRow ==
  ASSUME NEW B, NEW c, IsCard(c), NEW s, NEW p \in Pixels, NEW col, NEW seq \in Seq(Leaves(p, col)),
         Coloured(c, p, col) \/ FilledBy(seq, p)
  PROVE  Coloured(Applying!Fold(B, Way(c, s, << >>), seq).card, p, col)
<1> DEFINE n == Len(seq)
           base == Way(c, s, << >>)
           Hit(i) == c.px[p] = Shown(p, col) \/ \E j \in 1 .. i : FillsAt(seq[j], p)
<1>1. n \in Nat /\ DOMAIN seq = 1 .. n /\ \A i \in 1 .. n : seq[i] \in Leaves(p, col)
  OBVIOUS
<1>2. base.card = c /\ base.sel = s
  BY DEF Way
<1> HIDE DEF n, base
<1>3. PICK f : Applying!Trace(B, base, seq, n, f)
  BY <1>1, Inductions, Applying!FoldTrace
<1>4. /\ f[0] = base /\ f[n] = Applying!Fold(B, base, seq)
      /\ \A i \in 0 .. n - 1 : f[i + 1] = Apply(B, f[i], seq[i + 1])
  BY <1>3 DEF Applying!Trace
<1> DEFINE S == {i \in Nat : i <= n => /\ f[i] = Way(f[i].card, f[i].sel, << >>)
                                       /\ IsCard(f[i].card)
                                       /\ Hit(i) => f[i].card.px[p] = Shown(p, col)}
<1>5. 0 \in S
  <2>1. Hit(0) => c.px[p] = Shown(p, col)
    OBVIOUS
  <2> HIDE DEF Hit
  <2> QED
    BY <1>2, <1>4, <2>1 DEF base
<1>6. ASSUME NEW i \in Nat, i \in S PROVE i + 1 \in S
  <2> SUFFICES ASSUME i + 1 <= n
               PROVE  /\ f[i + 1] = Way(f[i + 1].card, f[i + 1].sel, << >>)
                      /\ IsCard(f[i + 1].card)
                      /\ Hit(i + 1) => f[i + 1].card.px[p] = Shown(p, col)
    OBVIOUS
  <2>1. i \in 0 .. n - 1 /\ i + 1 \in 1 .. n /\ i <= n
    BY <1>1
  <2> DEFINE e == seq[i + 1]
             v == f[i].card
             q == f[i].sel
  <2>2. /\ e \in Leaves(p, col) /\ f[i] = Way(v, q, << >>) /\ IsCard(v)
        /\ Hit(i) => v.px[p] = Shown(p, col)
    BY <1>1, <1>6, <2>1
  <2>3. f[i + 1] = Apply(B, f[i], e)
    BY <1>4, <2>1
  <2>h. Hit(i + 1) => Hit(i) \/ FillsAt(e, p)
    <3>1. \A j \in 1 .. i + 1 : j \in 1 .. i \/ j = i + 1
      BY <2>1
    <3> QED
      BY <3>1
  <2> HIDE DEF e, v, q, Hit
  <2> DEFINE w == Apply(B, Way(v, q, << >>), e)
  <2>4. e \in EntryType
    BY <2>2 DEF Leaves
  <2>5. w = Way(w.card, SelAfter(q, e), << >>) /\ IsCard(w.card)
    BY <2>2, <2>4, ApplyFacts
  <2>6. w.card.px[p] = IF FillsAt(e, p) THEN Shown(p, col) ELSE v.px[p]
    BY <2>2, LeavesOne
  <2> HIDE DEF w
  <2>7. w.sel = SelAfter(q, e)
    BY <2>5 DEF Way
  <2>8. f[i + 1] = w
    BY <2>2, <2>3 DEF w
  <2>9. Hit(i + 1) => w.card.px[p] = Shown(p, col)
    BY <2>2, <2>6, <2>h
  <2> QED
    BY <2>5, <2>7, <2>8, <2>9
<1>7. Hit(n)
  BY <1>1 DEF FilledBy, Coloured
<1> HIDE DEF S, Hit
<1>8. \A i \in Nat : i \in S
  BY <1>5, <1>6, Induct
<1>9. n \in S /\ n <= n
  BY <1>1, <1>8
<1> QED
  BY <1>4, <1>7, <1>9 DEF S, base, Coloured

(* A replay changes nothing outside the triangles' boxes and what it       *)
(* erases.                                                                 *)
LEMMA ReplayOutside ==
  ASSUME NEW px, NEW erase, NEW tris \in Seq(Tris), NEW p \in Pixels \ Cover(TriBoxes(tris))
  PROVE  Replay(px, erase, tris)[p] = IF p \in Cover(erase) THEN Shown(p, Black) ELSE px[p]
<1> DEFINE n == Len(tris)
           base == [q \in Pixels |-> IF q \in Cover(erase) THEN Shown(q, Black) ELSE px[q]]
<1>1. n \in Nat /\ DOMAIN tris = 1 .. n /\ \A i \in 1 .. n : tris[i] \in Tris
  OBVIOUS
<1>2. base[p] = IF p \in Cover(erase) THEN Shown(p, Black) ELSE px[p]
  OBVIOUS
<1>3. \A i \in 1 .. n : p \notin tris[i].px
  <2> SUFFICES ASSUME NEW i \in 1 .. n, p \in tris[i].px PROVE FALSE
    OBVIOUS
  <2>1. tris[i].px \subseteq Area(tris[i].box)
    BY <1>1, TriFacts
  <2>2. TriBoxes(tris)[i] = tris[i].box /\ i \in DOMAIN TriBoxes(tris)
    BY <1>1 DEF TriBoxes
  <2> QED
    BY <2>1, <2>2 DEF Cover
<1> HIDE DEF n
<1>4. PICK f : Replaying!Trace(0, base, tris, n, f)
  BY <1>1, Inductions, Replaying!FoldTrace
<1>5. f[0] = base /\ f[n] = Replay(px, erase, tris)
      /\ \A i \in 0 .. n - 1 : f[i + 1] = Replayed(0, f[i], tris[i + 1])
  BY <1>4, AsFolds DEF Replaying!Trace
<1> HIDE DEF base
<1> DEFINE S == {i \in Nat : i <= n => f[i][p] = base[p]}
<1>6. 0 \in S
  BY <1>1, <1>5
<1>7. ASSUME NEW i \in Nat, i \in S PROVE i + 1 \in S
  <2> SUFFICES ASSUME i + 1 <= n PROVE f[i + 1][p] = base[p]
    OBVIOUS
  <2>1. i \in 0 .. n - 1 /\ i + 1 \in 1 .. n /\ i <= n
    BY <1>1
  <2>2. f[i + 1] = Replayed(0, f[i], tris[i + 1]) /\ p \notin tris[i + 1].px
    BY <1>3, <1>5, <2>1
  <2>3. f[i + 1][p] = f[i][p]
    BY <2>2 DEF Replayed
  <2> QED
    BY <1>7, <2>1, <2>3
<1> HIDE DEF S
<1>8. \A i \in Nat : i \in S
  BY <1>6, <1>7, Induct
<1>9. n \in S /\ n <= n
  BY <1>1, <1>8
<1> QED
  BY <1>2, <1>5, <1>9 DEF S

(* A row in which some entry fills the pixel still does with more around   *)
(* it.                                                                     *)
LEMMA HitAmong ==
  ASSUME NEW X, NEW a \in Seq(X), NEW b \in Seq(X), NEW c \in Seq(X), NEW p,
         FilledBy(b, p)
  PROVE  FilledBy(a \o (b \o c), p)
<1>1. PICK i \in DOMAIN b : FillsAt(b[i], p)
  BY DEF FilledBy
<1> DEFINE s == b \o c
           u == a \o s
<1>2. /\ s \in Seq(X) /\ i \in DOMAIN s /\ s[i] = b[i] /\ i \in Nat
  BY <1>1
<1> HIDE DEF s
<1>3. u \in Seq(X) /\ Len(a) + i \in DOMAIN u /\ u[Len(a) + i] = s[i]
  BY <1>2
<1> HIDE DEF u
<1>4. \E j \in DOMAIN u : FillsAt(u[j], p)
  BY <1>1, <1>2, <1>3
<1> QED
  BY <1>4 DEF u, s, FilledBy

(* The slow flip's entries, at a pixel the description gives its colour.   *)
LEMMA EntriesLeave ==
  ASSUME NEW k \in 0 .. 1, Fits(buf[k]), buf[k].known, buf[k].d \in Seq(Aligned(2)),
         seen.d \in Seq(Rect), box[0] \in Seq(Rect), NEW trusted \in BOOLEAN,
         NEW p \in Pixels \ Cover(buf[k].d)
  PROVE  /\ Entries(k, trusted) \in Seq(Leaves(p, buf[k].colour))
         /\ ~trusted \/ p \in Cover(Erase) => FilledBy(Entries(k, trusted), p)
<1> DEFINE t    == buf[k]
           X    == Leaves(p, t.colour)
           pre  == IF fpStale THEN <<Entry("forget", Screen, 0)>> ELSE << >>
           one  == <<Entry("select", Screen, k)>>
           fill == <<Entry("fill", Screen, t.colour)>>
           back == IF trusted THEN Fills(t) ELSE fill
           puts == [i \in DOMAIN t.d |-> Entry("send", t.d[i], 0)]
           head == pre \o one
           tail == back \o puts
           list == Entries(k, trusted)
<1>1. t.d \in Seq(Rect) /\ t.colour \in Colours
  BY DEF Fits, BufType
<1>2. pre \in Seq(X) /\ one \in Seq(X)
  <2>1. /\ Entry("forget", Screen, 0) \in EntryType /\ Entry("forget", Screen, 0).op = "forget"
        /\ Entry("select", Screen, k) \in EntryType /\ Entry("select", Screen, k).op = "select"
    BY EntryFacts, ScreenFacts
  <2>2. Entry("forget", Screen, 0) \in X /\ Entry("select", Screen, k) \in X
    BY <2>1 DEF Leaves
  <2> HIDE DEF X
  <2> QED
    BY <2>2
<1>3. /\ fill \in Seq(X)
      /\ FilledBy(fill, p)
  <2> DEFINE e == Entry("fill", Screen, t.colour)
  <2>1. e \in EntryType /\ e.op = "fill" /\ e.a = Screen /\ e.arg = t.colour
    BY <1>1, EntryFacts, ScreenFacts
  <2> HIDE DEF e
  <2>2. e \in X /\ FillsAt(e, p)
    BY <2>1, ScreenFacts DEF Leaves, FillsAt
  <2> HIDE DEF X
  <2>3. <<e>> \in Seq(X) /\ 1 \in DOMAIN <<e>> /\ <<e>>[1] = e
    BY <2>2
  <2> QED
    BY <2>2, <2>3 DEF e, FilledBy
<1>4. /\ Fills(t) \in Seq(X)
      /\ p \in Cover(Erase) => FilledBy(Fills(t), p)
  <2>1. FillOf(t.colour) \subseteq X
    BY DEF FillOf, Leaves
  <2>2. /\ Fills(t) \in Seq(FillOf(t.colour))
        /\ p \in Cover(Erase) => \E i \in DOMAIN Fills(t) : p \in Area(Fills(t)[i].a)
    BY FillsFacts
  <2> DEFINE fs == Fills(t)
             Q  == FillOf(t.colour)
  <2>3. \A e \in Q : e.op = "fill"
    BY DEF FillOf
  <2> HIDE DEF fs, X, Q
  <2>4. fs \in Seq(Q) /\ (p \in Cover(Erase) => \E i \in DOMAIN fs : p \in Area(fs[i].a))
    BY <2>2 DEF fs, Q
  <2>5. fs \in Seq(X)
    BY <2>1, <2>4, SeqWider DEF Q
  <2>6. \A i \in DOMAIN fs : fs[i] \in Q
    BY <2>4
  <2>7. \A i \in DOMAIN fs : p \in Area(fs[i].a) => FillsAt(fs[i], p)
    BY <2>3, <2>6 DEF FillsAt
  <2> QED
    BY <2>4, <2>5, <2>7 DEF fs, FilledBy
<1>5. puts \in Seq(X)
  <2> DEFINE td == t.d
             n  == Len(td)
             ps == [i \in 1 .. n |-> Entry("send", td[i], 0)]
  <2>1. td \in Seq(Aligned(2)) /\ DOMAIN td = 1 .. n /\ n \in Nat
    OBVIOUS
  <2>a. \A i \in DOMAIN td : p \notin Area(td[i])
    BY DEF Cover
  <2> HIDE DEF td
  <2>2. ASSUME NEW i \in 1 .. n PROVE Entry("send", td[i], 0) \in X
    <3> DEFINE a == td[i]
    <3>1. a \in Aligned(2) /\ a \in Rect /\ p \notin Area(a)
      BY SMTT(60), <2>1, <2>a DEF Aligned
    <3> HIDE DEF a
    <3>2. /\ Entry("send", a, 0) \in EntryType /\ Entry("send", a, 0).a = a
          /\ Entry("send", a, 0).op = "send" /\ Entry("send", a, 0).arg = 0
      BY <3>1, EntryFacts
    <3>3. Entry("send", a, 0) \in X
      BY <3>1, <3>2 DEF Leaves
    <3> QED
      BY <3>3 DEF a
  <2> HIDE DEF X
  <2>3. ps \in [1 .. n -> X]
    BY <2>2
  <2>4. ps \in Seq(X)
    BY <2>1, <2>3
  <2> QED
    BY <2>1, <2>4 DEF td
<1>6. list = pre \o one \o (back \o puts)
  BY DEF Entries
<1>7. back \in Seq(X)
  BY <1>3, <1>4
<1>8. ~trusted \/ p \in Cover(Erase) => FilledBy(back, p)
  BY <1>3, <1>4
<1> HIDE DEF pre, one, back, puts, X, list
<1>9. head \in Seq(X) /\ tail \in Seq(X)
  BY <1>2, <1>5, <1>7
<1>10. ~trusted \/ p \in Cover(Erase) => FilledBy(head \o (back \o puts), p)
  <2> HIDE DEF head
  <2> SUFFICES ASSUME ~trusted \/ p \in Cover(Erase)
               PROVE  FilledBy(head \o (back \o puts), p)
    OBVIOUS
  <2>1. FilledBy(back, p)
    BY <1>8
  <2> QED
    BY <2>1, <1>5, <1>7, <1>9, HitAmong
<1>11. list \in Seq(X) /\ list = head \o tail
  BY <1>6, <1>9
<1> QED
  BY <1>10, <1>11 DEF list, X

(* Once flushed, they leave the pixel in that colour.                      *)
LEMMA FlushedLeaves ==
  ASSUME CardInv, front \in 0 .. 1, NEW k \in 0 .. 1, Fits(buf[k]), buf[k].known,
         buf[k].d \in Seq(Aligned(2)), seen.d \in Seq(Rect), box[0] \in Seq(Rect),
         NEW trusted \in BOOLEAN, NEW p \in Pixels \ Cover(buf[k].d),
         trusted => p \in Cover(Erase) \/ card.px[p] = Shown(p, buf[k].colour)
  PROVE  Flushed(buf, PushAll(buf, D0, Entries(k, trusted))).card.px[p] = Shown(p, buf[k].colour)
<1> DEFINE list == Entries(k, trusted)
           X    == Leaves(p, buf[k].colour)
<1>1. /\ list \in Seq(X)
      /\ ~trusted \/ p \in Cover(Erase) => FilledBy(list, p)
  BY EntriesLeave
<1>2. list \in Seq(EntryType)
  <2>1. X \subseteq EntryType
    BY DEF Leaves
  <2> HIDE DEF X, list
  <2> QED
    BY <1>1, <2>1, SeqWider
<1>3. card.px[p] = Shown(p, buf[k].colour) \/ FilledBy(list, p)
  BY <1>1
<1>4. Flushed(buf, D0) = Way(card, front, << >>) /\ IsCard(card)
  BY WaitingKept DEF CardInv
<1> HIDE DEF list
<1>5. Flushed(buf, PushAll(buf, D0, list)) = Applying!Fold(buf, Way(card, front, << >>), list)
  BY <1>2, <1>4, WayFacts, BatchExact
<1>6. Coloured(Applying!Fold(buf, Way(card, front, << >>), list).card, p, buf[k].colour)
  <2>1. Coloured(card, p, buf[k].colour) \/ FilledBy(list, p)
    BY <1>3 DEF Coloured
  <2> QED
    BY <1>1, <1>4, <2>1, LeavesRow
<1> QED
  BY <1>5, <1>6 DEF list, Coloured

(* What the books say before a Flip, in a form without the record.         *)
LEMMA SeenErase ==
  ASSUME BookInv, SeenIsSo, seen.known, ~gdi, ~lapse
  PROVE  \A p \in Pixels \ Cover(Erase) : card.px[p] = Shown(p, seen.colour)
<1>1. seen.d \in Seq(Rect) /\ box[0] \in Seq(Rect)
  BY DEF BookInv, BookTypes, SeenType
<1>2. Cover(Erase) = Cover(seen.d) \cup Cover(box[0])
  BY <1>1, CoverConcat DEF Erase
<1> QED
  BY <1>2 DEF SeenIsSo

(* After a slow Flip the card is as the new note says:                     *)
(* the batch has erased, filled and drawn it.                              *)
LEMMA SeenSlow ==
  ASSUME BufInv, CardInv, BookInv, DescIn(Aligned(2)), SeenBooks, SeenIsSo, Flip,
         FlipSlow(1 - front)
  PROVE  SeenIsSo'
<1> DEFINE k == 1 - front
           t == buf[k]
           trusted == SeenNow.known /\ ~paged /\ seen.colour = t.colour
           d == Flushed(buf, PushAll(buf, D0, Entries(k, trusted)))
<1>1. front \in 0 .. 1 /\ k \in 0 .. 1 /\ Fits(t) /\ t.d \in Seq(Aligned(2)) /\ t.tris \in Seq(Tris)
  <2>1. front \in 0 .. 1
    BY BufferIndex DEF BufInv
  <2> QED
    BY <2>1 DEF BufInv, Sound, DescIn, In
<1>2. seen \in SeenType /\ seen.d \in Seq(Rect) /\ box[0] \in Seq(Rect) /\ 0 \in DOMAIN box
  BY DEF BookInv, BookTypes, SeenType
<1> HIDE DEF k
<1>3. /\ paged' = FALSE
      /\ seen' = Described(t) /\ box' = [box EXCEPT ![0] = TriBoxes(t.tris)]
  BY DEF FlipSlow, LeavePages, k
<1>4. PICK o \in Atop(d.card.px, t.tris) :
        /\ Becomes([d EXCEPT !.card.px = o.px])
        /\ lapse' = ((Undrawn /\ trusted) \/ ~o.ok)
  BY DEF FlipSlow, k
<1>5. /\ seen'.known = t.known /\ seen'.colour = t.colour /\ seen'.d = t.d
      /\ box'[0] = TriBoxes(t.tris)
  BY <1>2, <1>3 DEF Described
<1>6. ASSUME t.known, ~lapse', NEW p \in Pixels \ (Cover(t.d) \cup Cover(TriBoxes(t.tris)))
      PROVE  card'.px[p] = Shown(p, t.colour)
  <2>1. trusted => p \in Cover(Erase) \/ card.px[p] = Shown(p, t.colour)
    <3> SUFFICES ASSUME trusted, p \notin Cover(Erase) PROVE card.px[p] = Shown(p, t.colour)
      OBVIOUS
    <3>1. seen.known /\ ~gdi /\ seen.colour = t.colour
      BY <1>2 DEF SeenNow, SeenType
    <3>2. direct = "no"
      BY <3>1 DEF SeenBooks
    <3>3. ~lapse
      BY <1>4, <1>6, <3>2 DEF Undrawn
    <3>4. card.px[p] = Shown(p, seen.colour)
      BY <3>1, <3>3, SeenErase
    <3> QED
      BY <3>1, <3>4
  <2>2. trusted \in BOOLEAN
    OBVIOUS
  <2> HIDE DEF trusted
  <2>3. d.card.px[p] = Shown(p, t.colour)
    <3>1. p \in Pixels \ Cover(buf[k].d)
      BY <1>6
    <3> QED
      BY <1>1, <1>2, <1>6, <2>1, <2>2, <3>1, FlushedLeaves
  <2>4. Entries(k, trusted) \in Seq(EntryType)
    <3>1. PICK pre \in Seq(EntryType), rest \in Seq(Quiet) :
             Entries(k, trusted) = pre \o <<Entry("select", Screen, k)>> \o rest
      BY <1>1, <1>2, <2>2, FlipEntries
    <3>2. rest \in Seq(EntryType) /\ Entry("select", Screen, k) \in EntryType
      BY <1>1, QuietSeq, EntryFacts, ScreenFacts
    <3> QED
      BY <3>1, <3>2
  <2>5. d = Way(d.card, d.sel, << >>) /\ IsCard(d.card)
    BY <1>1, <2>4, WayFacts, BatchExact, FlushedFacts
  <2> HIDE DEF d
  <2>6. o.px[p] = d.card.px[p]
    <3>1. p \in Pixels \ Cover(TriBoxes(t.tris)) /\ p \notin Cover(<< >>)
      BY <1>6, CoverNone
    <3>2. o.ok
      BY <1>1, <1>4, <1>6, DrewAtop
    <3>3. o.px = d.card.px \/ o.px = Replay(d.card.px, << >>, t.tris)
      BY <1>1, <1>4, <3>2, DrewAtop, Drew
    <3> QED
      BY <1>1, <3>1, <3>3, ReplayOutside
  <2>7. card'.px = o.px
    <3>1. [Way(d.card, d.sel, << >>) EXCEPT !.card.px = o.px].card.px = o.px
      BY <2>5 DEF Way, IsCard
    <3> QED
      BY <1>4, <2>5, <3>1 DEF Becomes
  <2> QED
    BY <2>3, <2>6, <2>7
<1> HIDE DEF d, t, trusted
<1> QED
  BY <1>3, <1>5, <1>6 DEF SeenIsSo

(* A frame over black: outside its boxes the page is black.                *)
LEMMA FrameBlack ==
  ASSUME NEW px, NEW erase, NEW tris \in Seq(Tris), NEW p \in Pixels \ Cover(TriBoxes(tris)),
         p \in Cover(erase) \/ px[p] = Shown(p, Black)
  PROVE  Replay(px, erase, tris)[p] = Shown(p, Black)
  BY ReplayOutside

(* The pixels drawn and the selection left to wait.                        *)
LEMMA BecomesDrawn ==
  ASSUME CardInv, front \in 0 .. 1, NEW k \in 0 .. 1, NEW img,
         Becomes([Select(k) EXCEPT !.card.px = img])
  PROVE  card'.px = img
<1>1. Select(k) = Way(card, sel, <<Entry("select", Screen, k)>>) /\ IsCard(card)
  BY SelectFacts DEF CardInv
<1> DEFINE v == [card EXCEPT !.px = img]
<1>2. v.px = img
  BY <1>1 DEF IsCard
<1>3. [Select(k) EXCEPT !.card.px = img] = Way(v, sel, <<Entry("select", Screen, k)>>)
  BY <1>1 DEF Way
<1> HIDE DEF v
<1>4. card' = v
  BY <1>3 DEF Becomes, Way
<1> QED
  BY <1>2, <1>4

(* After a fast Flip it is too: the boxes to erase are                     *)
(* The frame of a fast Flip, drawn on a page that is black outside the     *)
(* boxes it erases.                                                        *)
FrameAt(h, under, erase, tris) ==
  /\ h \in 0 .. 1 /\ \A p \in Pixels : p \in Cover(erase) \/ under[p] = Shown(p, Black)
  /\ box'[h] = TriBoxes(tris) /\ context
  /\ h = 0 => /\ card'.px = Replay(under, erase, tris) /\ page1' = page1
              /\ box'[1] = box[1] /\ (paged' => paged)
  /\ h = 1 => page1' = Replay(under, erase, tris) /\ card' = card /\ box'[0] = box[0]
  /\ page' = h \/ (h = 0 /\ page' = page /\ ~PagesFit)

LEMMA FastFrame ==
  ASSUME BufInv, CardInv, BookInv, SeenBooks, SeenIsSo, FlipFast(1 - front), ~lapse'
  PROVE  LET tris == buf[1 - front].tris IN
         /\ ~lapse /\ seen.known /\ ~gdi /\ Plain(seen)
         /\ \/ tris = drawn /\ card' = card /\ UNCHANGED <<box, pageVars>>
            \/ \E h, under, erase : FrameAt(h, under, erase, tris)
<1> DEFINE k == 1 - front
           tris == buf[k].tris
<1>1. front \in 0 .. 1 /\ k \in 0 .. 1
  BY BufferIndex DEF BufInv
<1>2. seen \in SeenType /\ box \in [0 .. 1 -> Seq(Rect)] /\ paged \in BOOLEAN /\ page \in 0 .. 1
  BY DEF BookInv, BookTypes, BookFlags
<1>3. seen.known /\ ~gdi /\ seen.d = << >> /\ seen.colour = Black
  BY <1>2 DEF FlipFast, Plain, SeenNow, SeenType
<1>4. Noted(k, TRUE) \/ (\E o : OneFrame(k) /\ Noted(k, o)) \/ lapse' = TRUE
  BY DEF FlipFast, PageFrame, PageLost, PageUncleared, OneFrame
<1>5. ~lapse
  <2>1. ~Undrawn
    BY <1>4 DEF Noted
  <2> QED
    BY <1>3, <2>1 DEF Undrawn, SeenBooks
<1>6. /\ \A p \in Pixels : p \in Cover(box[0]) \/ card.px[p] = Shown(p, Black)
      /\ paged => \A p \in Pixels : p \in Cover(box[1]) \/ page1[p] = Shown(p, Black)
  BY <1>3, <1>5, CoverNone DEF SeenIsSo
<1> HIDE DEF k
<1>7. Select(k) = Way(card, sel, <<Entry("select", Screen, k)>>)
  BY <1>1, SelectFacts
<1>8. Becomes(Select(k)) => card' = card
  BY <1>7 DEF Becomes, Way
<1>9. CASE tris = drawn
  <2>1. Becomes(Select(k)) /\ UNCHANGED <<box, pageVars>>
    BY <1>9 DEF FlipFast, k
  <2> QED
    BY <1>3, <1>5, <1>8, <1>9, <2>1 DEF Plain, k
<1>10. CASE OneFrame(k) /\ ~(PagesFit /\ context)
  <2>1. PICK o \in Replays(Select(k).card.px, box[0], tris) :
          Becomes([Select(k) EXCEPT !.card.px = o.px]) /\ Noted(k, o.ok)
    BY <1>10 DEF OneFrame
  <2>2. Select(k).card.px = card.px
    BY <1>7 DEF Way
  <2>3. o.ok
    <3>1. o.ok \in BOOLEAN
      BY <2>1, Drew
    <3> QED
      BY <2>1, <3>1 DEF Noted
  <2>4. context /\ o.px = Replay(card.px, box[0], tris)
    BY <2>1, <2>2, <2>3, Drew
  <2>5. card'.px = o.px
    BY <1>1, <2>1, BecomesDrawn
  <2>6. box' = [box EXCEPT ![0] = TriBoxes(tris)] /\ UNCHANGED pageVars
    BY <1>10 DEF OneFrame
  <2>7. box'[0] = TriBoxes(tris) /\ box'[1] = box[1]
    BY <1>2, <2>6
  <2>8. FrameAt(0, card.px, box[0], tris)
    BY <1>6, <1>10, <2>4, <2>5, <2>6, <2>7 DEF FrameAt, pageVars
  <2> QED
    BY <1>3, <1>5, <2>8 DEF Plain, k
<1>11. CASE PageFrame(k)
  <2> DEFINE h     == IF paged THEN 1 - page ELSE 1
             boxes == IF paged THEN box ELSE [box EXCEPT ![1] = << >>]
             under == IF h = 0 THEN card.px
                      ELSE IF paged THEN page1 ELSE [p \in Pixels |-> Shown(p, Black)]
  <2>1. PICK o \in Replays(under, BoxesOn(h), tris) :
          /\ IF h = 0 THEN Becomes([Select(k) EXCEPT !.card.px = o.px]) /\ UNCHANGED page1
                      ELSE page1' = o.px /\ Becomes(Select(k))
          /\ IF o.ok THEN page' = h /\ box' = [boxes EXCEPT ![h] = TriBoxes(tris)]
                     ELSE lapse' = TRUE
    BY <1>11 DEF PageFrame, PageLost
  <2>2. h \in 0 .. 1 /\ (h = 0 => paged) /\ boxes[0] = box[0] /\ DOMAIN boxes = 0 .. 1
        /\ (h = 0 => boxes[1] = box[1])
    BY <1>2
  <2>3. \A p \in Pixels : p \in Cover(BoxesOn(h)) \/ under[p] = Shown(p, Black)
    <3>1. CASE h = 0
      BY <1>6, <2>2, <3>1 DEF BoxesOn
    <3>2. CASE h = 1 /\ paged
      BY <1>6, <3>2 DEF BoxesOn
    <3>3. CASE h = 1 /\ ~paged
      BY <3>3
    <3> QED
      BY <2>2, <3>1, <3>2, <3>3
  <2> HIDE DEF under, h, boxes
  <2>4. context /\ o.px = Replay(under, BoxesOn(h), tris)
    BY <2>1, Drew
  <2>5. page' = h /\ box'[h] = TriBoxes(tris) /\ (h = 1 => box'[0] = box[0])
        /\ (h = 0 => box'[1] = box[1])
    BY <2>1, <2>2
  <2>6. /\ h = 0 => card'.px = o.px /\ page1' = page1
        /\ h # 0 => card' = card /\ page1' = o.px
    BY <1>1, <1>8, <2>1, BecomesDrawn
  <2>7. FrameAt(h, under, BoxesOn(h), tris)
    BY <2>2, <2>3, <2>4, <2>5, <2>6 DEF FrameAt
  <2> QED
    BY <1>3, <1>5, <2>7 DEF Plain, k
<1>12. ~PageUncleared(k)
  BY DEF PageUncleared
<1> QED
  BY <1>9, <1>10, <1>11, <1>12 DEF FlipFast, k

(* A fast flip: the card is left, or its page erased and drawn on again.   *)
LEMMA SeenFast ==
  ASSUME BufInv, CardInv, BookInv, SeenBooks, SeenIsSo, Flip, FlipFast(1 - front)
  PROVE  SeenIsSo'
<1> DEFINE k == 1 - front
           tris == buf[k].tris
<1> SUFFICES ASSUME ~lapse', seen'.known PROVE SeenIsSo'
  BY DEF SeenIsSo
<1>1. k \in 0 .. 1 /\ tris \in Seq(Tris)
  BY BufferIndex DEF BufInv, Sound, Fits, BufType
<1>2. seen' = Described(buf[k]) /\ Plain(buf[k])
  <2>1. seen' # Unknown(seen)
    BY UnseenBooks
  <2> QED
    BY <2>1, FlipNotes DEF FlipFast
<1>3. seen'.d = << >> /\ seen'.colour = Black
  BY <1>2 DEF Plain, Described
<1>4. /\ ~lapse /\ seen.known /\ ~gdi /\ Plain(seen)
      /\ \/ tris = drawn /\ card' = card /\ UNCHANGED <<box, pageVars>>
         \/ \E h, under, erase : FrameAt(h, under, erase, tris)
  BY FastFrame
<1>5. /\ \A p \in Pixels : p \in Cover(box[0]) \/ card.px[p] = Shown(p, Black)
      /\ paged => \A p \in Pixels : p \in Cover(box[1]) \/ page1[p] = Shown(p, Black)
  BY <1>4, CoverNone DEF SeenIsSo, Plain
<1> HIDE DEF k
<1> SUFFICES /\ \A p \in Pixels \ Cover(box'[0]) : card'.px[p] = Shown(p, Black)
             /\ paged' => \A p \in Pixels \ Cover(box'[1]) : page1'[p] = Shown(p, Black)
  BY <1>3, CoverNone DEF SeenIsSo
<1> HIDE DEF tris
<1>6. CASE card' = card /\ UNCHANGED <<box, pageVars>>
  BY <1>5, <1>6 DEF pageVars
<1>7. CASE \E h, under, erase : FrameAt(h, under, erase, tris)
  <2>1. PICK h, under, erase : FrameAt(h, under, erase, tris)
    BY <1>7
  <2>2. \A p \in Pixels \ Cover(TriBoxes(tris)) : Replay(under, erase, tris)[p] = Shown(p, Black)
    BY <1>1, <2>1, FrameBlack DEF FrameAt, tris
  <2>3. h = 0 \/ h = 1
    BY <2>1 DEF FrameAt
  <2> QED
    BY <1>5, <2>1, <2>2, <2>3 DEF FrameAt
<1> QED
  BY <1>4, <1>6, <1>7

(* Every step leaves the card as the driver believes it is.                *)
LEMMA SeenStep ==
  ASSUME BufInv, CardInv, BookInv, DescIn(Aligned(2)), HeldInv, SeenBooks, SeenIsSo, [Next]_vars
  PROVE  SeenIsSo'
<1>1. CASE ~seen'.known
  BY <1>1 DEF SeenIsSo
<1>2. CASE Flip
  <2>1. FlipFast(1 - front) \/ FlipSlow(1 - front)
    BY <1>2 DEF Flip
  <2> QED
    BY <1>2, <2>1, SeenFast, SeenSlow
<1>3. CASE Gdi
  <2>1. gdi'
    BY <1>3 DEF Gdi
  <2> QED
    BY <2>1 DEF SeenIsSo
<1>4. CASE UNCHANGED <<card, seen, drawn, box, gdi, pageVars, direct, lapse, held>>
  BY <1>4 DEF SeenIsSo, pageVars
<1>5. CASE Unlock /\ UNCHANGED <<seen, drawn, box, gdi, pageVars, direct>>
  <2>1. CASE ~seen.known
    <3>1. ~seen'.known
      BY <1>5, <2>1
    <3> QED
      BY <3>1 DEF SeenIsSo
  <2>2. CASE seen.known
    <3>1. Kept(held) = {}
      BY <2>2 DEF SeenBooks
    <3>2. 1 .. HeldMax \ Free = {}
      BY <3>1 DEF Kept, Free
    <3>3. UNCHANGED <<card, lapse>>
      BY <1>5, <3>2 DEF Unlock
    <3> QED
      BY <1>5, <3>3 DEF SeenIsSo, pageVars
  <2> QED
    BY <2>1, <2>2
<1> QED
  BY <1>1, <1>2, <1>3, <1>4, <1>5, SeenMoves

(* At first nothing is believed.                                           *)
LEMMA SeenInit == Init => HeldInv /\ SeenBooks /\ SeenIsSo
<1> SUFFICES ASSUME Init PROVE HeldInv /\ SeenBooks /\ SeenIsSo
  OBVIOUS
<1>1. /\ seen = [known |-> FALSE, colour |-> Black, d |-> << >>]
      /\ held = [i \in 1 .. HeldMax |-> NoRect] /\ locks = << >>
  BY DEF Init
<1>2. ~seen.known
  BY <1>1
<1>3. Kept(held) = {} /\ Fronts(locks, front) = {}
  BY <1>1 DEF Kept, Fronts
<1>4. HeldInv
  BY <1>3, FS_EmptySet DEF HeldInv
<1> QED
  BY <1>2, <1>4 DEF SeenBooks, SeenIsSo

(* What m8dd_card says of the card is so, wherever the next Flip relies on *)
(* it (m8dd32.c:577 "what the card shows, while its `known`"): outside the *)
(* description's rectangles and the boxes to erase, page 0 shows its       *)
(* colour, and page 1 black outside its own boxes.  As long as the         *)
(* rectangles named are even: an odd one is sent a pixel wider than the    *)
(* description says (README, MCDd16_odd.cfg).                              *)
THEOREM SeenSpeaks ==
  ASSUME Named(Aligned(2))
  PROVE  Spec => []SeenIsSo
<1> DEFINE Inv == /\ BufInv /\ CardInv /\ BookInv
                  /\ DescIn(Aligned(2)) /\ HeldIn(Aligned(2))
                  /\ HeldInv /\ SeenBooks /\ SeenIsSo
<1>1. Init => Inv
  BY BufInit, WayInit, InInit, SeenInit
<1>2. Inv /\ [Next]_vars => Inv'
  <2> SUFFICES ASSUME Inv, [Next]_vars PROVE Inv'
    OBVIOUS
  <2>1. Closed(Aligned(2))
    BY AlignedClosed
  <2>2. BufInv' /\ CardInv' /\ BookInv'
    BY BufStep, CardStep, BookStep
  <2>3. DescIn(Aligned(2))' /\ HeldIn(Aligned(2))'
    BY <2>1, InStep
  <2>4. HeldInv' /\ SeenBooks'
    BY HeldStep, BooksStep
  <2>5. SeenIsSo'
    BY SeenStep
  <2> QED
    BY <2>2, <2>3, <2>4, <2>5
<1> QED
  BY <1>1, <1>2, PTL DEF Spec
-----------------------------------------------------------------------------
(* The shown buffer on the screen.                                         *)

(* m8dd_diff_row leaves no changed pixel out.                              *)
LEMMA DiffCovered ==
  ASSUME NEW old, NEW new, NEW p \in Pixels, old[p] # new[p]
  PROVE  \E r \in DiffRects(old, new) : r \in Rect /\ p \in Area(r)
<1> DEFINE Diff    == {q \in Pixels : old[q] # new[q]}
           Rows    == {q[2] : q \in Diff}
           Runs    == {w \in Rows \X Rows : /\ w[1] .. w[2] \subseteq Rows /\ w[1] <= w[2]
                                            /\ w[1] - 1 \notin Rows /\ w[2] + 1 \notin Rows}
           Cols(w) == {z[1] : z \in {q \in Diff : q[2] \in w[1] .. w[2]}}
           Put(w)  == [l |-> Min(Cols(w)), t |-> w[1], r |-> Max(Cols(w)) + 1, b |-> w[2] + 1]
<1>1. DiffRects(old, new) = {Put(w) : w \in Runs}
  BY DEF DiffRects
<1>2. \A q \in Pixels : q[1] \in 0 .. Width - 1 /\ q[2] \in 0 .. Height - 1
  BY DEF Pixels
<1>3. p \in Diff /\ p[2] \in Rows
  OBVIOUS
<1>4. Rows \subseteq 0 .. Height - 1
  BY <1>2
<1> HIDE DEF Rows
<1>5. PICK u \in Rows, v \in Rows : /\ u <= p[2] /\ p[2] <= v /\ u .. v \subseteq Rows
                                    /\ u - 1 \notin Rows /\ v + 1 \notin Rows
  BY <1>3, <1>4, RunAround, GeometryAssumption
<1>6. u \in Nat /\ v \in Nat /\ p[2] \in Nat /\ p[2] \in u .. v
  BY <1>2, <1>4, <1>5
<1> DEFINE w == <<u, v>>
<1>7. w \in Runs
  BY <1>5, <1>6
<1>8. w[1] = u /\ w[2] = v
  OBVIOUS
<1>9. p[1] \in Cols(w) /\ Cols(w) \subseteq 0 .. Width - 1
  BY <1>2, <1>3, <1>6, <1>8
<1> HIDE DEF w, Cols
<1>10. Min(Cols(w)) \in Cols(w) /\ Min(Cols(w)) <= p[1]
  <2>1. Cols(w) \subseteq Nat /\ Cols(w) # {}
    BY <1>9
  <2>2. \E x \in Cols(w) : \A y \in Cols(w) : x <= y
    BY <2>1, NatMin
  <2> QED
    BY <1>9, <2>2 DEF Min
<1>11. Max(Cols(w)) \in Cols(w) /\ p[1] <= Max(Cols(w))
  <2>1. \E x \in Cols(w) : \A y \in Cols(w) : y <= x
    BY <1>9, NatMax, GeometryAssumption
  <2>2. \E x \in Cols(w) : \A y \in Cols(w) : x >= y
    <3>1. \A x, y \in Cols(w) : y <= x => x >= y
      BY <1>9
    <3> QED
      BY <2>1, <3>1
  <2>3. Max(Cols(w)) \in Cols(w) /\ \A y \in Cols(w) : Max(Cols(w)) >= y
    BY <2>2 DEF Max
  <2> QED
    BY <1>9, <2>3
<1> DEFINE lo == Min(Cols(w))
           hi == Max(Cols(w))
<1>12. lo \in Int /\ hi \in Int /\ lo <= p[1] /\ p[1] <= hi /\ p[1] \in Int
  BY <1>9, <1>10, <1>11
<1>13. Put(w) = [l |-> lo, t |-> u, r |-> hi + 1, b |-> v + 1]
  BY <1>8
<1> HIDE DEF lo, hi, Put
<1>14. Put(w) \in Rect
  BY <1>6, <1>12, <1>13 DEF Rect
<1>15. p \in Area(Put(w))
  <2>1. p[1] < hi + 1 /\ u <= p[2] /\ p[2] < v + 1
    BY <1>5, <1>6, <1>12
  <2> QED
    BY <1>12, <1>13, <2>1 DEF Area
<1> QED
  BY <1>1, <1>7, <1>14, <1>15 DEF Put

(* Its rectangles are rectangles.                                          *)
LEMMA DiffRectangles ==
  ASSUME NEW old, NEW new
  PROVE  \A r \in DiffRects(old, new) : r \in Rect
<1> DEFINE Diff    == {q \in Pixels : old[q] # new[q]}
           Rows    == {q[2] : q \in Diff}
           Runs    == {w \in Rows \X Rows : /\ w[1] .. w[2] \subseteq Rows /\ w[1] <= w[2]
                                            /\ w[1] - 1 \notin Rows /\ w[2] + 1 \notin Rows}
           Cols(w) == {z[1] : z \in {q \in Diff : q[2] \in w[1] .. w[2]}}
           Put(w)  == [l |-> Min(Cols(w)), t |-> w[1], r |-> Max(Cols(w)) + 1, b |-> w[2] + 1]
<1>1. DiffRects(old, new) = {Put(w) : w \in Runs}
  BY DEF DiffRects
<1>2. \A q \in Pixels : q[1] \in 0 .. Width - 1 /\ q[2] \in 0 .. Height - 1
  BY DEF Pixels
<1>3. Rows \subseteq 0 .. Height - 1
  BY <1>2
<1>4. ASSUME NEW w \in Runs PROVE Put(w) \in Rect
  <2>1. w[1] \in Rows /\ w[2] \in Rows /\ w[1] <= w[2]
    OBVIOUS
  <2>2. w[1] \in Int /\ w[2] \in Int /\ w[1] \in w[1] .. w[2]
    BY <1>3, <2>1
  <2>3. PICK q \in Diff : q[2] = w[1]
    BY <2>1
  <2>4. q[1] \in Cols(w)
    BY <2>2, <2>3
  <2>5. Cols(w) \subseteq 0 .. Width - 1
    BY <1>2
  <2> HIDE DEF Cols, Runs
  <2>6. Min(Cols(w)) \in Int
    <3>1. Cols(w) \subseteq Nat /\ Cols(w) # {}
      BY <2>4, <2>5
    <3>2. \E x \in Cols(w) : \A y \in Cols(w) : x <= y
      BY <3>1, NatMin
    <3> QED
      BY <2>5, <3>2 DEF Min
  <2>7. Max(Cols(w)) \in Int
    <3>1. \E x \in Cols(w) : \A y \in Cols(w) : y <= x
      BY <2>4, <2>5, NatMax, GeometryAssumption
    <3>2. \E x \in Cols(w) : \A y \in Cols(w) : x >= y
      <4>1. \A x, y \in Cols(w) : y <= x => x >= y
        BY <2>5
      <4> QED
        BY <3>1, <4>1
    <3> QED
      BY <2>5, <3>2 DEF Max
  <2> QED
    BY <2>2, <2>6, <2>7 DEF Rect
<1> QED
  BY ZenonT(60), <1>1, <1>4

(* Sending what differs: where old was shown, new is.                      *)
LEMMA DiffShows ==
  ASSUME CardInv, AllHonest(card), NEW B, NEW old, NEW new, SendDiff(B, old, new),
         B[sel].ram = new, \A p \in Pixels : Synced(card, old, p)
  PROVE  \A p \in Pixels : Synced(card', new, p)
<1> DEFINE rects == DiffRects(old, new)
           seq   == SetToSeq(rects)
           n     == Cardinality(rects)
           Sent(i, p) == old[p] = new[p] \/ \E j \in 1 .. i : seq[j] \in Rect /\ p \in Area(seq[j])
<1>1. /\ n \in Nat /\ DOMAIN seq = 1 .. n
      /\ \A x \in rects : \E i \in 1 .. n : seq[i] = x
  BY DiffFinite, SeqOfSet
<1>2. card' = Sending!Fold(new, card, seq)
  BY DEF SendDiff, Sending!Fold, SendExact, FoldLeft,
         MapThenFoldSet, Max, Sending!Last
<1>e. \A i \in 1 .. n : seq[i] \in rects
  BY DiffFinite, SeqOfSet
<1>r. \A r \in rects : r \in Rect
  BY DiffRectangles
<1>3. \A p \in Pixels : Sent(n, p)
  <2> SUFFICES ASSUME NEW p \in Pixels, old[p] # new[p] PROVE Sent(n, p)
    OBVIOUS
  <2>1. PICK r \in rects : r \in Rect /\ p \in Area(r)
    BY DiffCovered
  <2> HIDE DEF rects
  <2> QED
    BY <1>1, <2>1
<1> HIDE DEF rects, seq, n
<1>4. PICK f : Sending!Trace(new, card, seq, n, f)
  BY <1>1, Inductions, Sending!FoldTrace
<1>5. f[0] = card /\ f[n] = card'
      /\ \A i \in 0 .. n - 1 : f[i + 1] = SendRect(f[i], new, seq[i + 1], Exact)
  BY <1>2, <1>4 DEF Sending!Trace, SendExact
<1> DEFINE S == {i \in Nat : i <= n => /\ IsCard(f[i]) /\ AllHonest(f[i])
                                       /\ \A p \in Pixels : Sent(i, p) => Synced(f[i], new, p)}
<1>6. 0 \in S
  <2>1. \A p \in Pixels : Sent(0, p) => Synced(card, new, p)
    <3>1. \A p \in Pixels : Sent(0, p) => old[p] = new[p]
      OBVIOUS
    <3> HIDE DEF Sent
    <3> QED
      BY <3>1 DEF Synced
  <2> HIDE DEF Sent
  <2> QED
    BY <1>5, <2>1 DEF CardInv
<1>7. ASSUME NEW i \in Nat, i \in S PROVE i + 1 \in S
  <2> SUFFICES ASSUME i + 1 <= n
               PROVE  /\ IsCard(f[i + 1]) /\ AllHonest(f[i + 1])
                      /\ \A p \in Pixels : Sent(i + 1, p) => Synced(f[i + 1], new, p)
    OBVIOUS
  <2>1. i \in 0 .. n - 1 /\ i + 1 \in 1 .. n /\ i <= n
    BY <1>1
  <2> DEFINE v == f[i]
             r == seq[i + 1]
             w == f[i + 1]
  <2>2. IsCard(v) /\ AllHonest(v) /\ \A p \in Pixels : Sent(i, p) => Synced(v, new, p)
    BY <1>7, <2>1
  <2>3. w = SendRect(v, new, r, Exact) /\ r \in Rect
    BY <1>5, <1>e, <1>r, <2>1
  <2>4. \A p \in Pixels : Sent(i + 1, p) => Sent(i, p) \/ p \in Area(r)
    <3>1. \A j \in 1 .. i + 1 : j \in 1 .. i \/ j = i + 1
      BY <2>1
    <3> QED
      BY <3>1
  <2> HIDE DEF v, r, w, Sent
  <2>5. /\ IsCard(w) /\ \A p \in Area(r) : Synced(w, new, p)
        /\ \A p \in Pixels : Synced(v, new, p) => Synced(w, new, p)
    BY <2>2, <2>3, SendShows
  <2>6. AllHonest(w)
    BY <2>2, <2>3, SendRectHonest
  <2>7. \A p \in Pixels : Sent(i + 1, p) => Synced(w, new, p)
    BY <2>2, <2>4, <2>5
  <2> QED
    BY <2>5, <2>6, <2>7 DEF w
<1> HIDE DEF S, Sent
<1>8. \A i \in Nat : i \in S
  BY <1>6, <1>7, Induct
<1>9. n \in S /\ n <= n
  BY <1>1, <1>8
<1> QED
  BY <1>3, <1>5, <1>9 DEF S

(* A copy within the shown buffer: the card's own, or sent.                *)
LEMMA CopyShows ==
  ASSUME CardInv, AllHonest(card), NEW B, NEW a \in Rect, NEW m \in Int \X Int,
         CopyNow(B, a, m), Inside(Shifted(a, m), Screen), NEW old \in [Pixels -> Colours],
         \A p \in Pixels : Synced(card, old, p), B[sel].ram = Taken(old, old, a, m, FALSE)
  PROVE  \A p \in Pixels : Synced(card', Taken(old, old, a, m, FALSE), p)
<1> DEFINE new == Taken(old, old, a, m, FALSE)
<1>1. \A p \in Area(a) : Shift(p, m) \in Pixels
  BY ShiftFacts
<1>2. \A p \in Pixels : new[p] = IF p \in Area(a) THEN old[Shift(p, m)] ELSE old[p]
  BY <1>1 DEF Taken
<1>3. IsCard(card) /\ m[1] \in Int /\ m[2] \in Int
  BY DEF CardInv
<1> HIDE DEF new
<1>4. CASE Area(a) = {}
  <2>1. card' = card
    BY <1>4 DEF CopyNow
  <2> QED
    BY <1>2, <1>4, <2>1 DEF Synced, new
<1>5. CASE Area(a) # {} /\ InPhase(a, m[1], m[2])
  <2>1. card' = CardCopy(card, a, m[1], m[2])
    BY <1>5 DEF CopyNow
  <2>2. \A p \in Pixels : new[p] = IF p \in Area(a) /\ <<p[1] + m[1], p[2] + m[2]>> \in Pixels
                                   THEN old[<<p[1] + m[1], p[2] + m[2]>>] ELSE old[p]
    BY <1>1, <1>2 DEF Shift
  <2>3. \A p \in Pixels : Honest(card, p)
    BY DEF AllHonest
  <2>4. \A p \in Pixels : Synced(CardCopy(card, a, m[1], m[2]), new, p)
    BY <1>3, <1>5, <2>2, <2>3, CardCopyFacts
  <2> QED
    BY <2>1, <2>4 DEF new
<1>6. CASE Area(a) # {} /\ ~InPhase(a, m[1], m[2])
  <2> DEFINE w == Flush(card, new, a)
  <2>1. card' = w
    BY <1>6 DEF CopyNow, new
  <2>2. \A p \in Pixels : Honest(card, p)
    BY DEF AllHonest
  <2>3. /\ \A p \in Area(a) : Synced(w, new, p)
        /\ \A p \in Pixels \ Area(a) : Synced(card, new, p) => Synced(w, new, p)
    BY <1>3, <2>2, FlushFacts
  <2> HIDE DEF w
  <2>4. \A p \in Pixels \ Area(a) : Synced(card, new, p)
    BY <1>2 DEF Synced
  <2> QED
    BY <2>1, <2>3, <2>4 DEF new
<1> QED
  BY <1>4, <1>5, <1>6

-----------------------------------------------------------------------------
(* The invariant.                                                          *)

(* Without a pair nothing waits, page 0 is shown, and the primary is read  *)
(* from its RAM; page 1 is shown only on a card that holds two.            *)
AloneInv == /\ ~live => batch = << >> /\ page = 0 /\ buf[0].known = FALSE
            /\ page = 1 => PagesFit

(* The one lock's rectangle is the one held.                               *)
LockInv ==
  /\ Len(locks) <= 1
  /\ IF Locked THEN Kept(held) = {1} /\ held[1] = locks[1].r ELSE Kept(held) = {}

Black0 == [p \in Pixels |-> Black]

(* While the note of what the card shows is believed and plain, the screen *)
(* is the triangles drawn on it, on black: what the fast Flip erases.      *)
DrawnInv ==
  seen.known /\ ~gdi /\ ~lapse /\ Plain(seen) =>
    \A p \in Pixels : Screened[p] = Shown(p, Adding!Fold(0, Black0, drawn)[p])

(* What the program draws under its lock is not sent before Unlock.        *)
Exempt == IF Locked THEN Area(locks[1].r) ELSE {}

(* A pixel shows what the program asked for, or what its description says  *)
(* where GDI and triangles of it lie on each other.                        *)
ShownAt(p) ==
  \/ Screened[p] = Shown(p, want[front][p])
  \/ buf[front].filled /\ Screened[p] = Shown(p, Stands(buf[front], FALSE)[p])

ShownInv == ~lapse => \A p \in Pixels \ Exempt : ShownAt(p)

(* The program holds one lock at a time.                                   *)
Alone == MaxLocks <= 1

(* A read of the shown buffer puts its triangles in RAM after GDI drew on  *)
(* it: m8dd_ready_all (m8dd32.c:777) enters the boxes of the triangles in  *)
(* the description, and with them GDI's pixels beside the triangles, where *)
(* the card still shows the description's colour.                          *)
StrayTriangles == /\ ~lapse' /\ Strayed(buf[front]) /\ buf[front].tris # << >>
                  /\ buf'[front] = ReadyAll(buf[front])

(* What is known already.                                                  *)
Sides == /\ BufInv /\ CardInv /\ BookInv /\ FpInv /\ HeldInv /\ SeenBooks /\ SeenIsSo /\ Stand
         /\ DescIn(Aligned(SegW)) /\ HeldIn(Aligned(SegW))

(* Where GDI cannot have strayed, a buffer has one meaning.                *)
LEMMA StandsFacts ==
  ASSUME NEW b \in BufType
  PROVE  b.known = FALSE \/ b.filled = FALSE => Stands(b, FALSE) = Meaning(b)
<1>1. ASSUME b.filled = FALSE PROVE Stands(b, FALSE) = Meaning(b)
  BY <1>1 DEF Meaning
<1>2. ASSUME b.known = FALSE PROVE Stands(b, FALSE) = Meaning(b)
  <2>1. \A f \in BOOLEAN : [p \in Pixels |-> IF b.known /\ ~f /\ p \notin Cover(b.d)
                                           THEN b.colour ELSE b.ram[p]]
                           = [p \in Pixels |-> b.ram[p]]
    BY <1>2
  <2>2. b.filled \in BOOLEAN
    BY DEF BufType
  <2> QED
    BY <2>1, <2>2 DEF Meaning, Stands
<1> QED
  BY <1>1, <1>2

(* With no lapse and nothing behind, the card shows the shown buffer and   *)
(* is sent from it.                                                        *)
LEMMA Upright ==
  ASSUME Sides, ShownInv, ~lapse, ~Behind, locks = << >>
  PROVE  /\ sel = front /\ page = 0 /\ AllHonest(card)
         /\ want[front] = Meaning(buf[front])
         /\ \A p \in Pixels : Synced(card, want[front], p)
<1> DEFINE other == Stands(buf[front], FALSE)
<1>a. other = Meaning(buf[front])
  BY DEF Behind, Strayed
<1>b. \A p \in Pixels : ShownAt(p) =>
        Screened[p] = Shown(p, want[front][p]) \/ Screened[p] = Shown(p, other[p])
  BY DEF ShownAt
<1> HIDE DEF other
<1>1. sel = front /\ ~fpStale /\ page = 0
  <2>1. page \in 0 .. 1
    BY DEF Sides, BookInv, BookTypes
  <2> QED
    BY <2>1 DEF Behind
<1>2. AllHonest(card)
  BY <1>1 DEF Sides, FpInv, FpMarked
<1>3. want[front] = Meaning(buf[front])
  BY DEF Sides, Stand, BufInv
<1>4. Exempt = {}
  BY DEF Exempt, Locked
<1>5. \A p \in Pixels : card.px[p] = Shown(p, want[front][p])
  BY <1>1, <1>3, <1>4, <1>a, <1>b DEF ShownInv, Screened
<1> QED
  BY <1>1, <1>2, <1>3, <1>5 DEF Synced

(* Afterwards.                                                             *)
LEMMA Landed ==
  ASSUME page' = 0, \A p \in Pixels : Synced(card', want'[front'], p)
  PROVE  ShownInv'
<1>1. \A p \in Pixels : Screened'[p] = Shown(p, want'[front'][p])
  BY DEF Screened, Synced
<1> QED
  BY <1>1 DEF ShownInv, ShownAt

(* What leaves the card and the shown buffer alone.                        *)
LEMMA Unseen ==
  ASSUME ShownInv, UNCHANGED <<card, front, page, page1, locks>>, want'[front] = want[front],
         buf'[front] = buf[front], lapse => lapse'
  PROVE  ShownInv'
<1>1. Exempt' = Exempt /\ Screened' = Screened
  BY DEF Exempt, Locked, Screened
<1> QED
  BY <1>1 DEF ShownInv, ShownAt

(* What puts the shown buffer in RAM only, for someone to read.            *)
LEMMA UnseenReady ==
  ASSUME Sides, ShownInv, UNCHANGED <<card, front, page, page1>>, want'[front] = want[front],
         Exempt' = Exempt, buf'[front] = ReadyAll(buf[front]), ~StrayTriangles, lapse => lapse'
  PROVE  ShownInv'
<1> DEFINE b == buf[front]
<1>1. Fits(b) /\ b \in BufType /\ want[front] = Meaning(b)
  BY BufferIndex DEF Sides, BufInv, Stand, Sound, Fits
<1>2. Screened' = Screened
  BY DEF Screened
<1>3. SUFFICES ASSUME ~lapse' PROVE \A p \in Pixels \ Exempt : ShownAt(p)'
  BY DEF ShownInv
<1>4. \A p \in Pixels \ Exempt : ShownAt(p)
  BY <1>3 DEF ShownInv
<1>5. CASE ~Strayed(b)
  <2>1. \A p \in Pixels \ Exempt : Screened[p] = Shown(p, want[front][p])
    BY <1>1, <1>4, <1>5 DEF ShownAt, Strayed
  <2> QED
    BY <1>2, <2>1 DEF ShownAt
<1>6. CASE Strayed(b)
  <2>1. b.filled = TRUE
    <3>1. b.filled \in BOOLEAN
      BY <1>1 DEF BufType
    <3> QED
      BY <1>1, <1>6, <3>1, StandsFacts DEF Strayed
  <2>2. b.tris = << >>
    BY <1>3, <1>6 DEF StrayTriangles
  <2>3. ReadyAll(b) = b
    <3>1. [b EXCEPT !.tris = << >>] = b
      BY <1>1, <2>2 DEF BufType
    <3>2. TrisToRam(b) = b
      <4>1. TrisToRam(b) = Drawing!Fold(0, [b EXCEPT !.tris = << >>], b.tris)
        BY AsFolds
      <4>2. Drawing!Fold(0, b, << >>) = b
        BY Inductions, Drawing!FoldEmpty
      <4> HIDE DEF b
      <4> QED
        BY <2>2, <3>1, <4>1, <4>2
    <3>3. Ready(b, Pixels) = b
      BY <2>1 DEF Ready
    <3>4. [b EXCEPT !.filled = TRUE] = b
      BY <1>1, <2>1 DEF BufType
    <3> HIDE DEF b
    <3> QED
      BY <3>2, <3>3, <3>4 DEF ReadyAll
  <2>4. buf'[front'] = buf[front] /\ want'[front'] = want[front]
    BY <2>3
  <2> QED
    BY <1>2, <1>4, <2>4 DEF ShownAt
<1> QED
  BY <1>5, <1>6

(* m8dd_send, of a rectangle outside which the card is right already.      *)
LEMMA SentNow ==
  ASSUME CardInv, AllHonest(card), NEW B, NEW a \in Rect, SendNow(B, a, 0), NEW new,
         B[sel].ram = new, \A p \in Pixels \ Area(a) : Synced(card, new, p)
  PROVE  \A p \in Pixels : Synced(card', new, p)
<1>1. CASE Area(a) = {}
  BY <1>1 DEF SendNow, Synced
<1>2. CASE Area(a) # {}
  <2> DEFINE w == SendRect(card, new, a, 0)
  <2>1. card' = w
    BY <1>2 DEF SendNow
  <2>2. /\ \A p \in Area(a) : Synced(w, new, p)
        /\ \A p \in Pixels : Synced(card, new, p) => Synced(w, new, p)
    BY SendShows DEF CardInv
  <2> HIDE DEF w
  <2> QED
    BY <2>1, <2>2
<1> QED
  BY <1>1, <1>2

(* Fills.                                                                  *)
LEMMA ShownFill ==
  ASSUME Sides, ShownInv, NEW k \in Buffers, NEW a \in Boxes, NEW c \in Colours, BltFill(k, a, c)
  PROVE  ShownInv'
<1>0. /\ locks = << >> /\ want' = [want EXCEPT ![k] = Over(@, Area(a), c)]
      /\ IF k = front THEN FillShown(k, a, c) ELSE FillHidden(k, a, c)
  BY DEF BltFill
<1>1. /\ a \in Rect /\ k \in 0 .. 1 /\ Sound(buf[k]) /\ want \in [0 .. 1 -> [Pixels -> Colours]]
      /\ buf \in [0 .. 1 -> BufType] /\ IsCard(card) /\ front \in 0 .. 1
  BY BufferIndex, BoxFacts DEF Sides, BufInv, CardInv
<1>2. CASE k # front
  <2>1. want'[front] = want[front]
    BY <1>0, <1>1, <1>2
  <2>2. UNCHANGED <<card, front, page, page1, locks, lapse>> /\ buf'[front] = buf[front]
    BY <1>0, <1>1, <1>2 DEF FillHidden, OnHidden, cardVars, pageVars, progVars
  <2> QED
    BY <2>1, <2>2, Unseen
<1>3. CASE k = front
  <2> DEFINE own == Unknown(ReadyAll(buf[k]))
             B == [buf EXCEPT ![k] = Paint(own, Area(a), c)]
             new == Over(want[k], Area(a), c)
  <2>1. /\ front' = front /\ page' = page
        /\ lapse' = (lapse \/ Behind) /\ SendNow(B, a, 1)
    BY <1>0, <1>3 DEF FillShown, OnShown, pageVars, progVars
  <2>2. SUFFICES ASSUME ~lapse' PROVE ShownInv'
    BY DEF ShownInv
  <2>3. /\ sel = front /\ page = 0 /\ AllHonest(card) /\ want[front] = Meaning(buf[front])
        /\ \A p \in Pixels : Synced(card, want[front], p)
    BY <1>0, <2>1, <2>2, Upright
  <2>4. B[sel].ram = new
    <3>1. Sound(own) /\ own.ram = want[k]
      BY <1>1, <1>3, <2>3, DirectFacts
    <3>2. Fits(own)
      BY <3>1 DEF Sound
    <3> HIDE DEF own
    <3>3. Paint(own, Area(a), c).ram = Over(own.ram, Area(a), c)
      BY <3>2, PaintFacts
    <3>4. B[k] = Paint(own, Area(a), c)
      BY <1>1
    <3> QED
      BY <1>3, <2>3, <3>1, <3>3, <3>4
  <2>5. \A p \in Pixels : new[p] = IF p \in Area(a) THEN c ELSE want[front][p]
    BY <1>3 DEF Over
  <2>6. want'[front'] = new
    BY <1>0, <1>1, <1>3, <2>1
  <2> HIDE DEF B, own, new
  <2>7. \A p \in Pixels : Synced(card', new, p)
    <3>1. CASE Area(a) = {}
      <4>1. card' = card
        BY <2>1, <3>1 DEF SendNow
      <4> QED
        BY <2>3, <2>5, <3>1, <4>1 DEF Synced
    <3>2. CASE Area(a) # {}
      <4>1. card' = SendRect(card, new, a, 1)
        BY <2>1, <2>4, <3>2 DEF SendNow
      <4>2. Area(a) \subseteq Pixels
        BY DEF Area
      <4>3. \A p \in Pixels : p \in Area(a) \/ Synced(card, new, p)
        BY <2>3, <2>5 DEF Synced
      <4>4. \A p \in Area(a) : new[p] = c
        BY <2>5, <4>2
      <4>5. \A p \in Pixels : (p \in Area(a) \/ Synced(card, new, p))
                => Synced(SendRect(card, new, a, 1), new, p)
        BY <1>1, <2>3, <3>2, <4>4, SolidShows
      <4> QED
        BY <4>1, <4>3, <4>5
    <3> QED
      BY <3>1, <3>2
  <2> QED
    BY <2>1, <2>3, <2>6, <2>7, Landed
<1> QED
  BY <1>2, <1>3

(* What leaves the card alone, and of the shown buffer at most reads.      *)
LEMMA UnseenRead ==
  ASSUME Sides, ShownInv, locks = << >>, locks' = locks,
         UNCHANGED <<card, front, page, page1>>, want'[front] = want[front],
         buf'[front] = buf[front] \/ buf'[front] = ReadyAll(buf[front]), ~StrayTriangles,
         lapse => lapse'
  PROVE  ShownInv'
<1>1. Exempt' = Exempt
  BY DEF Exempt, Locked
<1>2. CASE buf'[front] = buf[front]
  BY <1>2, Unseen
<1>3. CASE buf'[front] = ReadyAll(buf[front])
  BY <1>1, <1>3, UnseenReady
<1> QED
  BY <1>2, <1>3

(* Copies from memory or from the other buffer.                            *)
LEMMA ShownCopyOne ==
  ASSUME Sides, ShownInv, locks = << >>, ~StrayTriangles,
         NEW k \in Buffers, NEW a \in Boxes, NEW keyed \in BOOLEAN, NEW s, NEW src, NEW m,
         \/ s = -1 /\ src \in [Pixels -> Colours]
         \/ s \in Buffers /\ s # k,
         \A p \in Area(a) : Shift(p, m) \in Pixels,
         IF k = front THEN CopyShown(k, a, s, src, m, keyed)
                      ELSE CopyHidden(k, a, s, src, m, keyed),
         want' = [want EXCEPT ![k] = Taken(@, IF s = -1 THEN src ELSE want[s], a, m, keyed)]
  PROVE  ShownInv'
<1> DEFINE b == buf[k]
           from == IF s = -1 THEN src ELSE ReadyAll(buf[s]).ram
           given == IF s = -1 THEN src ELSE want[s]
           img == Taken(want[k], given, a, m, keyed)
<1>1. /\ k \in 0 .. 1 /\ Sound(b) /\ want \in [0 .. 1 -> [Pixels -> Colours]] /\ a \in Rect
      /\ front \in 0 .. 1 /\ CardInv
  BY BufferIndex, BoxFacts DEF Sides, BufInv
<1>2. from = given /\ given \in [Pixels -> Colours]
  <2>1. CASE s = -1
    BY <2>1, BufferIndex
  <2>2. CASE s # -1
    <3>1. s \in 0 .. 1 /\ s \in Buffers
      BY <2>2, BufferIndex
    <3>2. Sound(buf[s]) /\ want[s] \in [Pixels -> Colours]
      BY <3>1 DEF Sides, BufInv
    <3>3. ReadyAll(buf[s]).ram = Meaning(buf[s])
      BY <3>2, ReadyAllFacts DEF Sound
    <3> QED
      BY <2>2, <3>1, <3>2, <3>3 DEF Sides, Stand
  <2> QED
    BY <2>1, <2>2
<1>3. want' = [want EXCEPT ![k] = img] /\ img \in [Pixels -> Colours]
      /\ \A p \in Pixels : img[p] = IF p \in Area(a) /\ ~(keyed /\ given[Shift(p, m)] = Key)
                                    THEN given[Shift(p, m)] ELSE want[k][p]
  BY <1>1, <1>2, TakenFacts
<1>4. UNCHANGED <<locks, front, page, page1>> /\ (lapse => lapse')
  BY DEF CopyShown, CopyHidden, OnShown, OnHidden, progVars, pageVars
<1> HIDE DEF from, given, img
<1>5. CASE k # front
  <2>1. OnHidden([j \in 0 .. 1 |->
          IF j = k THEN Dirty([Ready(TrisToRam(buf[k]), Area(a)) EXCEPT
                                 !.ram = Taken(@, from, a, m, keyed)], a)
          ELSE IF j = s THEN ReadyAll(buf[j]) ELSE buf[j]])
    BY <1>5 DEF CopyHidden, from
  <2>2. buf'[front] = buf[front] \/ buf'[front] = ReadyAll(buf[front])
    BY <1>1, <1>5, <2>1 DEF OnHidden
  <2>3. UNCHANGED card /\ want'[front] = want[front]
    BY <1>1, <1>3, <1>5, <2>1 DEF OnHidden, cardVars
  <2> QED
    BY <1>4, <2>2, <2>3, UnseenRead
<1>6. CASE k = front
  <2> DEFINE own == Unknown(ReadyAll(b))
             new == Taken(own.ram, from, a, m, keyed)
             B == [j \in 0 .. 1 |-> IF j = k THEN [own EXCEPT !.ram = new]
                                    ELSE IF j = s THEN ReadyAll(buf[j]) ELSE buf[j]]
  <2>1. /\ OnShown(B) /\ IF keyed THEN SendNow(B, a, 0) ELSE SendDiff(B, own.ram, new)
    BY <1>6 DEF CopyShown, from
  <2>2. page' = page /\ front' = front /\ lapse' = (lapse \/ Behind)
    BY <2>1 DEF OnShown, pageVars
  <2>3. SUFFICES ASSUME ~lapse' PROVE ShownInv'
    BY DEF ShownInv
  <2>4. /\ sel = front /\ page = 0 /\ AllHonest(card) /\ want[front] = Meaning(b)
        /\ \A p \in Pixels : Synced(card, want[front], p)
    BY <1>6, <2>2, <2>3, Upright
  <2>5. Fits(own) /\ own.ram = want[front]
    BY <1>1, <2>4, DirectFacts DEF Sound
  <2>6. new = img
    BY <1>2, <1>6, <2>5 DEF img
  <2>7. B[k] = [own EXCEPT !.ram = new]
    BY <1>1
  <2> HIDE DEF own, new, B
  <2>8. B[sel].ram = img
    BY <1>6, <2>4, <2>5, <2>6, <2>7 DEF Fits, BufType
  <2>9. \A p \in Pixels : Synced(card', img, p)
    <3>1. CASE keyed
      <4>1. SendNow(B, a, 0)
        BY <2>1, <3>1
      <4>2. \A p \in Pixels \ Area(a) : Synced(card, img, p)
        BY <1>3, <1>6, <2>4 DEF Synced
      <4> QED
        BY <1>1, <2>4, <2>8, <4>1, <4>2, SentNow
    <3>2. CASE ~keyed
      <4>1. SendDiff(B, want[front], img)
        BY <2>1, <2>5, <2>6, <3>2
      <4> QED
        BY <1>1, <2>4, <2>8, <4>1, DiffShows
    <3> QED
      BY <3>1, <3>2
  <2>10. want'[front'] = img
    BY <1>1, <1>3, <1>6, <2>2
  <2> QED
    BY <2>2, <2>4, <2>9, <2>10, Landed
<1> QED
  BY <1>5, <1>6

(* All of them.                                                            *)
LEMMA ShownCopy ==
  ASSUME Sides, ShownInv, ~StrayTriangles, BltCopy
  PROVE  ShownInv'
<1> DEFINE Copy(k, a, keyed, s, src, m) ==
             /\ IF k = front THEN CopyShown(k, a, s, src, m, keyed)
                             ELSE CopyHidden(k, a, s, src, m, keyed)
             /\ want' = [want EXCEPT ![k] =
                           Taken(@, IF s = -1 THEN src ELSE want[s], a, m, keyed)]
<1>1. PICK k \in Buffers, a \in Boxes, keyed \in BOOLEAN :
        \/ \E src \in Pictures : Copy(k, a, keyed, -1, src, <<0, 0>>)
        \/ /\ 1 - k \in Buffers
           /\ \E m \in Moves : Inside(Shifted(a, m), Screen) /\ Copy(k, a, keyed, 1 - k, << >>, m)
  BY DEF BltCopy
<1>2. locks = << >> /\ a \in Rect
  BY BoxFacts DEF BltCopy
<1>3. ASSUME NEW src \in Pictures, Copy(k, a, keyed, -1, src, <<0, 0>>)
      PROVE  ShownInv'
  <2> DEFINE m == <<0, 0>>
             s == -1
  <2>1. ASSUME NEW p \in Area(a) PROVE Shift(p, m) \in Pixels
    <3>1. p \in Pixels /\ p[1] \in Int /\ p[2] \in Int /\ p = <<p[1], p[2]>>
      BY GeometryAssumption DEF Area, Pixels
    <3>2. Shift(p, m) = <<p[1] + 0, p[2] + 0>>
      BY DEF Shift
    <3> QED
      BY <3>1, <3>2
  <2>2. src \in [Pixels -> Colours] /\ s = -1 /\ Copy(k, a, keyed, s, src, m)
    BY <1>3, BoxFacts
  <2> HIDE DEF m, s
  <2> QED
    BY <1>2, <2>1, <2>2, ShownCopyOne
<1>4. ASSUME 1 - k \in Buffers, NEW m \in Moves, Inside(Shifted(a, m), Screen),
             Copy(k, a, keyed, 1 - k, << >>, m)
      PROVE  ShownInv'
  <2> DEFINE s == 1 - k
             src == << >>
  <2>1. s \in Buffers /\ s # k /\ Copy(k, a, keyed, s, src, m)
    BY <1>4, BufferIndex
  <2>2. \A p \in Area(a) : Shift(p, m) \in Pixels
    BY <1>2, <1>4, BoxFacts, ShiftFacts
  <2> HIDE DEF s, src
  <2> QED
    BY <1>2, <2>1, <2>2, ShownCopyOne
<1> HIDE DEF Copy
<1> QED
  BY <1>1, <1>3, <1>4

(* A buffer copied to itself.                                              *)
LEMMA ShownSelf ==
  ASSUME Sides, ShownInv, BltSelf
  PROVE  ShownInv'
<1>1. locks = << >>
  BY DEF BltSelf
<1>2. PICK k \in Buffers, a \in Boxes, m \in Moves :
        /\ Inside(Shifted(a, m), Screen)
        /\ IF k = front
           THEN LET own == Unknown(ReadyAll(buf[k]))
                    B   == [buf EXCEPT ![k] = [own EXCEPT !.ram = Taken(@, @, a, m, FALSE)]]
                IN  OnShown(B) /\ CopyNow(B, a, m)
           ELSE LET own == Ready(Ready(TrisToRam(buf[k]), Area(a)), Area(Shifted(a, m)))
                IN  OnHidden([buf EXCEPT ![k] =
                                Dirty([own EXCEPT !.ram = Taken(@, @, a, m, FALSE)], a)])
        /\ want' = [want EXCEPT ![k] = Taken(@, @, a, m, FALSE)]
  BY DEF BltSelf
<1> DEFINE b == buf[k]
           img == Taken(want[k], want[k], a, m, FALSE)
<1>3. /\ k \in 0 .. 1 /\ Sound(b) /\ want \in [0 .. 1 -> [Pixels -> Colours]] /\ a \in Rect
      /\ m \in Int \X Int /\ buf \in [0 .. 1 -> BufType] /\ front \in 0 .. 1 /\ CardInv
  BY BufferIndex, BoxFacts DEF Sides, BufInv
<1>4. want' = [want EXCEPT ![k] = img]
  BY <1>2
<1> HIDE DEF img
<1>5. CASE k # front
  <2>1. OnHidden([buf EXCEPT ![k] =
          Dirty([Ready(Ready(TrisToRam(buf[k]), Area(a)), Area(Shifted(a, m))) EXCEPT
                   !.ram = Taken(@, @, a, m, FALSE)], a)])
    BY <1>2, <1>5
  <2>2. /\ UNCHANGED <<card, front, page, page1, locks, lapse>> /\ buf'[front] = buf[front]
        /\ want'[front] = want[front]
    BY <1>3, <1>4, <1>5, <2>1 DEF OnHidden, cardVars, pageVars, progVars
  <2> QED
    BY <2>2, Unseen
<1>6. CASE k = front
  <2> DEFINE own == Unknown(ReadyAll(b))
             new == Taken(own.ram, own.ram, a, m, FALSE)
             B == [buf EXCEPT ![k] = [own EXCEPT !.ram = new]]
  <2>1. OnShown(B) /\ CopyNow(B, a, m)
    BY <1>2, <1>6
  <2>2. page' = page /\ front' = front /\ lapse' = (lapse \/ Behind)
    BY <2>1 DEF OnShown, pageVars
  <2>3. SUFFICES ASSUME ~lapse' PROVE ShownInv'
    BY DEF ShownInv
  <2>4. /\ sel = front /\ page = 0 /\ AllHonest(card) /\ want[front] = Meaning(b)
        /\ \A p \in Pixels : Synced(card, want[front], p)
    BY <1>1, <1>6, <2>2, <2>3, Upright
  <2>5. Fits(own) /\ own.ram = want[front]
    BY <1>3, <2>4, DirectFacts DEF Sound
  <2>6. new = img
    BY <1>6, <2>5 DEF img
  <2>7. B[k] = [own EXCEPT !.ram = new]
    BY <1>3
  <2> HIDE DEF own, new, B
  <2>8. B[sel].ram = img
    BY <1>6, <2>4, <2>5, <2>6, <2>7 DEF Fits, BufType
  <2>9. \A p \in Pixels : Synced(card', img, p)
    <3>1. img = Taken(want[front], want[front], a, m, FALSE) /\ want[front] \in [Pixels -> Colours]
      BY <1>3, <1>6 DEF img
    <3> QED
      BY <1>2, <1>3, <2>1, <2>4, <2>8, <3>1, CopyShows
  <2>10. want'[front'] = img
    BY <1>3, <1>4, <1>6, <2>2
  <2> QED
    BY <2>2, <2>4, <2>9, <2>10, Landed
<1> QED
  BY <1>5, <1>6

(* What is left to DDRAW.                                                  *)
LEMMA ShownOwn ==
  ASSUME Sides, ShownInv, ~StrayTriangles,
         NEW k \in Buffers, NEW s \in Buffers, NEW a \in Boxes, NEW c \in Colours,
         BltOwn(k, s, a, c)
  PROVE  ShownInv'
<1> DEFINE R == [j \in 0 .. 1 |-> IF j \in {k, s} THEN ReadyAll(buf[j]) ELSE buf[j]]
           B == [R EXCEPT ![k] = Paint(Unknown(@), Area(a), c)]
<1>1. /\ locks = << >> /\ want' = [want EXCEPT ![k] = Over(@, Area(a), c)]
      /\ IF k = front THEN lapse' = TRUE ELSE OnHidden(B)
  BY DEF BltOwn
<1>2. k \in 0 .. 1 /\ front \in 0 .. 1 /\ want \in [0 .. 1 -> [Pixels -> Colours]]
  BY BufferIndex DEF Sides, BufInv
<1>3. CASE k = front
  BY <1>1, <1>3 DEF ShownInv
<1>4. CASE k # front
  <2>1. B[front] = buf[front] \/ B[front] = ReadyAll(buf[front])
    BY <1>2, <1>4
  <2>2. want'[front] = want[front]
    BY <1>1, <1>2, <1>4
  <2> HIDE DEF B, R
  <2>3. UNCHANGED <<card, front, page, page1, locks, lapse>> /\ buf' = B
    BY <1>1, <1>4 DEF OnHidden, cardVars, pageVars, progVars
  <2> QED
    BY <1>1, <2>1, <2>2, <2>3, UnseenRead
<1> QED
  BY <1>3, <1>4

-----------------------------------------------------------------------------
(* The program's one lock.                                                 *)

(* It is the first of the list.                                            *)
LEMMA OneLock ==
  ASSUME BufInv, LockInv
  PROVE  /\ locks \in Seq(LockType) /\ \A i \in DOMAIN locks : i = 1 /\ RemoveAt(locks, i) = << >>
         /\ Locked => /\ 1 \in DOMAIN locks /\ locks[1].write /\ locks[1].k = front
                      /\ locks[1].r \in Rect
<1>1. /\ locks \in Seq(LockType)
      /\ Len(locks) <= 1 /\ Len(locks) \in Nat /\ DOMAIN locks = 1 .. Len(locks)
  BY DEF BufInv, LockInv
<1>2. ASSUME NEW i \in DOMAIN locks PROVE i = 1 /\ RemoveAt(locks, i) = << >>
  <2>1. i = 1 /\ Len(locks) = 1
    BY <1>1
  <2>2. DOMAIN RemoveAt(locks, i) = 1 .. Len(locks) - 1 /\ RemoveAt(locks, i) \in Seq(LockType)
    BY <1>1, Removed, LockSeq
  <2>3. RemoveAt(locks, i) = << >>
    BY <2>1, <2>2
  <2> QED
    BY <2>1, <2>3
<1>3. ASSUME Locked
      PROVE  /\ 1 \in DOMAIN locks /\ locks[1].write /\ locks[1].k = front
             /\ locks[1].r \in Rect
  <2>1. PICK i \in DOMAIN locks : locks[i].write /\ locks[i].k = front
    BY <1>3 DEF Locked
  <2>2. i = 1
    BY <1>2
  <2>3. locks[1].r \in LockBoxes
    <3>1. locks[i] \in LockType
      BY <1>1
    <3> QED
      BY <2>2, <3>1 DEF LockType
  <2>4. locks[1].r \in Rect
    BY <2>3, BoxFacts
  <2>5. 1 \in DOMAIN locks /\ locks[1].write /\ locks[1].k = front
    BY <2>1, <2>2
  <2> QED
    BY <2>4, <2>5
<1> QED
  BY <1>1, <1>2, <1>3

(* What each step does to the locks.                                       *)
LEMMA LockMoves ==
  ASSUME [Next]_vars
  PROVE  \/ Lock \/ Unlock
         \/ UNCHANGED <<held, locks, front>>
         \/ locks = << >> /\ UNCHANGED <<held, locks>>
<1>0. /\ \A B : OnShown(B) \/ OnHidden(B) => UNCHANGED <<held, locks, front>>
  BY DEF OnShown, OnHidden, progVars
<1>1. CASE \E k \in Buffers, a \in Boxes, c \in Colours : BltFill(k, a, c)
  BY <1>0, <1>1 DEF BltFill, FillShown, FillHidden
<1>2. CASE BltCopy
  <2>1. \A k, a, s, src, m, keyed :
          CopyShown(k, a, s, src, m, keyed) \/ CopyHidden(k, a, s, src, m, keyed)
            => UNCHANGED <<held, locks, front>>
    BY <1>0 DEF CopyShown, CopyHidden
  <2> QED
    BY <1>2, <2>1 DEF BltCopy
<1>3. CASE BltSelf
  BY <1>0, <1>3 DEF BltSelf
<1>4. CASE Record
  BY <1>0, <1>4 DEF Record, Triangle, RecordShown, RecordHidden, progVars
<1>5. CASE \E k, s \in Buffers, a \in Boxes, c \in Colours : BltOwn(k, s, a, c)
  BY <1>0, <1>5 DEF BltOwn, progVars
<1>6. CASE WriteLocked \/ ContextCreate \/ ContextEnd \/ Gdi \/ UNCHANGED vars
  BY <1>6 DEF WriteLocked, ContextCreate, ContextEnd, Gdi, vars, progVars
<1>7. CASE Flip \/ Create16 \/ Destroy16
  BY <1>7 DEF Flip, Create16, Destroy16, progVars
<1> QED
  BY <1>1, <1>2, <1>3, <1>4, <1>5, <1>6, <1>7 DEF Next

(* The first lock is taken.                                                *)
LEMMA LockTaken ==
  ASSUME Alone, BufInv, BookInv, HeldInv, NEW k \in Buffers, NEW r \in LockBoxes,
         NEW write \in BOOLEAN, Len(locks) < MaxLocks, front' = front,
         locks' = Append(locks, [k |-> k, r |-> r, write |-> write])
  PROVE  /\ locks = << >> /\ Kept(held) = {} /\ Free = 1 .. HeldMax /\ Min(Free) = 1
         /\ Len(locks') = 1 /\ locks'[1].r = r
         /\ Locked' <=> write /\ k = front
<1> DEFINE e == [k |-> k, r |-> r, write |-> write]
<1>1. locks = << >>
  <2>1. locks \in Seq(LockType) /\ MaxLocks \in Nat
    BY BufferAssumption DEF BufInv
  <2> QED
    BY <2>1 DEF Alone
<1>2. Kept(held) = {}
  BY <1>1, HeldNone
<1>3. Free = 1 .. HeldMax
  BY <1>2 DEF Free, Kept
<1>4. Min(Free) = 1
  <2>1. 1 \in Free /\ \A y \in Free : 1 <= y
    BY <1>3, BufferAssumption
  <2>2. \A x \in Free : (\A y \in Free : x <= y) => x = 1
    BY <1>3, <2>1
  <2> QED
    BY <2>1, <2>2 DEF Min
<1>5. e.r = r /\ e.k = k /\ e.write = write
  OBVIOUS
<1> HIDE DEF e
<1>6. locks' = <<e>>
  BY <1>1 DEF e
<1>7. Len(locks') = 1 /\ locks'[1] = e /\ DOMAIN locks' = {1}
  <2>1. DOMAIN <<e>> = 1 .. 1 /\ <<e>>[1] = e /\ Len(<<e>>) = 1
    OBVIOUS
  <2>2. 1 .. 1 = {1}
    OBVIOUS
  <2> QED
    BY <1>6, <2>1, <2>2
<1>8. Locked' <=> write /\ k = front
  <2>1. Locked' <=> e.write /\ e.k = front
    BY <1>7 DEF Locked
  <2> QED
    BY ONLY <1>5, <2>1, Zenon
<1> QED
  BY <1>1, <1>2, <1>3, <1>4, <1>5, <1>7, <1>8

(* A rectangle is not what stands for none.                                *)
LEMMA RectNotNo == \A r \in Rect : r # NoRect
<1>1. \A r \in Rect : DOMAIN r = {"l", "t", "r", "b"}
  BY DEF Rect
<1>2. DOMAIN NoRect = {}
  BY DEF NoRect
<1>3. "l" \in {"l", "t", "r", "b"}
  OBVIOUS
<1>4. ASSUME NEW r \in Rect PROVE r # NoRect
  <2>1. DOMAIN r = {"l", "t", "r", "b"}
    BY <1>1
  <2>2. DOMAIN r # DOMAIN NoRect
    BY <1>2, <1>3, <2>1
  <2> QED
    BY <2>2
<1> QED
  BY <1>4

(* What is held stays the rectangle of the one lock.                       *)
LEMMA LockStep ==
  ASSUME Alone, BufInv, BookInv, HeldInv, LockInv, [Next]_vars
  PROVE  LockInv'
<1>1. CASE UNCHANGED <<held, locks, front>>
  BY <1>1 DEF LockInv, Locked, Kept
<1>2. CASE locks = << >> /\ UNCHANGED <<held, locks>>
  <2>1. Kept(held) = {}
    BY <1>2, HeldNone
  <2>2. ~Locked' /\ Kept(held)' = {} /\ Len(locks') <= 1
    BY <1>2, <2>1 DEF Locked, Kept
  <2> QED
    BY <2>2 DEF LockInv
<1>3. CASE Lock
  <2>1. PICK k \in Buffers, r \in LockBoxes, write \in BOOLEAN :
          /\ locks' = Append(locks, [k |-> k, r |-> r, write |-> write])
          /\ IF write /\ k = front THEN Hold(r) ELSE UNCHANGED held
    BY <1>3 DEF Lock
  <2>2. front' = front /\ Len(locks) < MaxLocks
    BY <1>3 DEF Lock
  <2>3. /\ Kept(held) = {} /\ Free = 1 .. HeldMax /\ Min(Free) = 1
        /\ Len(locks') = 1 /\ locks'[1].r = r
        /\ Locked' <=> write /\ k = front
    BY <2>1, <2>2, LockTaken
  <2>4. CASE write /\ k = front
    <3>1. held' = [held EXCEPT ![1] = r]
      <4>1. Free # {}
        BY <2>3, BufferAssumption
      <4> QED
        BY <2>1, <2>3, <2>4, <4>1 DEF Hold
    <3>2. r # NoRect
      BY BoxFacts, RectNotNo
    <3>3. DOMAIN held = 1 .. HeldMax /\ 1 \in 1 .. HeldMax
      BY BufferAssumption DEF BookInv, BookTypes
    <3>4. Kept(held') = {1} /\ held'[1] = r
      BY <2>3, <3>1, <3>2, <3>3 DEF Kept
    <3> QED
      BY <2>3, <2>4, <3>4 DEF LockInv, Kept
  <2>5. CASE ~(write /\ k = front)
    <3>1. held' = held
      BY <2>1, <2>5
    <3> QED
      BY <2>3, <2>5, <3>1 DEF LockInv, Kept
  <2> QED
    BY <2>4, <2>5
<1>4. CASE Unlock
  <2>1. PICK i \in DOMAIN locks :
          LET Mine == IF locks[i].k = front THEN 1 .. HeldMax \ Free ELSE {}
          IN  /\ locks' = RemoveAt(locks, i)
              /\ IF Mine # {} THEN held' = [held EXCEPT ![Min(Mine)] = NoRect] ELSE UNCHANGED held
    BY <1>4 DEF Unlock
  <2>2. locks' = << >> /\ i = 1
    BY <2>1, OneLock
  <2>3. ~Locked'
    BY <2>2 DEF Locked
  <2>4. 1 .. HeldMax \ Free = Kept(held)
    BY DEF Free, Kept
  <2>5. CASE Locked
    <3>1. Kept(held) = {1} /\ locks[i].k = front
      BY <2>2, <2>5, OneLock DEF LockInv
    <3>2. Min({1}) = 1
      BY DEF Min
    <3>3. held' = [held EXCEPT ![1] = NoRect]
      BY <2>1, <2>4, <3>1, <3>2
    <3>4. DOMAIN held = 1 .. HeldMax /\ 1 \in 1 .. HeldMax
      BY BufferAssumption DEF BookInv, BookTypes
    <3>5. Kept(held') = {}
      BY <3>1, <3>3, <3>4 DEF Kept
    <3> QED
      BY <2>2, <2>3, <3>5 DEF LockInv, Kept
  <2>6. CASE ~Locked
    <3>1. Kept(held) = {}
      BY <2>6 DEF LockInv
    <3>2. held' = held
      BY <2>1, <2>4, <3>1
    <3> QED
      BY <2>2, <2>3, <3>1, <3>2 DEF LockInv, Kept
  <2> QED
    BY <2>5, <2>6
<1> QED
  BY <1>1, <1>2, <1>3, <1>4, LockMoves

(* A lock of the shown buffer changes nothing on the screen.               *)
LEMMA ShownLock ==
  ASSUME Alone, Sides, LockInv, ShownInv, ~StrayTriangles, Lock
  PROVE  ShownInv'
<1>1. PICK k \in Buffers, r \in LockBoxes, write \in BOOLEAN :
        /\ locks' = Append(locks, [k |-> k, r |-> r, write |-> write])
        /\ buf' = [buf EXCEPT ![k] = IF write THEN Unknown(ReadyAll(@)) ELSE ReadyAll(@)]
        /\ IF write /\ k = front THEN lapse' = (lapse \/ Strayed(buf[k])) ELSE lapse' = lapse
  BY DEF Lock
<1>2. UNCHANGED <<card, front, page, page1, want>> /\ Len(locks) < MaxLocks
  BY DEF Lock, cardVars, pageVars
<1>3. locks = << >> /\ (Locked' <=> write /\ k = front)
  BY <1>1, <1>2, LockTaken DEF Sides
<1>4. k \in 0 .. 1 /\ front \in 0 .. 1 /\ buf \in [0 .. 1 -> BufType]
  BY BufferIndex DEF Sides, BufInv
<1>5. Exempt = {} /\ Screened' = Screened
  BY <1>2, <1>3 DEF Exempt, Locked, Screened
<1>6. CASE write /\ k = front
  <2>1. SUFFICES ASSUME ~lapse' PROVE \A p \in Pixels : ShownAt(p)'
    BY DEF ShownInv
  <2>2. ~lapse /\ ~Strayed(buf[front])
    BY <1>1, <1>6, <2>1
  <2> DEFINE other == Stands(buf[front], FALSE)
  <2>3. other = want[front]
    <3>1. want[front] = Meaning(buf[front])
      BY DEF Sides, Stand, BufInv
    <3> QED
      BY <2>2, <3>1 DEF Strayed
  <2>4. \A p \in Pixels : ShownAt(p)
    BY <1>5, <2>2 DEF ShownInv
  <2>5. \A p \in Pixels : Screened[p] = Shown(p, want[front][p]) \/ Screened[p] = Shown(p, other[p])
    BY <2>4 DEF ShownAt
  <2> HIDE DEF other
  <2>6. \A p \in Pixels : Screened[p] = Shown(p, want[front][p])
    BY <2>3, <2>5
  <2>7. \A p \in Pixels : Screened'[p] = Shown(p, want'[front'][p])
    BY <1>2, <1>5, <2>6
  <2> QED
    BY <2>7 DEF ShownAt
<1>7. CASE ~(write /\ k = front)
  <2>1. Exempt' = Exempt /\ lapse' = lapse /\ locks = << >>
    BY <1>1, <1>3, <1>5, <1>7 DEF Exempt
  <2>2. want'[front] = want[front]
    BY <1>2
  <2>3. CASE k = front
    <3>1. buf'[front] = ReadyAll(buf[front])
      BY <1>1, <1>4, <1>7, <2>3
    <3> QED
      BY <1>2, <2>1, <2>2, <3>1, UnseenReady
  <2>4. CASE k # front
    <3>1. buf'[front'] = buf[front]
      BY <1>1, <1>2, <1>4, <2>4
    <3> QED
      BY <1>2, <1>5, <2>1, <3>1 DEF ShownInv, ShownAt
  <2> QED
    BY <2>3, <2>4
<1> QED
  BY <1>6, <1>7

(* What the program writes under its lock stays within its rectangle.      *)
LEMMA ShownWrite ==
  ASSUME Sides, LockInv, ShownInv, WriteLocked
  PROVE  ShownInv'
<1>1. PICK i \in DOMAIN locks, c \in Colours :
        /\ locks[i].write
        /\ buf' = [buf EXCEPT ![locks[i].k] = Paint(@, Area(locks[i].r), c)]
        /\ want' = [want EXCEPT ![locks[i].k] = Over(@, Area(locks[i].r), c)]
  BY DEF WriteLocked
<1>2. UNCHANGED <<card, front, page, page1, locks, lapse>>
  BY DEF WriteLocked, cardVars, pageVars, progVars
<1>3. i = 1
  BY <1>1, OneLock DEF Sides
<1> DEFINE k == locks[1].k
<1>4. /\ k \in 0 .. 1 /\ front \in 0 .. 1 /\ buf \in [0 .. 1 -> BufType] /\ buf[k].known = FALSE
      /\ want \in [0 .. 1 -> [Pixels -> Colours]]
  BY <1>1, <1>3, BufferIndex DEF Sides, BufInv
<1>5. CASE k # front
  <2>1. buf'[front] = buf[front] /\ want'[front] = want[front]
    BY <1>1, <1>3, <1>4, <1>5
  <2> QED
    BY <1>2, <2>1, Unseen
<1>6. CASE k = front
  <2>1. Exempt = Area(locks[1].r) /\ Exempt' = Exempt /\ Screened' = Screened
    BY <1>1, <1>2, <1>3, <1>6 DEF Exempt, Locked, Screened
  <2>2. \A p \in Pixels \ Exempt : want'[front'][p] = want[front][p]
    <3>1. want'[front'] = Over(want[front], Area(locks[1].r), c)
      BY <1>1, <1>2, <1>3, <1>4, <1>6
    <3> QED
      BY <2>1, <3>1 DEF Over
  <2> DEFINE other == Stands(buf[front], FALSE)
  <2>3. other = want[front]
    <3>1. want[front] = Meaning(buf[front])
      BY DEF Sides, Stand, BufInv
    <3> QED
      BY <1>4, <1>6, <3>1, StandsFacts
  <2>4. SUFFICES ASSUME ~lapse, NEW p \in Pixels \ Exempt PROVE ShownAt(p)'
    BY <1>2, <2>1 DEF ShownInv
  <2>5. Screened[p] = Shown(p, want[front][p]) \/ Screened[p] = Shown(p, other[p])
    BY <2>4 DEF ShownInv, ShownAt
  <2> HIDE DEF other
  <2>6. Screened[p] = Shown(p, want[front][p])
    BY <2>3, <2>5
  <2>7. Screened'[p] = Shown(p, want'[front'][p])
    BY <2>1, <2>2, <2>6
  <2> QED
    BY <2>7 DEF ShownAt
<1> QED
  BY <1>5, <1>6

(* Unlock sends the rectangle that was held back.                          *)
LEMMA ShownUnlock ==
  ASSUME Sides, LockInv, ShownInv, Unlock
  PROVE  ShownInv'
<1>1. PICK i \in DOMAIN locks :
        LET Mine == IF locks[i].k = front THEN 1 .. HeldMax \ Free ELSE {}
        IN  /\ locks' = RemoveAt(locks, i)
            /\ IF Mine # {} THEN /\ SendNow(buf, held[Min(Mine)], 0)
                                 /\ lapse' = (lapse \/ Behind)
                            ELSE UNCHANGED <<card, lapse>>
  BY DEF Unlock
<1>2. UNCHANGED <<buf, front, page, page1, want>>
  BY DEF Unlock, pageVars
<1>3. locks' = << >> /\ i = 1
  BY <1>1, OneLock DEF Sides
<1>4. 1 .. HeldMax \ Free = Kept(held) /\ Exempt' = {}
  BY <1>3 DEF Free, Kept, Exempt, Locked
<1>5. CASE ~Locked
  <2>1. Kept(held) = {} /\ Exempt = {}
    BY <1>5 DEF LockInv, Exempt
  <2>2. UNCHANGED <<card, lapse>>
    BY <1>1, <1>4, <2>1
  <2>3. Screened' = Screened
    BY <1>2, <2>2 DEF Screened
  <2> QED
    BY <1>2, <1>4, <2>1, <2>2, <2>3 DEF ShownInv, ShownAt
<1>6. CASE Locked
  <2>1. /\ Kept(held) = {1} /\ held[1] = locks[1].r /\ locks[1].k = front /\ locks[1].write
        /\ locks[1].r \in Rect /\ 1 \in DOMAIN locks
    BY <1>6, OneLock DEF LockInv, Sides
  <2>2. Min({1}) = 1
    BY DEF Min
  <2>3. SendNow(buf, locks[1].r, 0) /\ lapse' = (lapse \/ Behind)
    BY <1>1, <1>3, <1>4, <2>1, <2>2
  <2>4. SUFFICES ASSUME ~lapse' PROVE ShownInv'
    BY DEF ShownInv
  <2>5. sel = front /\ page = 0 /\ AllHonest(card) /\ CardInv
    <3>1. page \in 0 .. 1
      BY DEF Sides, BookInv, BookTypes
    <3>b. ~Behind
      BY <2>3, <2>4
    <3>2. sel = front /\ page = 0 /\ ~fpStale
      BY <3>b, <3>1 DEF Behind
    <3>3. AllHonest(card)
      BY <3>2 DEF Sides, FpInv, FpMarked
    <3>4. CardInv
      BY DEF Sides
    <3> QED
      BY <3>2, <3>3, <3>4
  <2>6. front \in 0 .. 1 /\ Sound(buf[front]) /\ buf[front].known = FALSE /\ buf[front].tris = << >>
        /\ want[front] = Meaning(buf[front])
    BY <2>1, BufferIndex DEF Sides, BufInv, Stand
  <2> DEFINE b == buf[front]
             other == Stands(b, FALSE)
  <2>7. b \in BufType
    BY <2>6 DEF Sound, Fits
  <2>8. buf[sel].ram = want[front]
    <3>1. Meaning(b) = Base(b)
      BY <2>6, MeaningPlain
    <3>2. \A p \in Pixels : Base(b)[p] = b.ram[p]
      BY <2>6 DEF Base
    <3>3. b.ram \in [Pixels -> Colours] /\ Base(b) \in [Pixels -> Colours]
      BY <2>7, BaseType DEF BufType
    <3>4. b.ram = Base(b)
      BY <3>2, <3>3
    <3> QED
      BY <2>5, <2>6, <3>1, <3>4
  <2>9. other = want[front]
    BY <2>6, <2>7, StandsFacts
  <2>10. Exempt = Area(locks[1].r)
    BY <1>6 DEF Exempt
  <2>11. \A p \in Pixels \ Area(locks[1].r) :
           Screened[p] = Shown(p, want[front][p]) \/ Screened[p] = Shown(p, other[p])
    BY <2>3, <2>4, <2>10 DEF ShownInv, ShownAt
  <2> HIDE DEF b, other
  <2>12. \A p \in Pixels \ Area(locks[1].r) : Synced(card, want[front], p)
    BY <2>5, <2>9, <2>11 DEF Screened, Synced
  <2>13. \A p \in Pixels : Synced(card', want[front], p)
    BY <2>1, <2>3, <2>5, <2>8, <2>12, SentNow
  <2> QED
    BY <1>2, <2>5, <2>13, Landed
<1> QED
  BY <1>5, <1>6

-----------------------------------------------------------------------------
(* Triangles, GDI, and the pair given up.                                  *)

(* A buffer without a description is its RAM.                              *)
LEMMA RamMeans ==
  ASSUME NEW b, Sound(b), b.known = FALSE
  PROVE  b.tris = << >> /\ b.ram = Meaning(b) /\ Stands(b, FALSE) = Meaning(b)
<1>1. b.tris = << >> /\ b \in BufType
  BY DEF Sound, Fits
<1>2. Meaning(b) = Base(b)
  BY <1>1, MeaningPlain
<1>3. \A p \in Pixels : Base(b)[p] = b.ram[p]
  BY DEF Base
<1>4. b.ram \in [Pixels -> Colours] /\ Base(b) \in [Pixels -> Colours]
  BY <1>1, BaseType DEF BufType
<1>5. b.ram = Base(b)
  BY <1>3, <1>4
<1> QED
  BY <1>1, <1>2, <1>5, StandsFacts

(* A triangle on a buffer: the shown one is sent whole.                    *)
LEMMA ShownRecord ==
  ASSUME Sides, ShownInv, Record
  PROVE  ShownInv'
<1>1. PICK k \in Buffers, t \in Tris :
        /\ IF k = front THEN RecordShown(k, t) ELSE RecordHidden(k, t)
        /\ want' = [want EXCEPT ![k] = Over(@, t.px, t.c)]
  BY DEF Record, Triangle
<1> DEFINE b == buf[k]
           img == Over(want[k], t.px, t.c)
<1>2. locks = << >> /\ want' = [want EXCEPT ![k] = img]
  BY <1>1 DEF Record, Triangle
<1>3. /\ k \in 0 .. 1 /\ front \in 0 .. 1 /\ Sound(b) /\ want \in [0 .. 1 -> [Pixels -> Colours]]
      /\ buf \in [0 .. 1 -> BufType]
  BY BufferIndex DEF Sides, BufInv
<1> HIDE DEF img
<1>4. CASE k # front
  <2>1. RecordHidden(k, t)
    BY <1>1, <1>4
  <2>2. /\ UNCHANGED <<card, front, page, page1, locks, lapse>> /\ buf'[front] = buf[front]
    BY <1>3, <1>4, <2>1 DEF RecordHidden, OnHidden, cardVars, pageVars, progVars
  <2>3. want'[front] = want[front]
    BY <1>2, <1>3, <1>4
  <2> QED
    BY <2>2, <2>3, Unseen
<1>5. CASE k = front
  <2> DEFINE w == TriRam(b, t)
             B == [buf EXCEPT ![k] = w]
  <2>1. SendNow(B, Screen, 0) /\ lapse' = (lapse \/ Behind \/ b.known)
        /\ page' = page /\ front' = front
    BY <1>1, <1>5 DEF RecordShown, pageVars
  <2>2. SUFFICES ASSUME ~lapse' PROVE ShownInv'
    BY DEF ShownInv
  <2>a. ~lapse /\ ~Behind /\ ~b.known
    BY <2>1, <2>2
  <2>3. b.known = FALSE
    <3>1. b.known \in BOOLEAN
      BY <1>3 DEF BufType
    <3> QED
      BY <2>a, <3>1
  <2>4. sel = front /\ page = 0 /\ AllHonest(card) /\ want[front] = Meaning(b)
    BY <1>2, <1>5, <2>a, Upright
  <2>5. b.tris = << >>
    BY <1>3, <2>3, RamMeans
  <2>6. Sound(w) /\ w.known = FALSE /\ Meaning(w) = img
    <3>1. /\ Sound(w) /\ w.known = b.known
          /\ (\A i \in DOMAIN b.tris : ~Clash(b.tris[i], t)) =>
                Meaning(w) = Over(Meaning(b), t.px, t.c)
      BY <1>3, ShownTriangle
    <3>2. DOMAIN b.tris = {}
      BY <2>5
    <3> QED
      BY <1>5, <2>3, <2>4, <3>1, <3>2 DEF img
  <2>7. B[k] = w
    BY <1>3
  <2> HIDE DEF w, B
  <2>8. B[sel].ram = img
    BY <1>5, <2>4, <2>6, <2>7, RamMeans
  <2>9. \A p \in Pixels : Synced(card', img, p)
    <3>1. Screen \in Rect /\ \A p \in Pixels \ Area(Screen) : Synced(card, img, p)
      BY ScreenFacts
    <3>2. CardInv
      BY DEF Sides
    <3> QED
      BY <2>1, <2>4, <2>8, <3>1, <3>2, SentNow
  <2>10. want'[front'] = img
    BY <1>2, <1>3, <1>5, <2>1
  <2> QED
    BY <2>1, <2>4, <2>9, <2>10, Landed
<1> QED
  BY <1>4, <1>5

(* GDI's drawing: beside the shown buffer, or sent where it is in RAM.     *)
LEMMA ShownGdi ==
  ASSUME Sides, AloneInv, ShownInv, Gdi
  PROVE  ShownInv'
<1>1. PICK a \in GdiBoxes, c \in Colours, polyline \in BOOLEAN :
        LET B == [buf EXCEPT ![0] = Paint(@, Area(a), c)]
        IN  /\ buf' = B
            /\ card' = IF GdiSends(polyline) THEN Flush(card, B[sel].ram, a) ELSE card
            /\ want' = [want EXCEPT ![0] = Meaning(B[0])]
            /\ lapse' = \/ lapse
                        \/ live /\ page = 1
                        \/ live /\ ~Beside(polyline) /\ (Behind \/ buf[front].known)
  BY DEF Gdi
<1>2. page' = 0 /\ UNCHANGED <<front, locks, page1>>
  BY DEF Gdi, progVars
<1>3. SUFFICES ASSUME ~lapse' PROVE ShownInv'
  BY DEF ShownInv
<1> DEFINE b == buf[front]
           w == IF front = 0 THEN Paint(b, Area(a), c) ELSE b
<1>4. /\ front \in 0 .. 1 /\ (~live => front = 0) /\ Sound(b) /\ buf \in [0 .. 1 -> BufType]
      /\ want \in [0 .. 1 -> [Pixels -> Colours]] /\ page \in 0 .. 1 /\ b.known \in BOOLEAN
  <2>1. front \in 0 .. 1 /\ (~live => front = 0)
    BY BufferIndex DEF Sides, BufInv, Buffers
  <2> QED
    BY <2>1 DEF Sides, BufInv, BookInv, BookTypes, BufType, BookFlags
<1>5. ~lapse /\ page = 0 /\ Exempt' = Exempt
  BY <1>1, <1>2, <1>3, <1>4 DEF AloneInv, Exempt, Locked
<1>6. CASE live /\ Beside(polyline)
  <2>1. front = 1 /\ card' = card
    BY <1>1, <1>6 DEF Beside, GdiSends
  <2>2. want'[front] = want[front] /\ buf'[front] = buf[front]
    BY <1>1, <1>4, <2>1
  <2> QED
    BY <1>2, <1>3, <1>5, <2>1, <2>2, Unseen
<1>7. CASE ~(live /\ Beside(polyline))
  <2>1. b.known = FALSE /\ sel = front /\ AllHonest(card) /\ IsCard(card)
    <3>1. IsCard(card) /\ (~live => sel = front)
      <4>1. batch = << >> => sel = front
        BY DEF Sides, CardInv
      <4> QED
        BY <4>1 DEF Sides, CardInv, AloneInv
    <3>2. CASE live
      BY <1>1, <1>3, <1>4, <1>7, <3>1, <3>2 DEF Behind, Sides, FpInv, FpMarked
    <3>3. CASE ~live
      BY <1>4, <3>1, <3>3 DEF AloneInv, Sides, FpInv, FpMarked
    <3> QED
      BY <3>2, <3>3
  <2>2. GdiSends(polyline)
    BY <1>4, <1>7, <2>1 DEF GdiSends, Beside
  <2>3. want[front] = Meaning(b)
    <3>1. front \in Buffers /\ Stand
      BY DEF Sides, BufInv
    <3> QED
      BY <3>1 DEF Stand
  <2>4. b.ram = want[front] /\ Stands(b, FALSE) = want[front] /\ b.tris = << >>
    BY <1>4, <2>1, <2>3, RamMeans
  <2>5. /\ Sound(w) /\ w.known = FALSE
        /\ \A p \in Pixels \ Area(a) : Meaning(w)[p] = want[front][p]
    <3>1. CASE front = 0
      <4>1. Sound(w) /\ w.known = FALSE /\ Meaning(w) = Over(want[front], Area(a), c)
        BY <1>4, <2>1, <2>3, <2>4, <3>1, RamPaint
      <4> QED
        BY <4>1 DEF Over
    <3>2. CASE front # 0
      <4>1. w = b
        BY <3>2
      <4> HIDE DEF w
      <4> QED
        BY <1>4, <2>1, <2>3, <4>1
    <3> QED
      BY <3>1, <3>2
  <2>6. w.ram = Meaning(w)
    BY <2>5, RamMeans
  <2>7. card' = Flush(card, w.ram, a) /\ want'[front] = Meaning(w)
    <3>1. [buf EXCEPT ![0] = Paint(@, Area(a), c)][front] = w
      BY <1>4
    <3>2. want'[front] = Meaning(w)
      <4>1. CASE front = 0
        BY <1>1, <1>4, <4>1
      <4>2. CASE front = 1
        <5>1. w = b /\ want'[front] = want[front]
          BY <1>1, <1>4, <4>2
        <5> HIDE DEF w
        <5> QED
          BY <2>3, <5>1
      <4> QED
        BY <1>4, <4>1, <4>2
    <3> HIDE DEF w
    <3> QED
      BY <1>1, <2>1, <2>2, <3>1, <3>2
  <2> HIDE DEF w
  <2>8. \A p \in Pixels \ Exempt : Synced(card, want[front], p)
    <3>1. \A p \in Pixels \ Exempt : ShownAt(p)
      BY <1>5 DEF ShownInv
    <3> DEFINE other == Stands(b, FALSE)
    <3>2. \A p \in Pixels \ Exempt : \/ Screened[p] = Shown(p, want[front][p])
                                    \/ Screened[p] = Shown(p, other[p])
      BY <3>1 DEF ShownAt
    <3>3. other = want[front]
      BY <2>4
    <3> HIDE DEF other
    <3> QED
      BY <1>5, <3>2, <3>3 DEF Screened, Synced
  <2>9. a \in Rect /\ \A p \in Pixels : Honest(card, p)
    BY <2>1, BoxFacts DEF AllHonest
  <2>10. /\ \A p \in Area(a) : Synced(card', w.ram, p)
         /\ \A p \in Pixels \ Area(a) : Synced(card, w.ram, p) => Synced(card', w.ram, p)
    BY <2>1, <2>7, <2>9, FlushFacts
  <2>11. \A p \in Pixels \ Exempt : Synced(card', w.ram, p)
    BY <2>5, <2>6, <2>8, <2>10 DEF Synced
  <2> QED
    <3>1. \A p \in Pixels \ Exempt : card'.px[p] = Shown(p, want'[front][p])
      BY <2>6, <2>7, <2>11 DEF Synced
    <3>2. Screened' = card'.px /\ want'[front'] = want'[front]
      BY <1>2 DEF Screened
    <3>3. \A p \in Pixels \ Exempt : Screened'[p] = Shown(p, want'[front'][p])
      BY <3>1, <3>2
    <3> QED
      BY <1>5, <3>3 DEF ShownInv, ShownAt
<1> QED
  BY <1>6, <1>7

(* A context's end shows page 0, whose frame is older.                     *)
LEMMA ShownContextEnd ==
  ASSUME Sides, ShownInv, ContextEnd
  PROVE  ShownInv'
<1>1. UNCHANGED <<card, front, locks, buf, want>>
  BY DEF ContextEnd, cardVars
<1>2. CASE ~paged
  <2>1. UNCHANGED <<page, page1, lapse>>
    BY <1>2 DEF ContextEnd, pageVars
  <2> QED
    BY <1>1, <2>1, Unseen
<1>3. CASE paged
  <2>1. page' = 0 /\ lapse' = (lapse \/ page = 1) /\ page1' = page1
    BY <1>3 DEF ContextEnd, LeavePages
  <2>2. SUFFICES ASSUME ~lapse' PROVE ShownInv'
    BY DEF ShownInv
  <2>a. ~(page = 1) /\ (lapse => lapse')
    BY <2>1, <2>2
  <2>b. page \in 0 .. 1
    BY DEF Sides, BookInv, BookTypes
  <2>c. 0 .. 1 = {0, 1}
    OBVIOUS
  <2>3. page = 0
    BY <2>a, <2>b, <2>c
  <2> QED
    BY <1>1, <2>1, <2>3, <2>a, Unseen
<1> QED
  BY <1>2, <1>3

(* Entries of the batch, one kind at a time.                               *)
LEMMA ApplyEach ==
  ASSUME NEW B, NEW c, NEW s, NEW e
  PROVE  LET w == Apply(B, Way(c, s, << >>), e) IN
         /\ e.op = "send" => w = Way(SendRect(c, B[s].ram, e.a, e.arg), s, << >>)
         /\ e.op = "select" => w = Way(c, e.arg, << >>)
         /\ e.op = "free" => w = Way(c, 0, << >>)
         /\ e.op = "forget" => w = Way(Forget(c, e.a), s, << >>)
<1>1. CASE e.op = "send"
  BY <1>1 DEF Apply, Way
<1>2. CASE e.op = "select"
  BY <1>2 DEF Apply, Way
<1>3. CASE e.op = "free"
  BY <1>3 DEF Apply, Way
<1>4. CASE e.op = "forget"
  BY <1>4 DEF Apply, Way
<1> QED
  BY <1>1, <1>2, <1>3, <1>4

(* m8dd_destroy16: buffer 0 selected, and sent whole.                      *)
LEMMA ShownDestroy ==
  ASSUME Sides, Destroy16
  PROVE  ShownInv'
<1> DEFINE B    == [buf EXCEPT ![0] = ReadyAll(@)]
           e1   == Entry("select", Screen, 0)
           e2   == Entry("forget", Screen, 0)
           e3   == Entry("send", Screen, 0)
           e4   == Entry("free", Screen, 0)
           list == <<e1, e2, e3, e4>>
           d    == Flushed(B, PushAll(B, D0, list))
<1>1. front \in 0 .. 1 /\ Becomes(d) /\ CardInv
  BY BufferIndex DEF Destroy16, BufInv, Sides
<1>2. page' = 0 /\ front' = 0 /\ want' = [want EXCEPT ![1] = B[1].ram]
  BY DEF Destroy16, LeavePages
<1>3. /\ e1 \in EntryType /\ e1.op = "select" /\ e1.arg = 0
      /\ e2 \in EntryType /\ e2.op = "forget" /\ e2.a = Screen
      /\ e3 \in EntryType /\ e3.op = "send" /\ e3.a = Screen /\ e3.arg = 0
      /\ e4 \in EntryType /\ e4.op = "free"
  BY EntryFacts, ScreenFacts
<1>4. B[0].ram = want'[0]
  <2>1. Sound(buf[0]) /\ want[0] = Meaning(buf[0]) /\ want \in [0 .. 1 -> [Pixels -> Colours]]
        /\ buf \in [0 .. 1 -> BufType]
    BY BufferIndex DEF Sides, BufInv, Stand
  <2>2. ReadyAll(buf[0]).ram = Meaning(buf[0])
    BY <2>1, ReadyAllFacts DEF Sound
  <2>3. B[0] = ReadyAll(buf[0])
    BY <2>1
  <2>4. want'[0] = want[0]
    BY <1>2, <2>1
  <2> QED
    BY <2>1, <2>2, <2>3, <2>4
<1> HIDE DEF e1, e2, e3, e4, B
<1>5. list \in Seq(EntryType) /\ DOMAIN list = 1 .. 4
      /\ list[1] = e1 /\ list[2] = e2 /\ list[3] = e3 /\ list[4] = e4
  BY <1>3
<1> HIDE DEF list
<1>6. Flushed(B, D0) = Way(card, front, << >>) /\ IsCard(card)
  BY <1>1, WaitingKept DEF CardInv
<1>7. d = Applying!Fold(B, Way(card, front, << >>), list)
  BY <1>1, <1>5, <1>6, WayFacts, BatchExact
<1>8. PICK f : Applying!Trace(B, Way(card, front, << >>), list, 4, f)
  <2>1. 4 \in Nat
    OBVIOUS
  <2> QED
    BY <1>5, <2>1, Inductions, Applying!FoldTrace
<1>9. /\ f[0] = Way(card, front, << >>) /\ d = f[4]
      /\ f[1] = Apply(B, f[0], e1) /\ f[2] = Apply(B, f[1], e2)
      /\ f[3] = Apply(B, f[2], e3) /\ f[4] = Apply(B, f[3], e4)
  <2>1. \A i \in 0 .. 3 : f[i + 1] = Apply(B, f[i], list[i + 1])
    BY <1>8 DEF Applying!Trace
  <2>2. f[0 + 1] = Apply(B, f[0], list[0 + 1]) /\ f[1 + 1] = Apply(B, f[1], list[1 + 1])
        /\ f[2 + 1] = Apply(B, f[2], list[2 + 1]) /\ f[3 + 1] = Apply(B, f[3], list[3 + 1])
    BY <2>1
  <2> QED
    BY <1>5, <1>7, <1>8, <2>2 DEF Applying!Trace
<1> HIDE DEF d
<1>10. f[1] = Way(card, 0, << >>)
  BY <1>3, <1>9, ApplyEach
<1> DEFINE c == Forget(card, Screen)
           v == SendRect(c, B[0].ram, Screen, 0)
<1>11. f[2] = Way(c, 0, << >>)
  BY <1>3, <1>9, <1>10, ApplyEach
<1>12. IsCard(c) /\ AllHonest(c)
  <2>1. c = f[2].card
    BY <1>11 DEF Way
  <2>2. e2 \in WholeSends
    BY <1>3 DEF WholeSends
  <2>3. AllHonest(f[2].card) /\ IsCard(f[2].card)
    BY <1>3, <1>6, <1>9, <1>10, <2>2, ApplyHonest, ApplyFacts
  <2> QED
    BY <2>1, <2>3
<1> HIDE DEF c
<1>13. f[3] = Way(v, 0, << >>)
  BY <1>3, <1>9, <1>11, ApplyEach
<1>14. \A p \in Pixels : Synced(v, B[0].ram, p)
  BY <1>12, ScreenFacts, SendShows
<1> HIDE DEF v
<1>15. f[4] = Way(v, 0, << >>)
  BY <1>3, <1>9, <1>13, ApplyEach
<1>16. card' = v
  BY <1>1, <1>9, <1>15 DEF Becomes, Way
<1> QED
  BY <1>2, <1>4, <1>14, <1>16, Landed

-----------------------------------------------------------------------------
(* Flip.                                                                   *)

(* The engine replays what RAM would be drawn: over pixels shown, pixels   *)
(* shown.                                                                  *)
LEMMA ReplayShows ==
  ASSUME NEW px, NEW erase, NEW tris \in Seq(Tris), NEW img \in [Pixels -> Colours],
         \A p \in Pixels : IF p \in Cover(erase) THEN Shown(p, img[p]) = Shown(p, Black)
                           ELSE px[p] = Shown(p, img[p])
  PROVE  \A p \in Pixels : Replay(px, erase, tris)[p] = Shown(p, Adding!Fold(0, img, tris)[p])
<1> DEFINE n == Len(tris)
           base == [q \in Pixels |-> IF q \in Cover(erase) THEN Shown(q, Black) ELSE px[q]]
<1>1. n \in Nat /\ DOMAIN tris = 1 .. n /\ \A i \in 1 .. n : tris[i] \in Tris
  OBVIOUS
<1>2. \A p \in Pixels : base[p] = Shown(p, img[p])
  OBVIOUS
<1> HIDE DEF n
<1>3. PICK f : Replaying!Trace(0, base, tris, n, f)
  BY <1>1, Inductions, Replaying!FoldTrace
<1>4. PICK g : Adding!Trace(0, img, tris, n, g)
  BY <1>1, Inductions, Adding!FoldTrace
<1>5. f[0] = base /\ f[n] = Replay(px, erase, tris)
      /\ \A i \in 0 .. n - 1 : f[i + 1] = Replayed(0, f[i], tris[i + 1])
  BY <1>3, AsFolds DEF Replaying!Trace
<1>6. g[0] = img /\ g[n] = Adding!Fold(0, img, tris)
      /\ \A i \in 0 .. n - 1 : g[i + 1] = AddTri(0, g[i], tris[i + 1])
  BY <1>4 DEF Adding!Trace
<1> HIDE DEF base
<1> DEFINE S == {i \in Nat : i <= n => \A p \in Pixels : f[i][p] = Shown(p, g[i][p])}
<1>7. 0 \in S
  BY <1>2, <1>5, <1>6
<1>8. ASSUME NEW i \in Nat, i \in S PROVE i + 1 \in S
  <2> SUFFICES ASSUME i + 1 <= n, NEW p \in Pixels PROVE f[i + 1][p] = Shown(p, g[i + 1][p])
    OBVIOUS
  <2>1. i \in 0 .. n - 1 /\ i + 1 \in 1 .. n /\ i <= n
    BY <1>1
  <2>2. f[i + 1] = Replayed(0, f[i], tris[i + 1]) /\ g[i + 1] = AddTri(0, g[i], tris[i + 1])
    BY <1>5, <1>6, <2>1
  <2>3. f[i][p] = Shown(p, g[i][p])
    BY <1>8, <2>1
  <2> DEFINE t == tris[i + 1]
             x == f[i]
             y == g[i]
  <2> HIDE DEF t, x, y
  <2>4. f[i + 1][p] = IF p \in t.px THEN Shown(p, t.c) ELSE x[p]
    BY <2>2 DEF Replayed, t, x
  <2>5. g[i + 1][p] = IF p \in t.px THEN t.c ELSE y[p]
    BY <2>2 DEF AddTri, Over, t, y
  <2> QED
    BY <2>3, <2>4, <2>5 DEF x, y
<1> HIDE DEF S
<1>9. \A i \in Nat : i \in S
  BY <1>7, <1>8, Induct
<1>10. n \in S /\ n <= n
  BY <1>1, <1>9
<1> QED
  BY <1>5, <1>6, <1>10 DEF S

(* The rectangles of a description, sent one after another.                *)
Puts(d) == [i \in DOMAIN d |-> Entry("send", d[i], 0)]

(* They are whole sends, one for each rectangle.                           *)
LEMMA PutsFacts ==
  ASSUME NEW d \in Seq(Aligned(SegW))
  PROVE  /\ Puts(d) \in Seq(WholeSends) /\ DOMAIN Puts(d) = DOMAIN d
         /\ \A i \in DOMAIN d : Puts(d)[i] = Entry("send", d[i], 0)
<1> DEFINE n == Len(d)
<1>1. n \in Nat /\ DOMAIN d = 1 .. n /\ \A i \in 1 .. n : d[i] \in Aligned(SegW)
  OBVIOUS
<1> HIDE DEF n
<1>2. ASSUME NEW i \in 1 .. n PROVE Entry("send", d[i], 0) \in WholeSends
  <2> DEFINE a == d[i]
  <2>1. a \in Aligned(SegW) /\ a \in Rect
    BY <1>1 DEF Aligned
  <2> HIDE DEF a
  <2>2. Entry("send", a, 0) \in EntryType /\ Entry("send", a, 0).a = a
    BY <2>1, EntryFacts
  <2> QED
    BY <2>1, <2>2 DEF WholeSends, a
<1>3. Puts(d) = [i \in 1 .. n |-> Entry("send", d[i], 0)]
  BY <1>1 DEF Puts
<1>4. Puts(d) \in [1 .. n -> WholeSends]
  BY <1>2, <1>3
<1> QED
  BY <1>1, <1>3, <1>4

(* Sent from a buffer, each pixel of them is on the card.                  *)
LEMMA PutsShow ==
  ASSUME NEW B, NEW c, IsCard(c), AllHonest(c), NEW s, NEW d \in Seq(Aligned(SegW)),
         NEW p \in Pixels, p \in Cover(d)
  PROVE  Synced(Applying!Fold(B, Way(c, s, << >>), Puts(d)).card, B[s].ram, p)
<1> DEFINE n == Len(d)
           seq == Puts(d)
           base == Way(c, s, << >>)
           mem == B[s].ram
           Sent(i) == \E j \in 1 .. i : p \in Area(d[j])
<1>1. n \in Nat /\ DOMAIN d = 1 .. n /\ \A i \in 1 .. n : d[i] \in Aligned(SegW)
  OBVIOUS
<1>2. seq \in Seq(WholeSends) /\ DOMAIN seq = 1 .. n
      /\ \A i \in 1 .. n : seq[i] = Entry("send", d[i], 0)
  BY <1>1, PutsFacts
<1>a. Sent(n)
  BY <1>1 DEF Cover
<1> HIDE DEF n, seq, base, mem
<1>3. PICK f : Applying!Trace(B, base, seq, n, f)
  BY <1>1, <1>2, Inductions, Applying!FoldTrace
<1>4. /\ f[0] = base /\ f[n] = Applying!Fold(B, base, seq)
      /\ \A i \in 0 .. n - 1 : f[i + 1] = Apply(B, f[i], seq[i + 1])
  BY <1>3 DEF Applying!Trace
<1> DEFINE S == {i \in Nat : i <= n => \E v : /\ f[i] = Way(v, s, << >>)
                                              /\ IsCard(v) /\ AllHonest(v)
                                              /\ Sent(i) => Synced(v, mem, p)}
<1>5. 0 \in S
  <2>1. ~Sent(0)
    OBVIOUS
  <2> HIDE DEF Sent
  <2> QED
    BY <1>4, <2>1 DEF base
<1>6. ASSUME NEW i \in Nat, i \in S PROVE i + 1 \in S
  <2> SUFFICES ASSUME i + 1 <= n
               PROVE  \E w : /\ f[i + 1] = Way(w, s, << >>)
                             /\ IsCard(w) /\ AllHonest(w)
                             /\ Sent(i + 1) => Synced(w, mem, p)
    OBVIOUS
  <2>1. i \in 0 .. n - 1 /\ i + 1 \in 1 .. n /\ i <= n
    BY <1>1
  <2>h. Sent(i + 1) => Sent(i) \/ p \in Area(d[i + 1])
    <3>1. \A j \in 1 .. i + 1 : j \in 1 .. i \/ j = i + 1
      BY <2>1
    <3> QED
      BY <3>1
  <2> HIDE DEF Sent
  <2>2. PICK v : /\ f[i] = Way(v, s, << >>) /\ IsCard(v) /\ AllHonest(v)
                 /\ Sent(i) => Synced(v, mem, p)
    BY <1>6, <2>1
  <2> DEFINE a == d[i + 1]
             e == Entry("send", a, 0)
             w == SendRect(v, mem, a, 0)
  <2>3. a \in Aligned(SegW) /\ a \in Rect
    BY <1>1, <2>1 DEF Aligned
  <2>4. f[i + 1] = Apply(B, Way(v, s, << >>), e)
    BY <1>2, <1>4, <2>1, <2>2
  <2> HIDE DEF a
  <2>5. e.op = "send" /\ e.a = a /\ e.arg = 0
    BY DEF Entry
  <2> HIDE DEF e
  <2>6. f[i + 1] = Way(w, s, << >>)
    BY <2>4, <2>5, ApplyEach DEF mem
  <2>7. AllHonest(w)
    BY <2>2, <2>3, SendRectHonest
  <2>8. /\ IsCard(w)
        /\ \A q \in Area(a) : Synced(w, mem, q)
        /\ \A q \in Pixels : Synced(v, mem, q) => Synced(w, mem, q)
    BY <2>2, <2>3, SendShows
  <2> HIDE DEF w
  <2>9. Sent(i + 1) => Synced(w, mem, p)
    BY <2>2, <2>8, <2>h DEF a
  <2> QED
    BY <2>6, <2>7, <2>8, <2>9
<1> HIDE DEF S, Sent
<1>7. \A i \in Nat : i \in S
  BY <1>5, <1>6, Induct
<1>8. n \in S /\ n <= n
  BY <1>1, <1>7
<1>9. PICK v : f[n] = Way(v, s, << >>) /\ Synced(v, mem, p)
  BY <1>8, <1>a DEF S
<1> QED
  BY <1>4, <1>9 DEF Way, seq, base, mem

(* The slow Flip's entries: the selection, what erases, and the sends last.*)
SentOf(t) == IF t.known THEN t.d ELSE <<Screen>>

(* Whether it erases what is drawn or all of the screen, the buffer's own  *)
(* rectangles are sent after it.                                           *)
LEMMA EntriesSplit ==
  ASSUME NEW k \in 0 .. 1, Fits(buf[k]), buf[k].d \in Seq(Aligned(SegW)),
         seen.d \in Seq(Rect), box[0] \in Seq(Rect), NEW trusted \in BOOLEAN
  PROVE  \E back \in Seq(WholeSends) :
            /\ \A i \in DOMAIN back : back[i].op \notin {"select", "free"}
            /\ Entries(k, trusted)
                 = (IF fpStale THEN <<Entry("forget", Screen, 0)>> ELSE << >>)
                   \o <<Entry("select", Screen, k)>> \o (back \o Puts(SentOf(buf[k])))
<1> DEFINE t    == buf[k]
           pre  == IF fpStale THEN <<Entry("forget", Screen, 0)>> ELSE << >>
           one  == <<Entry("select", Screen, k)>>
           all  == <<Entry("send", Screen, 0)>>
           fill == IF trusted THEN Fills(t) ELSE <<Entry("fill", Screen, t.colour)>>
           back == IF t.known THEN fill ELSE << >>
           F    == FillOf(t.colour)
<1>1. t.d \in Seq(Rect) /\ t.colour \in Colours
  BY DEF Fits, BufType
<1>2. fill \in Seq(F)
  <2>1. Entry("fill", Screen, t.colour) \in F
    <3>1. t.colour \in Colours \cup 0 .. 2
      BY <1>1
    <3> QED
      BY <3>1, EntryFacts, ScreenFacts DEF FillOf
  <2>2. Fills(t) \in Seq(F)
    BY FillsFacts
  <2> HIDE DEF F
  <2> QED
    BY <2>1, <2>2
<1>3. F \subseteq WholeSends /\ \A e \in F : e.op \notin {"select", "free"}
  BY DEF FillOf, WholeSends
<1>4. back \in Seq(F)
  <2> HIDE DEF F, fill
  <2> QED
    BY <1>2
<1>5. back \in Seq(WholeSends)
  <2> HIDE DEF F, back
  <2> QED
    BY <1>3, <1>4, SeqWider
<1>6. \A i \in DOMAIN back : back[i].op \notin {"select", "free"}
  <2> HIDE DEF F, back
  <2>1. \A i \in DOMAIN back : back[i] \in F
    BY <1>4
  <2> QED
    BY <1>3, <2>1
<1>7. Puts(<<Screen>>) = all
  <2>1. DOMAIN <<Screen>> = {1} /\ <<Screen>>[1] = Screen
    OBVIOUS
  <2>2. Puts(<<Screen>>) = [i \in {1} |-> Entry("send", <<Screen>>[i], 0)]
    BY <2>1 DEF Puts
  <2> DEFINE e == Entry("send", Screen, 0)
  <2>3. [i \in {1} |-> Entry("send", <<Screen>>[i], 0)] = [i \in {1} |-> e]
    BY <2>1
  <2> HIDE DEF e
  <2>4. [i \in {1} |-> e] = <<e>>
    OBVIOUS
  <2> QED
    BY <2>2, <2>3, <2>4 DEF e
<1>8. Entries(k, trusted) = pre \o one \o (IF ~t.known THEN all ELSE fill \o Puts(t.d))
  BY DEF Entries, Puts
<1>9. (IF ~t.known THEN all ELSE fill \o Puts(t.d)) = back \o Puts(SentOf(t))
  <2>1. CASE t.known
    <3> HIDE DEF all, fill
    <3> QED
      BY <2>1 DEF SentOf
  <2>2. CASE ~t.known
    <3> DEFINE x == Puts(<<Screen>>)
    <3>1. x \in Seq(WholeSends)
      <4>1. <<Screen>> \in Seq(Aligned(SegW))
        BY AlignedFacts
      <4> HIDE DEF x
      <4> QED
        BY <4>1, PutsFacts DEF x
    <3> HIDE DEF x
    <3>2. << >> \o x = x
      BY <3>1
    <3> HIDE DEF all, fill
    <3>3. back = << >> /\ SentOf(t) = <<Screen>>
      BY <2>2 DEF SentOf
    <3> QED
      BY <1>7, <2>2, <3>2, <3>3 DEF x
  <2> QED
    BY <2>1, <2>2
<1> HIDE DEF back, fill, all, pre, one, F, t
<1> QED
  BY <1>5, <1>6, <1>8, <1>9 DEF pre, one, t

(* What a slow Flip sends is on the card once the batch is done.           *)
LEMMA FlushedSends ==
  ASSUME CardInv, front \in 0 .. 1, fpStale \in BOOLEAN, fpStale \/ AllHonest(card),
         NEW k \in 0 .. 1, Fits(buf[k]), buf[k].d \in Seq(Aligned(SegW)),
         seen.d \in Seq(Rect), box[0] \in Seq(Rect), NEW trusted \in BOOLEAN,
         NEW p \in Pixels, p \in Cover(SentOf(buf[k]))
  PROVE  LET w == Flushed(buf, PushAll(buf, D0, Entries(k, trusted))) IN
         w.card.px[p] = Shown(p, buf[k].ram[p])
<1> DEFINE list == Entries(k, trusted)
           d    == SentOf(buf[k])
           puts == Puts(d)
           e    == Entry("select", Screen, k)
           pre  == IF fpStale THEN <<Entry("forget", Screen, 0)>> ELSE << >>
           base == Way(card, front, << >>)
           none == << >>
<1>1. d \in Seq(Aligned(SegW))
  <2>1. <<Screen>> \in Seq(Aligned(SegW))
    BY AlignedFacts
  <2> QED
    BY <2>1 DEF SentOf
<1>2. PICK back \in Seq(WholeSends) :
        /\ \A i \in DOMAIN back : back[i].op \notin {"select", "free"}
        /\ list = pre \o <<e>> \o (back \o puts)
  BY EntriesSplit
<1>3. puts \in Seq(WholeSends)
  BY <1>1, PutsFacts
<1>4. e \in EntryType /\ e.op = "select" /\ e.arg = k /\ e \in WholeSends
  <2>1. e \in EntryType /\ e.op = "select" /\ e.arg = k
    BY EntryFacts, ScreenFacts
  <2> QED
    BY <2>1 DEF WholeSends
<1>5. Entry("forget", Screen, 0) \in EntryType
  BY EntryFacts, ScreenFacts
<1>6. base = Flushed(buf, D0) /\ IsCard(card)
  BY WaitingKept DEF CardInv
<1> HIDE DEF d, puts, e, base, list, none
<1>7. WholeSends \subseteq EntryType
  BY DEF WholeSends
<1>8. back \in Seq(EntryType) /\ puts \in Seq(EntryType) /\ pre \in Seq(EntryType)
  <2>1. back \in Seq(EntryType) /\ puts \in Seq(EntryType)
    BY <1>3, <1>7, SeqWider
  <2> QED
    BY <1>5, <2>1
<1> DEFINE head == pre \o <<e>> \o back
<1>9. head \in Seq(EntryType) /\ list = head \o puts /\ list \in Seq(EntryType)
  <2> HIDE DEF pre
  <2>1. <<e>> \in Seq(EntryType)
    BY <1>4
  <2> DEFINE one == <<e>>
  <2>2. head = pre \o one \o back /\ list = pre \o one \o (back \o puts)
    BY <1>2
  <2>3. one \in Seq(EntryType)
    BY <2>1
  <2> HIDE DEF one, head
  <2>4. pre \o one \o (back \o puts) = (pre \o one \o back) \o puts
    BY SMTT(60), <1>8, <2>3
  <2>5. head \in Seq(EntryType)
    BY <1>8, <2>2, <2>3
  <2>6. list = head \o puts
    BY <2>2, <2>4
  <2>7. head \o puts \in Seq(EntryType)
    BY <1>8, <2>5
  <2>8. list \in Seq(EntryType)
    BY ONLY <2>6, <2>7
  <2> QED
    BY <2>5, <2>6, <2>8
<1> DEFINE x == Applying!Fold(buf, base, head)
<1>10. x = Way(x.card, x.sel, << >>) /\ IsCard(x.card)
  <2> HIDE DEF head
  <2> QED
    BY <1>6, <1>9, ApplyFold DEF base
<1>11. x.sel = k
  <2>1. x.sel = SelAfter(front, e)
    <3> HIDE DEF pre
    <3> QED
      BY <1>2, <1>4, <1>6, <1>8, LastSelects DEF base
  <2> QED
    BY <1>4, <2>1 DEF SelAfter
<1>12. AllHonest(x.card)
  <2> DEFINE rest == <<e>> \o back
  <2>1. rest \in Seq(WholeSends) /\ rest \in Seq(EntryType)
    BY <1>4, <1>7, <1>8
  <2>2. head = pre \o rest
    <3> HIDE DEF pre
    <3> QED
      BY SMTT(60), <1>4, <1>8
  <2> HIDE DEF rest, head
  <2>3. CASE fpStale
    <3>1. none \in Seq(EntryType)
      BY DEF none
    <3>2. head = none \o <<Entry("forget", Screen, 0)>> \o rest
      BY <1>5, <2>1, <2>2, <2>3 DEF none
    <3>3. AllHonest(Applying!Fold(buf, base, none \o <<Entry("forget", Screen, 0)>> \o rest).card)
      BY <1>6, <2>1, <3>1, ForgetMends DEF base
    <3> QED
      BY <3>2, <3>3
  <2>4. CASE ~fpStale
    <3>1. head = rest
      BY <2>1, <2>2, <2>4
    <3> QED
      BY <1>6, <2>1, <2>4, <3>1, FoldHonest DEF base
  <2> QED
    BY <2>3, <2>4
<1>13. Flushed(buf, PushAll(buf, D0, list)) = Applying!Fold(buf, base, list)
  BY ZenonT(60), <1>6, <1>9, WayFacts, BatchExact
<1>14. Applying!Fold(buf, base, list) = Applying!Fold(buf, x, puts)
  <2> HIDE DEF head
  <2> QED
    BY <1>8, <1>9, Inductions, Applying!FoldConcat
<1> HIDE DEF x, head
<1> DEFINE c == x.card
<1>15. x = Way(c, k, << >>) /\ IsCard(c) /\ AllHonest(c)
  BY <1>10, <1>11, <1>12
<1> HIDE DEF c
<1>16. Synced(Applying!Fold(buf, Way(c, k, << >>), puts).card, buf[k].ram, p)
  <2>1. p \in Cover(d)
    BY DEF d
  <2> QED
    BY <1>1, <1>15, <2>1, PutsShow DEF puts
<1> QED
  BY <1>13, <1>14, <1>15, <1>16 DEF list, Synced

(* The old note says enough of the card: what a trusted Flip leaves alone  *)
(* has the new frame's colour.                                             *)
LEMMA TrustedErase ==
  ASSUME BookInv, SeenBooks, SeenIsSo, NEW t,
         LET trusted == SeenNow.known /\ ~paged /\ seen.colour = t.colour
         IN  trusted /\ ~(Undrawn /\ trusted)
  PROVE  \A p \in Pixels : p \in Cover(Erase) \/ card.px[p] = Shown(p, t.colour)
<1>1. seen \in SeenType
  BY DEF BookInv, BookTypes
<1>2. seen.known /\ ~gdi /\ seen.colour = t.colour
  BY <1>1 DEF SeenNow, SeenType
<1>3. direct = "no"
  BY <1>2 DEF SeenBooks
<1>4. ~lapse
  BY <1>3 DEF Undrawn
<1> QED
  BY <1>2, <1>4, SeenErase

(* A buffer by its description, without its triangles.                     *)
Under(t) == [p \in Pixels |-> IF t.known /\ p \notin Cover(t.d) THEN t.colour ELSE t.ram[p]]

(* It is a picture, and the triangles on it are what the buffer stands for.*)
LEMMA UnderFacts ==
  ASSUME NEW t \in BufType
  PROVE  Under(t) \in [Pixels -> Colours] /\ Stands(t, FALSE) = Adding!Fold(0, Under(t), t.tris)
<1>1. Under(t) \in [Pixels -> Colours]
  BY DEF Under, BufType
<1> DEFINE b == [t EXCEPT !.filled = FALSE]
<1>2. b.known = t.known /\ b.filled = FALSE /\ b.d = t.d /\ b.colour = t.colour
      /\ b.ram = t.ram /\ b.tris = t.tris
  BY DEF BufType
<1> HIDE DEF b
<1>3. Base(b) = Under(t)
  BY <1>2 DEF Base, Under
<1>4. Meaning(b) = Stands(t, FALSE)
  BY <1>2 DEF Meaning, Stands
<1>5. Meaning(b) = Adding!Fold(0, Base(b), b.tris)
  BY AsFolds
<1> QED
  BY <1>1, <1>2, <1>3, <1>4, <1>5

(* After a slow Flip the card has the new frame.                           *)
LEMMA SlowShows ==
  ASSUME Sides, Flip, FlipSlow(1 - front), ~lapse'
  PROVE  \A p \in Pixels : card'.px[p] = Shown(p, Stands(buf[1 - front], FALSE)[p])
<1> DEFINE k == 1 - front
           t == buf[k]
           trusted == SeenNow.known /\ ~paged /\ seen.colour = t.colour
           d == Flushed(buf, PushAll(buf, D0, Entries(k, trusted)))
           u == Under(t)
<1>1. /\ front \in 0 .. 1 /\ k \in 0 .. 1 /\ Fits(t) /\ t \in BufType
      /\ t.d \in Seq(Aligned(SegW)) /\ t.tris \in Seq(Tris)
  <2>1. front \in 0 .. 1
    BY BufferIndex DEF Sides, BufInv
  <2>2. k \in 0 .. 1
    BY <2>1
  <2> QED
    BY <2>1, <2>2 DEF Sides, BufInv, Sound, Fits, DescIn, In
<1>2. t.d \in Seq(Aligned(2))
  BY <1>1, AlignedEven, SeqWider
<1>3. seen.d \in Seq(Rect) /\ box[0] \in Seq(Rect) /\ fpStale \in BOOLEAN
      /\ (fpStale \/ AllHonest(card)) /\ CardInv
  BY DEF Sides, BookInv, BookTypes, BookFlags, SeenType, FpInv, FpMarked
<1> HIDE DEF k
<1>4. PICK o \in Atop(d.card.px, t.tris) :
        /\ Becomes([d EXCEPT !.card.px = o.px])
        /\ lapse' = ((Undrawn /\ trusted) \/ ~o.ok)
  BY DEF FlipSlow, k
<1>5. trusted => \A p \in Pixels : p \in Cover(Erase) \/ card.px[p] = Shown(p, t.colour)
  <2> SUFFICES ASSUME trusted
               PROVE  \A p \in Pixels : p \in Cover(Erase) \/ card.px[p] = Shown(p, t.colour)
    OBVIOUS
  <2>1. ~(Undrawn /\ trusted)
    BY <1>4
  <2> QED
    BY <2>1, TrustedErase DEF Sides
<1>6. trusted \in BOOLEAN
  OBVIOUS
<1>7. o.ok
  BY <1>1, <1>4, DrewAtop
<1>14. t.tris = << >> => o.px = d.card.px
  BY DEF Atop
<1> HIDE DEF trusted
<1>8. ASSUME NEW p \in Pixels PROVE d.card.px[p] = Shown(p, u[p])
  <2>1. CASE t.known /\ p \notin Cover(t.d)
    <3>1. u[p] = t.colour
      BY <2>1 DEF Under
    <3>2. d.card.px[p] = Shown(p, t.colour)
      BY <1>1, <1>2, <1>3, <1>5, <1>6, <2>1, FlushedLeaves
    <3> QED
      BY <3>1, <3>2
  <2>2. CASE ~(t.known /\ p \notin Cover(t.d))
    <3>1. u[p] = t.ram[p]
      BY <2>2 DEF Under
    <3>2. p \in Cover(SentOf(t))
      <4>1. CASE t.known
        BY <2>2, <4>1 DEF SentOf
      <4>2. CASE ~t.known
        <5>1. Cover(<<Screen>>) = Pixels
          BY CoverOne, ScreenFacts
        <5> QED
          BY <4>2, <5>1 DEF SentOf
      <4> QED
        BY <4>1, <4>2
    <3>3. d.card.px[p] = Shown(p, t.ram[p])
      BY <1>1, <1>3, <1>6, <3>2, FlushedSends
    <3> QED
      BY <3>1, <3>3
  <2> QED
    BY <2>1, <2>2
<1>9. Entries(k, trusted) \in Seq(EntryType)
  <2>1. PICK pre \in Seq(EntryType), rest \in Seq(Quiet) :
           Entries(k, trusted) = pre \o <<Entry("select", Screen, k)>> \o rest
    BY <1>1, <1>3, <1>6, FlipEntries
  <2>2. rest \in Seq(EntryType) /\ Entry("select", Screen, k) \in EntryType
    BY <1>1, QuietSeq, EntryFacts, ScreenFacts
  <2> QED
    BY <2>1, <2>2
<1>10. d = Way(d.card, d.sel, << >>) /\ IsCard(d.card)
  BY <1>1, <1>3, <1>9, WayFacts, BatchExact, FlushedFacts
<1> DEFINE other == Stands(t, FALSE)
<1>11. u \in [Pixels -> Colours] /\ other = Adding!Fold(0, u, t.tris)
  BY <1>1, UnderFacts
<1> HIDE DEF d, u, other
<1>12. card'.px = o.px
  <2>1. [Way(d.card, d.sel, << >>) EXCEPT !.card.px = o.px].card.px = o.px
    BY <1>10 DEF Way, IsCard
  <2> QED
    BY <1>4, <1>10, <2>1 DEF Becomes
<1>13. \A p \in Pixels : o.px[p] = Shown(p, other[p])
  <2>1. CASE t.tris = << >>
    <3>1. Adding!Fold(0, u, << >>) = u
      BY Inductions, Adding!FoldEmpty
    <3>2. other = u
      BY <1>11, <2>1, <3>1
    <3>3. o.px = d.card.px
      BY <1>14, <2>1
    <3> QED
      BY <1>8, <3>2, <3>3
  <2>2. CASE t.tris # << >>
    <3>1. o.px = Replay(d.card.px, << >>, t.tris)
      BY <1>1, <1>4, <1>7, <2>2, DrewAtop, Drew
    <3>2. \A p \in Pixels : IF p \in Cover(<< >>) THEN Shown(p, u[p]) = Shown(p, Black)
                            ELSE d.card.px[p] = Shown(p, u[p])
      BY <1>8, CoverNone
    <3> QED
      BY <1>1, <1>11, <3>1, <3>2, ReplayShows
  <2> QED
    BY <2>1, <2>2
<1> QED
  BY <1>12, <1>13 DEF other, t, k

(* A buffer of triangles on black.                                         *)
LEMMA PlainStands ==
  ASSUME NEW t \in BufType, Plain(t)
  PROVE  /\ Stands(t, FALSE) = Adding!Fold(0, Black0, t.tris)
         /\ Black0 \in [Pixels -> Colours]
<1>1. Cover(t.d) = {} /\ t.known /\ t.colour = Black
  BY CoverNone DEF Plain
<1>2. Under(t) = Black0
  BY <1>1 DEF Under, Black0
<1> QED
  BY <1>2, UnderFacts

(* The fast flip shows its frame.                                          *)
LEMMA FastShows ==
  ASSUME Sides, AloneInv, DrawnInv, Flip, FlipFast(1 - front), ~lapse'
  PROVE  \A p \in Pixels : Screened'[p] = Shown(p, Stands(buf[1 - front], FALSE)[p])
<1> DEFINE k == 1 - front
           tris == buf[k].tris
           new == Adding!Fold(0, Black0, tris)
           other == Stands(buf[k], FALSE)
<1>1. k \in 0 .. 1 /\ tris \in Seq(Tris) /\ buf[k] \in BufType
  <2>1. k \in 0 .. 1
    <3>1. front \in 0 .. 1
      BY BufferIndex DEF Sides, BufInv
    <3> QED
      BY <3>1
  <2> QED
    BY <2>1 DEF Sides, BufInv, Sound, Fits, BufType
<1>2. Plain(buf[k])
  BY DEF FlipFast
<1>3. other = new /\ Black0 \in [Pixels -> Colours]
  BY <1>1, <1>2, PlainStands
<1>4. /\ ~lapse /\ seen.known /\ ~gdi /\ Plain(seen)
      /\ \/ tris = drawn /\ card' = card /\ UNCHANGED pageVars
         \/ \E h, under, erase : FrameAt(h, under, erase, tris)
  BY FastFrame DEF Sides
<1>5. \A p \in Pixels : Black0[p] = Black
  BY DEF Black0
<1>6. page \in 0 .. 1
  BY DEF Sides, BookInv, BookTypes
<1> HIDE DEF other, k
<1> SUFFICES \A p \in Pixels : Screened'[p] = Shown(p, new[p])
  BY <1>3 DEF other, k
<1>7. CASE tris = drawn /\ card' = card /\ UNCHANGED pageVars
  <2>1. Screened' = Screened
    BY <1>7 DEF Screened, pageVars
  <2>2. \A p \in Pixels : Screened[p] = Shown(p, Adding!Fold(0, Black0, drawn)[p])
    BY <1>4 DEF DrawnInv
  <2> QED
    BY <1>7, <2>1, <2>2
<1>8. CASE \E h, under, erase : FrameAt(h, under, erase, tris)
  <2>1. PICK h, under, erase : FrameAt(h, under, erase, tris)
    BY <1>8
  <2>2. \A p \in Pixels : Replay(under, erase, tris)[p] = Shown(p, new[p])
    <3>1. \A p \in Pixels : p \in Cover(erase) \/ under[p] = Shown(p, Black)
      BY <2>1 DEF FrameAt
    <3> QED
      BY <1>1, <1>3, <1>5, <3>1, ReplayShows
  <2>3. page' = h
    <3>1. ~PagesFit => page # 1
      BY DEF AloneInv
    <3> QED
      BY <1>6, <2>1, <3>1 DEF FrameAt
  <2> HIDE DEF tris, new
  <2>4. Screened' = Replay(under, erase, tris)
    BY <2>1, <2>3 DEF Screened, FrameAt
  <2> QED
    BY <2>2, <2>4
<1> QED
  BY <1>4, <1>7, <1>8

(* Every Flip does.                                                        *)
LEMMA FlipShows ==
  ASSUME Sides, AloneInv, DrawnInv, Flip, ~lapse'
  PROVE  \A p \in Pixels : Screened'[p] = Shown(p, Stands(buf[1 - front], FALSE)[p])
<1>1. FlipFast(1 - front) \/ FlipSlow(1 - front)
  BY DEF Flip
<1>2. CASE FlipFast(1 - front)
  BY <1>2, FastShows
<1>3. CASE FlipSlow(1 - front)
  <2>1. page' = 0
    BY <1>3 DEF FlipSlow, LeavePages
  <2>2. Screened' = card'.px
    BY <2>1 DEF Screened
  <2> QED
    BY <1>3, <2>2, SlowShows
<1> QED
  BY <1>1, <1>2, <1>3

(* A Flip shows its buffer on all of the screen, and the note is what it   *)
(* drew there.                                                             *)
LEMMA ShownFlip ==
  ASSUME Sides, AloneInv, DrawnInv, Flip
  PROVE  ShownInv' /\ DrawnInv'
<1> DEFINE k == 1 - front
           t == buf[k]
           other == Stands(t, FALSE)
<1>1. live /\ front' = k /\ buf' = buf /\ want' = want
  BY DEF Flip
<1>2. k \in 0 .. 1 /\ t \in BufType
  <2>1. front \in 0 .. 1
    BY BufferIndex DEF Sides, BufInv
  <2>2. k \in 0 .. 1
    BY <2>1
  <2> QED
    BY <2>2 DEF Sides, BufInv, Sound, Fits
<1>3. seen'.known => seen' = Described(t) /\ drawn' = t.tris
  BY FlipNotes, UnseenBooks DEF Sides
<1>4. want[k] = Meaning(t)
  <2>1. k \in Buffers
    BY <1>1, <1>2 DEF Buffers
  <2> QED
    BY <2>1 DEF Sides, Stand
<1>5. t.filled = FALSE => other = Meaning(t)
  BY <1>2, StandsFacts
<1>6. t.filled \in BOOLEAN
  BY <1>2 DEF BufType
<1>7. Plain(t) => other = Adding!Fold(0, Black0, t.tris)
  BY <1>2, PlainStands
<1>8. Stands(t, FALSE) = other
  OBVIOUS
<1>9. ~lapse' => \A p \in Pixels : Screened'[p] = Shown(p, other[p])
  <2> SUFFICES ASSUME ~lapse' PROVE \A p \in Pixels : Screened'[p] = Shown(p, other[p])
    OBVIOUS
  <2> QED
    BY FlipShows
<1> HIDE DEF other, k
<1>10. ShownInv'
  <2> SUFFICES ASSUME ~lapse', NEW p \in Pixels PROVE ShownAt(p)'
    BY DEF ShownInv
  <2>1. Screened'[p] = Shown(p, other[p])
    BY <1>9
  <2>2. CASE t.filled = FALSE
    BY <1>1, <1>4, <1>5, <2>1, <2>2 DEF ShownAt
  <2>3. CASE t.filled = TRUE
    <3>1. buf'[front'].filled /\ Stands(buf'[front'], FALSE) = other
      BY <1>1, <1>8, <2>3
    <3> QED
      BY <2>1, <3>1 DEF ShownAt
  <2> QED
    BY <1>6, <2>2, <2>3
<1>11. DrawnInv'
  <2> SUFFICES ASSUME seen'.known, ~lapse', Plain(seen)', NEW p \in Pixels
               PROVE  Screened'[p] = Shown(p, Adding!Fold(0, Black0, drawn')[p])
    BY DEF DrawnInv, Black0
  <2>1. Plain(t)
    BY <1>3 DEF Plain, Described
  <2> QED
    BY <1>3, <1>7, <1>9, <2>1
<1> QED
  BY <1>10, <1>11

(* Every step keeps the shown buffer on the screen.                        *)
LEMMA ShownStep ==
  ASSUME Alone, Sides, AloneInv, LockInv, DrawnInv, ShownInv, ~StrayTriangles, [Next]_vars
  PROVE  ShownInv'
<1>1. CASE \E k \in Buffers, a \in Boxes, c \in Colours : BltFill(k, a, c)
  BY <1>1, ShownFill
<1>2. CASE BltCopy
  BY <1>2, ShownCopy
<1>3. CASE BltSelf
  BY <1>3, ShownSelf
<1>4. CASE \E k, s \in Buffers, a \in Boxes, c \in Colours : BltOwn(k, s, a, c)
  BY <1>4, ShownOwn
<1>5. CASE Lock
  BY <1>5, ShownLock
<1>6. CASE WriteLocked
  BY <1>6, ShownWrite
<1>7. CASE Unlock
  BY <1>7, ShownUnlock
<1>8. CASE Record
  BY <1>8, ShownRecord
<1>9. CASE ContextEnd
  BY <1>9, ShownContextEnd
<1>10. CASE Flip
  BY <1>10, ShownFlip
<1>11. CASE Gdi
  BY <1>11, ShownGdi
<1>12. CASE Create16
  <2>1. lapse'
    BY <1>12 DEF Create16
  <2> QED
    BY <2>1 DEF ShownInv
<1>13. CASE Destroy16
  BY <1>13, ShownDestroy
<1>14. CASE ContextCreate \/ UNCHANGED vars
  <2>1. UNCHANGED <<card, front, page, page1, locks, buf, want, lapse>>
    BY <1>14 DEF ContextCreate, vars, cardVars, pageVars, progVars
  <2> QED
    BY <2>1, Unseen
<1> QED
  BY <1>1, <1>2, <1>3, <1>4, <1>5, <1>6, <1>7, <1>8, <1>9, <1>10, <1>11, <1>12, <1>13, <1>14
     DEF Next

(* What the screen shows while the note is believed.                       *)
LEMMA DrawnStep ==
  ASSUME Sides, AloneInv, DrawnInv, ShownInv, [Next]_vars
  PROVE  DrawnInv'
<1>0. BookInv
  BY DEF Sides
<1>1. CASE ~seen'.known
  BY <1>1 DEF DrawnInv
<1>2. CASE Flip
  BY <1>2, ShownFlip
<1>3. CASE Gdi
  <2>1. gdi'
    BY <1>3 DEF Gdi
  <2> QED
    BY <2>1 DEF DrawnInv
<1>4. ASSUME UNCHANGED <<card, seen, drawn, gdi, pageVars, lapse>>
      PROVE  DrawnInv'
  <2>1. Screened' = Screened
    BY <1>4 DEF Screened, pageVars
  <2> QED
    BY <1>4, <2>1 DEF DrawnInv, Plain
<1>5. CASE Unlock /\ UNCHANGED <<seen, drawn, box, gdi, pageVars, direct>>
  <2>1. CASE ~seen.known
    <3>1. ~seen'.known
      BY <1>5, <2>1
    <3> QED
      BY <3>1 DEF DrawnInv
  <2>2. CASE seen.known
    <3>1. Kept(held) = {}
      BY <2>2 DEF Sides, SeenBooks
    <3>2. 1 .. HeldMax \ Free = {}
      BY <3>1 DEF Kept, Free
    <3>3. UNCHANGED <<card, lapse>>
      BY <1>5, <3>2 DEF Unlock
    <3> QED
      BY <1>4, <1>5, <3>3
  <2> QED
    BY <2>1, <2>2
<1> QED
  BY <1>0, <1>1, <1>2, <1>3, <1>4, <1>5, SeenMoves

(* What happens to a pair that is not there.                               *)
LEMMA AloneMoves ==
  ASSUME BufInv, CardInv, [Next]_vars
  PROVE  \/ Flip
         \/ live' = TRUE /\ page' \in {page, 0}
         \/ Destroy16 /\ batch' = << >> /\ page' = 0
         \/ UNCHANGED <<live, batch>> /\ page' \in {page, 0}
<1>1. \A B : OnShown(B) \/ OnHidden(B) => UNCHANGED <<live, batch, page>>
  BY DEF OnShown, OnHidden, cardVars, pageVars
<1>2. CASE \E k \in Buffers, a \in Boxes, c \in Colours : BltFill(k, a, c)
  BY <1>1, <1>2 DEF BltFill, FillShown, FillHidden
<1>3. CASE BltCopy
  <2>1. \A k, a, s, src, m, keyed :
          CopyShown(k, a, s, src, m, keyed) \/ CopyHidden(k, a, s, src, m, keyed)
             => UNCHANGED <<live, batch, page>>
    BY <1>1 DEF CopyShown, CopyHidden
  <2> QED
    BY <1>3, <2>1 DEF BltCopy
<1>4. CASE BltSelf
  BY <1>1, <1>4 DEF BltSelf
<1>5. CASE \E k, s \in Buffers, a \in Boxes, c \in Colours : BltOwn(k, s, a, c)
  BY <1>1, <1>5 DEF BltOwn, cardVars, pageVars
<1>6. CASE Record
  BY <1>1, <1>6 DEF Record, Triangle, RecordShown, RecordHidden, pageVars
<1>7. CASE Lock \/ WriteLocked \/ Unlock \/ ContextCreate \/ UNCHANGED vars
  BY <1>7 DEF Lock, WriteLocked, Unlock, ContextCreate, vars, cardVars, pageVars
<1>8. CASE ContextEnd
  BY <1>8 DEF ContextEnd, LeavePages, cardVars, pageVars
<1>9. CASE Gdi
  BY <1>9 DEF Gdi
<1>10. CASE Flip \/ Create16
  BY <1>10 DEF Create16, pageVars
<1>11. CASE Destroy16
  BY <1>11, CardDestroy DEF Destroy16, LeavePages
<1> QED
  BY <1>2, <1>3, <1>4, <1>5, <1>6, <1>7, <1>8, <1>9, <1>10, <1>11 DEF Next

(* Alone, the frame buffer is never described.                             *)
LEMMA AloneKnown ==
  ASSUME BufInv, CardInv, ~live, buf[0].known = FALSE, [Next]_vars
  PROVE  live' \/ buf'[0].known = FALSE
<1> DEFINE b == buf[0]
           plain == buf'[0].known = FALSE
<1>1. Buffers = {0} /\ front = 0 /\ DOMAIN buf = 0 .. 1 /\ Fits(b) /\ 0 \in 0 .. 1
  BY DEF Buffers, BufInv, Sound
<1>2. ReadyAll(b).known = FALSE /\ \A B : Unknown(B).known = FALSE \/ "known" \notin DOMAIN B
  BY <1>1, ReadyAllFacts DEF Unknown
<1>r. Fits(ReadyAll(b)) /\ DOMAIN ReadyAll(b) = DOMAIN b /\ "known" \in DOMAIN b
      /\ "known" \in DOMAIN ReadyAll(b)
  BY <1>1, ReadyAllFacts DEF Fits, BufType
<1>u. Unknown(ReadyAll(b)).known = FALSE
  BY <1>2, <1>r
<1>p. \A A, c : Paint(b, A, c).known = FALSE /\ Paint(Unknown(ReadyAll(b)), A, c).known = FALSE
  <2>1. \A x, A, c : "known" \in DOMAIN x => Paint(x, A, c).known = x.known
    BY DEF Paint
  <2>2. "known" \in DOMAIN Unknown(ReadyAll(b))
    BY <1>r DEF Unknown
  <2> QED
    BY <1>r, <1>u, <2>1, <2>2
<1> HIDE DEF plain
<1>3. ASSUME NEW x, x.known = FALSE, buf' = [buf EXCEPT ![0] = x] PROVE plain
  BY <1>1, <1>3 DEF plain
<1>4. ASSUME NEW k \in Buffers, NEW a \in Boxes, NEW c \in Colours, BltFill(k, a, c) PROVE plain
  <2>1. FillShown(0, a, c)
    BY <1>1, <1>4 DEF BltFill
  <2> DEFINE x == Paint(Unknown(ReadyAll(b)), Area(a), c)
  <2>2. buf' = [buf EXCEPT ![0] = x]
    BY <2>1 DEF FillShown, OnShown
  <2>3. x.known = FALSE
    BY <1>p
  <2> HIDE DEF x
  <2> QED
    BY <1>3, <2>2, <2>3
<1>5. CASE BltCopy
  <2>1. \E k \in Buffers, a \in Boxes, keyed \in BOOLEAN : \E s, src, m :
          IF k = front THEN CopyShown(k, a, s, src, m, keyed)
                       ELSE CopyHidden(k, a, s, src, m, keyed)
    BY <1>5 DEF BltCopy
  <2>2. PICK a, s, src, m, keyed : CopyShown(0, a, s, src, m, keyed)
    BY <1>1, <2>1
  <2> DEFINE own == Unknown(ReadyAll(b))
  <2>3. \E img : buf'[0] = [own EXCEPT !.ram = img]
    BY <1>1, <2>2 DEF CopyShown, OnShown
  <2>4. "known" \in DOMAIN own /\ own.known = FALSE
    BY <1>r, <1>u DEF Unknown
  <2> HIDE DEF own
  <2>5. \A img : [own EXCEPT !.ram = img].known = FALSE
    BY <2>4
  <2> QED
    BY <2>3, <2>5 DEF plain
<1>6. CASE BltSelf
  <2> DEFINE own == Unknown(ReadyAll(b))
  <2>1. \E a, m : buf' = [buf EXCEPT ![0] = [own EXCEPT !.ram = Taken(@, @, a, m, FALSE)]]
    BY ZenonT(60), <1>1, <1>6 DEF BltSelf, OnShown
  <2>2. own.known = FALSE
    BY <1>u
  <2> HIDE DEF own
  <2> QED
    BY <1>1, <2>1, <2>2 DEF plain
<1>7. CASE \E k, s \in Buffers, a \in Boxes, c \in Colours : BltOwn(k, s, a, c)
  <2>1. PICK a, c : BltOwn(0, 0, a, c)
    BY <1>1, <1>7
  <2> DEFINE R == [j \in 0 .. 1 |-> IF j \in {0, 0} THEN ReadyAll(buf[j]) ELSE buf[j]]
  <2>2. buf' = [R EXCEPT ![0] = Paint(Unknown(@), Area(a), c)]
    BY <1>1, <2>1 DEF BltOwn
  <2>3. R[0] = ReadyAll(b) /\ 0 \in DOMAIN R
    BY <1>1
  <2> HIDE DEF R
  <2>4. buf'[0] = Paint(Unknown(ReadyAll(b)), Area(a), c)
    BY <2>2, <2>3
  <2> QED
    BY <1>p, <2>4 DEF plain
<1>8. CASE Lock
  <2>1. PICK write \in BOOLEAN :
          buf' = [buf EXCEPT ![0] = IF write THEN Unknown(ReadyAll(@)) ELSE ReadyAll(@)]
    BY <1>1, <1>8 DEF Lock
  <2>2. buf'[0] = Unknown(ReadyAll(b)) \/ buf'[0] = ReadyAll(b)
    BY <1>1, <2>1
  <2> QED
    BY <1>2, <1>u, <2>2 DEF plain
<1>9. CASE WriteLocked
  <2>1. PICK i \in DOMAIN locks, c \in Colours :
          buf' = [buf EXCEPT ![locks[i].k] = Paint(@, Area(locks[i].r), c)]
    BY <1>9 DEF WriteLocked
  <2>2. locks[i].k = 0
    BY <1>1 DEF BufInv
  <2>3. buf'[0] = Paint(b, Area(locks[i].r), c)
    BY <1>1, <2>1, <2>2
  <2> QED
    BY <1>p, <2>3 DEF plain
<1>10. CASE Record
  <2>1. PICK t \in Tris : RecordShown(0, t)
    BY <1>1, <1>10 DEF Record, Triangle
  <2> DEFINE x == TriRam(b, t)
  <2>2. buf' = [buf EXCEPT ![0] = x]
    BY <2>1 DEF RecordShown
  <2>3. x.known = FALSE
    BY <1>1, TriRamFacts
  <2> HIDE DEF x
  <2> QED
    BY <1>3, <2>2, <2>3
<1>11. CASE Gdi
  <2>1. PICK a, c : buf' = [buf EXCEPT ![0] = Paint(@, Area(a), c)]
    BY <1>11 DEF Gdi
  <2>2. buf'[0] = Paint(b, Area(a), c)
    BY <1>1, <2>1
  <2> QED
    BY <1>p, <2>2 DEF plain
<1>12. CASE Unlock \/ ContextCreate \/ ContextEnd \/ UNCHANGED vars
  BY <1>12 DEF Unlock, ContextCreate, ContextEnd, vars, plain
<1>13. CASE Flip \/ Destroy16
  BY <1>13 DEF Flip, Destroy16
<1>14. CASE Create16
  BY <1>14 DEF Create16
<1> QED
  BY <1>4, <1>5, <1>6, <1>7, <1>8, <1>9, <1>10, <1>11, <1>12, <1>13, <1>14 DEF Next, plain

(* No step breaks what holds without a pair.                               *)
LEMMA AloneStep ==
  ASSUME BufInv, CardInv, BookInv, AloneInv, [Next]_vars
  PROVE  AloneInv'
<1>1. CASE Flip
  <2>1. live'
    BY <1>1 DEF Flip
  <2>2. page' = 1 => PagesFit
    <3>1. CASE FlipFast(1 - front)
      BY <3>1 DEF FlipFast, OneFrame, pageVars, AloneInv
    <3>2. CASE FlipSlow(1 - front)
      BY <3>2 DEF FlipSlow, LeavePages
    <3> QED
      BY <1>1, <3>1, <3>2 DEF Flip
  <2> QED
    BY <2>1, <2>2 DEF AloneInv
<1>2. CASE live' = TRUE /\ page' \in {page, 0}
  BY <1>2 DEF AloneInv
<1>3. CASE Destroy16 /\ batch' = << >> /\ page' = 0
  <2>1. buf'[0].known = FALSE
    <3>1. 0 \in Buffers /\ DOMAIN buf = 0 .. 1 /\ Fits(buf[0])
      BY BufferIndex DEF BufInv, Sound
    <3> DEFINE w == ReadyAll(buf[0])
    <3>2. Fits(w)
      BY <3>1, ReadyAllFacts
    <3> HIDE DEF w
    <3>3. [Unknown(w) EXCEPT !.tris = << >>].known = FALSE
      BY <3>2, LeftFacts
    <3>4. [buf EXCEPT ![0] = ReadyAll(@)][0] = w
      BY <3>1 DEF w
    <3>5. buf'[0] = [Unknown([buf EXCEPT ![0] = ReadyAll(@)][0]) EXCEPT !.tris = << >>]
      BY <1>3 DEF Destroy16
    <3> QED
      BY <3>3, <3>4, <3>5
  <2> QED
    BY <1>3, <2>1 DEF AloneInv
<1>4. CASE UNCHANGED <<live, batch>> /\ page' \in {page, 0} /\ live' # TRUE
  <2>1. live \in BOOLEAN
    BY DEF BufInv
  <2>2. ~live /\ ~live'
    BY <1>4, <2>1
  <2>3. batch = << >> /\ page = 0 /\ buf[0].known = FALSE
    BY <2>2 DEF AloneInv
  <2>4. buf'[0].known = FALSE
    BY <2>2, <2>3, AloneKnown
  <2> QED
    BY <1>4, <2>3, <2>4 DEF AloneInv
<1> QED
  BY <1>1, <1>2, <1>3, <1>4, AloneMoves

-----------------------------------------------------------------------------
(* The theorem.                                                            *)

(* The inductive invariant of the shown buffer.                            *)
Frame == Sides /\ DescIn(Aligned(2)) /\ AloneInv /\ LockInv /\ DrawnInv /\ ShownInv

(* It holds as the driver starts: black screen, nothing drawn or held.     *)
LEMMA FrameInit == Init => Frame
<1> SUFFICES ASSUME Init PROVE Frame
  OBVIOUS
<1> DEFINE black == [p \in Pixels |-> Black]
           none  == [px |-> black, fp |-> [s \in Pieces |-> NoFp]]
<1>1. Sides /\ DescIn(Aligned(2))
  <2>1. BufInv /\ Stand
    BY BufInit
  <2>2. CardInv /\ BookInv /\ FpInv
    BY WayInit, FpInit
  <2>3. HeldInv /\ SeenBooks /\ SeenIsSo
    BY SeenInit
  <2>4. DescIn(Aligned(SegW)) /\ HeldIn(Aligned(SegW)) /\ DescIn(Aligned(2))
    BY InInit
  <2> QED
    BY <2>1, <2>2, <2>3, <2>4 DEF Sides
<1>2. AloneInv
  <2>1. batch = << >> /\ page = 0 /\ buf[0].known = FALSE
    <3>1. 0 \in 0 .. 1
      OBVIOUS
    <3> QED
      BY <3>1 DEF Init
  <2> QED
    BY <2>1 DEF AloneInv
<1>3. locks = << >> /\ Kept(held) = {} /\ ~Locked
  BY DEF Init, Kept, Locked
<1>4. LockInv
  BY <1>3 DEF LockInv
<1>5. DrawnInv
  BY DEF Init, DrawnInv
<1>6. \A p \in Pixels : card.px[p] = Shown(p, black[p])
  <2>1. card = SendAll(none, black)
    BY DEF Init
  <2>2. IsCard(none)
    BY DEF IsCard
  <2> HIDE DEF black, none
  <2> QED
    BY <2>1, <2>2, SendAllFacts DEF Synced
<1>7. ShownInv
  <2>1. page = 0 /\ front = 0 /\ want = [k \in 0 .. 1 |-> black]
    BY DEF Init
  <2>2. Screened = card.px /\ want[front] = black
    BY <2>1 DEF Screened
  <2> HIDE DEF black
  <2> QED
    BY <1>6, <2>2 DEF ShownInv, ShownAt
<1> QED
  BY <1>1, <1>2, <1>4, <1>5, <1>7 DEF Frame

(* Every step keeps it, by the lemma of each of its parts.                 *)
LEMMA FrameStep ==
  ASSUME Named(Aligned(SegW)), Alone, Frame, Next, ~UnderTriangle, ~StrayTriangles
  PROVE  Frame'
<1>1. /\ BufInv /\ CardInv /\ BookInv /\ FpInv /\ HeldInv /\ SeenBooks /\ SeenIsSo /\ Stand
      /\ DescIn(Aligned(SegW)) /\ HeldIn(Aligned(SegW)) /\ DescIn(Aligned(2))
      /\ AloneInv /\ LockInv /\ DrawnInv /\ ShownInv /\ Sides
  BY DEF Frame, Sides
<1>2. Closed(Aligned(2)) /\ Closed(Aligned(SegW)) /\ Named(Aligned(2))
  <2>1. Closed(Aligned(2)) /\ Closed(Aligned(SegW))
    BY AlignedClosed
  <2>2. Named(Aligned(2))
    BY AlignedEven DEF Named
  <2> QED
    BY <2>1, <2>2
<1>3. BufInv' /\ Stand' /\ CardInv' /\ BookInv' /\ FpInv'
  BY <1>1, BufStep, CardStep, BookStep, FpStep
<1>4. HeldInv' /\ SeenBooks'
  BY <1>1, HeldStep, BooksStep
<1>5. SeenIsSo'
  BY <1>1, SeenStep
<1>6. DescIn(Aligned(SegW))' /\ HeldIn(Aligned(SegW))'
  BY <1>1, <1>2, InStep
<1>7. DescIn(Aligned(2))'
  <2>1. HeldIn(Aligned(2))
    BY <1>1, AlignedEven DEF HeldIn
  <2> QED
    BY <1>1, <1>2, <2>1, InStep
<1>8. AloneInv' /\ LockInv'
  BY <1>1, AloneStep, LockStep
<1>9. DrawnInv' /\ ShownInv'
  BY <1>1, DrawnStep, ShownStep
<1> QED
  BY <1>3, <1>4, <1>5, <1>6, <1>7, <1>8, <1>9 DEF Frame, Sides

(* A stutter keeps it: nothing it speaks of moves.                         *)
LEMMA FrameSame ==
  ASSUME Frame, UNCHANGED vars
  PROVE  Frame'
<1>1. UNCHANGED <<buf, front, live, card, sel, batch, seen, drawn, box, fpStale, gdi, context,
                  paged, page, page1, held, locks, direct, lapse, want>>
  BY DEF vars, cardVars, bookVars, pageVars, progVars
<1>2. [Next]_vars
  OBVIOUS
<1>3. Screened' = Screened /\ Locked' = Locked /\ Exempt' = Exempt
  BY <1>1 DEF Screened, Locked, Exempt
<1>4. BufInv' /\ Stand'
  BY BufSame DEF Frame, Sides
<1>5. CardInv' /\ BookInv' /\ HeldInv' /\ SeenBooks' /\ SeenIsSo'
  BY <1>2, CardStep, BookStep, HeldStep, BooksStep, SeenStep DEF Frame, Sides
<1>6. FpInv' /\ DescIn(Aligned(SegW))' /\ HeldIn(Aligned(SegW))' /\ DescIn(Aligned(2))'
  BY <1>1 DEF Frame, Sides, FpInv, FpMarked, PagedInv, AllHonest, Honest, DescIn, HeldIn, In
<1>7. AloneInv' /\ LockInv'
  BY <1>1, <1>3 DEF Frame, AloneInv, LockInv, Kept
<1>8. DrawnInv'
  BY <1>1, <1>3 DEF Frame, DrawnInv, Plain
<1>9. ShownInv'
  BY <1>1, Unseen DEF Frame
<1> QED
  BY <1>4, <1>5, <1>6, <1>7, <1>8, <1>9 DEF Frame, Sides

(* While no lapse excuses it, the screen is the shown buffer               *)
(* (m8dd32.c:555 "The card shows m8dd_front"), for every screen, buffers,  *)
(* triangles and batch: as long as                                         *)
(*   - the program holds one lock at a time (README, MCDd16_unlocks.cfg),  *)
(*   - the rectangles named are whole pieces (MCDd16_piece.cfg),           *)
(*   - no triangle is drawn on the shown buffer under one of another       *)
(*     colour (MCDd16_under.cfg), and                                      *)
(*   - no read of it puts its triangles in RAM after GDI drew on it: their *)
(*     boxes go in the description, and with them GDI's pixels beside the  *)
(*     triangles, which the card is not sent (StrayTriangles).             *)
THEOREM FrontStays ==
  ASSUME Named(Aligned(SegW)), MaxLocks <= 1
  PROVE  Spec /\ [][~UnderTriangle]_vars /\ [][~StrayTriangles]_vars => []FrontShown
<1>1. Init => Frame
  BY FrameInit
<1>2. Frame /\ [Next]_vars /\ [~UnderTriangle]_vars /\ [~StrayTriangles]_vars => Frame'
  <2> SUFFICES ASSUME Frame, [Next]_vars, [~UnderTriangle]_vars, [~StrayTriangles]_vars
               PROVE  Frame'
    OBVIOUS
  <2>1. CASE UNCHANGED vars
    BY <2>1, FrameSame
  <2>2. CASE Next /\ ~UnderTriangle /\ ~StrayTriangles
    BY <2>2, FrameStep DEF Alone
  <2> QED
    BY <2>1, <2>2
<1>3. Frame => FrontShown
  <2> SUFFICES ASSUME Frame, ~lapse, ~Locked, NEW p \in Pixels
               PROVE  \/ Screened[p] = Shown(p, want[front][p])
                      \/ buf[front].filled /\ Screened[p] = Shown(p, Stands(buf[front], FALSE)[p])
    BY DEF FrontShown, OnScreen
  <2>1. Exempt = {}
    BY DEF Exempt
  <2>2. ShownAt(p)
    BY <2>1 DEF Frame, ShownInv
  <2> QED
    BY <2>2 DEF ShownAt
<1> QED
  BY <1>1, <1>2, <1>3, PTL DEF Spec

-----------------------------------------------------------------------------
(* DirectDraw's promise.                                                   *)

(* Once filled, RAM holds the colour outside the rectangles                *)
(* (m8dd32.c:556-557).                                                     *)
Settled(b) == b.known /\ b.filled => \A p \in Pixels \ Cover(b.d) : b.ram[p] = b.colour

(* Without an engine there are no triangles to draw.                       *)
Level(b, engine) == Fits(b) /\ Settled(b) /\ (engine \/ b.tris = << >>)

Calm == DOMAIN buf = 0 .. 1 /\ \A k \in 0 .. 1 : Level(buf[k], context)

(* A settled buffer has one meaning: GDI has not strayed in it.            *)
LEMMA SettledMeans ==
  ASSUME NEW b \in BufType, Settled(b)
  PROVE  Stands(b, FALSE) = Meaning(b)
<1>1. CASE b.known /\ b.filled
  <2> DEFINE under == [p \in Pixels |-> IF b.known /\ ~FALSE /\ p \notin Cover(b.d)
                                        THEN b.colour ELSE b.ram[p]]
             full  == [p \in Pixels |-> IF b.known /\ ~b.filled /\ p \notin Cover(b.d)
                                        THEN b.colour ELSE b.ram[p]]
  <2>1. under = full
    BY <1>1 DEF Settled
  <2> QED
    BY <2>1 DEF Meaning, Stands
<1>2. CASE ~(b.known /\ b.filled)
  <2>1. b.known = FALSE \/ b.filled = FALSE
    BY <1>2 DEF BufType
  <2> QED
    BY <2>1, StandsFacts
<1> QED
  BY <1>1, <1>2

(* What keeps a buffer settled,                                            *)
LEMMA SameLevel ==
  ASSUME NEW b, NEW e, Level(b, e)
  PROVE  /\ \A A : Level(Ready(b, A), e)
         /\ Level(Unknown(b), e) /\ \A c \in Colours : Level(Cleared(b, c), e)
         /\ Level([b EXCEPT !.tris = << >>], e)
         /\ b.known = FALSE => /\ \A A : \A c \in Colours : Level(Paint(b, A, c), e)
                               /\ \A img \in [Pixels -> Colours] : Level([b EXCEPT !.ram = img], e)
<1>1. b \in BufType /\ Fits(b)
  BY DEF Level, Fits
<1>2. ASSUME NEW A PROVE Level(Ready(b, A), e)
  <2> DEFINE w == Ready(b, A)
  <2>1. /\ w \in BufType /\ w.known = b.known /\ w.filled = b.filled /\ w.colour = b.colour
        /\ w.d = b.d /\ w.tris = b.tris
    BY <1>1, ReadyFacts
  <2>2. b.known /\ b.filled => w = b
    BY DEF Ready
  <2> HIDE DEF w
  <2>3. Settled(w)
    BY <2>1, <2>2 DEF Level, Settled
  <2> QED
    BY <1>1, <2>1, <2>3 DEF Level, Fits, w
<1>3. Level(Unknown(b), e)
  BY <1>1 DEF Unknown, Level, Settled, Fits, BufType
<1>4. ASSUME NEW c \in Colours PROVE Level(Cleared(b, c), e)
  <2>1. Sound(Cleared(b, c))
    BY <1>1, ClearedFacts
  <2>2. Cleared(b, c).filled = FALSE /\ Cleared(b, c).tris = << >>
    BY <1>1 DEF Cleared, BufType
  <2> QED
    BY <2>1, <2>2 DEF Level, Settled, Sound
<1>5. Level([b EXCEPT !.tris = << >>], e)
  <2>1. << >> \in Seq(Tris)
    OBVIOUS
  <2> DEFINE w == [b EXCEPT !.tris = << >>]
  <2>2. /\ w \in BufType /\ w.known = b.known /\ w.filled = b.filled /\ w.colour = b.colour
        /\ w.d = b.d /\ w.tris = << >> /\ w.ram = b.ram
    BY <1>1, <2>1 DEF BufType
  <2> HIDE DEF w
  <2> QED
    BY <1>1, <2>2 DEF Level, Settled, Fits, w
<1>6. ASSUME b.known = FALSE, NEW img \in [Pixels -> Colours] PROVE Level([b EXCEPT !.ram = img], e)
  BY <1>1, <1>6 DEF Level, Settled, Fits, BufType
<1>7. ASSUME b.known = FALSE, NEW A, NEW c \in Colours PROVE Level(Paint(b, A, c), e)
  <2>1. Over(b.ram, A, c) \in [Pixels -> Colours]
    BY <1>1, OverType DEF BufType
  <2> QED
    BY <1>6, <1>7, <2>1 DEF Paint
<1> QED
  BY <1>2, <1>3, <1>4, <1>5, <1>6, <1>7

(* what is drawn in it and entered,                                        *)
LEMMA LevelDirty ==
  ASSUME NEW b, NEW e, Level(b, e), NEW a \in Rect, NEW img \in [Pixels -> Colours],
         \A p \in Pixels \ Area(a) : img[p] = b.ram[p]
  PROVE  Level(Dirty([b EXCEPT !.ram = img], a), e)
<1> DEFINE x == [b EXCEPT !.ram = img]
           y == [x EXCEPT !.filled = FALSE]
           w == Dirty(x, a)
           v == Dirty(y, a)
<1>1. /\ Fits(x) /\ x.known = b.known /\ x.filled = b.filled /\ x.colour = b.colour
      /\ x.d = b.d /\ x.tris = b.tris /\ x.ram = img
  BY DEF Level, Fits, BufType
<1>2. Fits(y) /\ y.known = x.known /\ ~y.filled /\ y.colour = x.colour /\ y.d = x.d /\ y.ram = x.ram
  BY <1>1 DEF Fits, BufType
<1> HIDE DEF x, y
<1>3. /\ Fits(w) /\ w.known = b.known /\ w.filled = b.filled /\ w.colour = b.colour
      /\ w.tris = b.tris /\ (b.filled => w.ram = img)
  BY <1>1, DirtyFacts
<1>4. /\ v.known = b.known /\ v.filled = FALSE /\ v.colour = b.colour
      /\ \A p \in Pixels : Base(v)[p] = IF p \in Area(a) THEN img[p] ELSE Base(y)[p]
  BY <1>1, <1>2, DirtyFacts
<1>5. v.d = w.d
  <2> USE DEF y
  <2>1. CASE ~x.known \/ \E i \in DOMAIN x.d : Inside(a, x.d[i])
    BY <1>2, <2>1 DEF Dirty
  <2>2. CASE ~(~x.known \/ \E i \in DOMAIN x.d : Inside(a, x.d[i])) /\ Len(x.d) < DirtyMax
    BY <1>1, <1>2, <2>2 DEF Dirty, Fits, BufType
  <2>3. CASE ~(~x.known \/ \E i \in DOMAIN x.d : Inside(a, x.d[i])) /\ ~(Len(x.d) < DirtyMax)
    BY <1>1, <1>2, <2>3 DEF Dirty, Fits, BufType
  <2> QED
    BY <2>1, <2>2, <2>3
<1> HIDE DEF w, v
<1>6. ASSUME b.known, b.filled, NEW p \in Pixels \ Cover(w.d) PROVE w.ram[p] = w.colour
  <2>1. Base(v)[p] = b.colour
    BY <1>4, <1>5, <1>6 DEF Base
  <2>2. CASE p \in Area(a)
    BY <1>3, <1>4, <1>6, <2>1, <2>2
  <2>3. CASE p \notin Area(a)
    <3>1. Base(y)[p] = b.colour
      BY <1>4, <2>1, <2>3
    <3>2. IF p \in Cover(b.d) THEN img[p] = b.colour ELSE b.ram[p] = b.colour
      BY <1>1, <1>2, <1>6, <3>1 DEF Base, Level, Settled
    <3> QED
      BY <1>3, <1>6, <2>3, <3>2
  <2> QED
    BY <2>2, <2>3
<1>7. Settled(w) /\ (e \/ w.tris = << >>)
  BY <1>3, <1>6 DEF Settled, Level
<1> QED
  BY <1>3, <1>7 DEF Level, w, x

(* the triangles put in it,                                                *)
LEMMA LevelTri ==
  ASSUME NEW b, NEW e, Level(b, e), NEW t \in Tris
  PROVE  Level(TriRam(b, t), e)
<1> DEFINE x == Ready(b, Area(t.box))
<1>1. Level(x, e)
  BY SameLevel
<1> HIDE DEF x
<1>2. x.ram \in [Pixels -> Colours]
  BY <1>1 DEF Level, Fits, BufType
<1>3. t.box \in Rect /\ t.px \subseteq Area(t.box) /\ t.c \in Colours
  BY TriFacts
<1>4. /\ Over(x.ram, t.px, t.c) \in [Pixels -> Colours]
      /\ \A p \in Pixels \ Area(t.box) : Over(x.ram, t.px, t.c)[p] = x.ram[p]
  BY <1>2, <1>3, OverType
<1>5. Level(Dirty([x EXCEPT !.ram = Over(x.ram, t.px, t.c)], t.box), e)
  BY <1>1, <1>3, <1>4, LevelDirty
<1>6. TriRam(b, t) = Dirty([x EXCEPT !.ram = Over(x.ram, t.px, t.c)], t.box)
  BY DEF TriRam, Paint, x
<1> QED
  BY <1>5, <1>6

(* all of them, and the colour.                                            *)
LEMMA LevelReady ==
  ASSUME NEW b, NEW e, Level(b, e)
  PROVE  Level(TrisToRam(b), e) /\ Level(ReadyAll(b), e)
<1> DEFINE x == [b EXCEPT !.tris = << >>]
           n == Len(b.tris)
           T == {v \in BufType : Level(v, e)}
<1>1. n \in Nat /\ DOMAIN b.tris = 1 .. n /\ \A i \in 1 .. n : b.tris[i] \in Tris
  BY DEF Level, Fits, BufType
<1>2. x \in T
  BY SameLevel DEF Level, Fits
<1>3. \A v \in T, i \in 1 .. n : DrawTri(0, v, b.tris[i]) \in T
  BY <1>1, LevelTri DEF DrawTri, Level, Fits
<1> HIDE DEF x, n, T
<1>4. Drawing!Fold(0, x, b.tris) \in T
  BY <1>1, <1>2, <1>3, Inductions, Drawing!FoldKeeps
<1> DEFINE y == TrisToRam(b)
<1>5. Level(y, e)
  BY <1>4, AsFolds DEF T, x
<1> HIDE DEF y
<1> DEFINE z == Ready(y, Pixels)
<1>6. Level(z, e) /\ z \in BufType
  BY <1>5, SameLevel DEF Level, Fits
<1>7. ASSUME z.known, NEW p \in Pixels \ Cover(z.d) PROVE z.ram[p] = z.colour
  <2>1. y \in BufType
    BY <1>5 DEF Level, Fits
  <2>2. /\ z.known = y.known /\ z.filled = y.filled /\ z.colour = y.colour /\ z.d = y.d
        /\ z.ram[p] = Base(y)[p]
    BY <2>1, ReadyFacts
  <2> QED
    BY <1>5, <1>7, <2>2 DEF Base, Level, Settled
<1> HIDE DEF z
<1>8. Level([z EXCEPT !.filled = TRUE], e)
  BY <1>6, <1>7 DEF Level, Settled, Fits, BufType
<1> QED
  BY <1>5, <1>8 DEF ReadyAll, y, z

(* One buffer drawn on, or both.                                           *)
LEMMA CalmOne ==
  ASSUME Calm, context' = context, NEW k \in 0 .. 1, NEW w, Level(w, context),
         \/ buf' = [buf EXCEPT ![k] = w]
         \/ DOMAIN buf' = 0 .. 1 /\ \A j \in 0 .. 1 : buf'[j] \in {w, ReadyAll(buf[j]), buf[j]}
  PROVE  Calm'
<1>1. \A j \in 0 .. 1 : Level(ReadyAll(buf[j]), context) /\ Level(buf[j], context)
  BY LevelReady DEF Calm
<1>2. DOMAIN buf' = 0 .. 1 /\ \A j \in 0 .. 1 : buf'[j] \in {w, ReadyAll(buf[j]), buf[j]}
  BY DEF Calm
<1>3. \A j \in 0 .. 1 : Level(buf'[j], context)
  BY <1>1, <1>2
<1> QED
  BY <1>2, <1>3 DEF Calm

(* Directly in RAM, or by the description.                                 *)
LEMMA LevelDrawn ==
  ASSUME NEW b, NEW e, Level(b, e)
  PROVE  /\ \A A : \A c \in Colours : Level(Paint(Unknown(ReadyAll(b)), A, c), e)
         /\ \A img \in [Pixels -> Colours] : Level([Unknown(ReadyAll(b)) EXCEPT !.ram = img], e)
         /\ \A A : Level(Ready(TrisToRam(b), A), e)
<1> DEFINE r == ReadyAll(b)
           own == Unknown(r)
<1>1. Level(r, e) /\ Level(TrisToRam(b), e)
  BY LevelReady
<1> HIDE DEF r
<1>2. Level(own, e) /\ own.known = FALSE
  BY <1>1, SameLevel DEF Unknown, Level, Fits, BufType
<1> HIDE DEF own
<1>3. /\ \A A : \A c \in Colours : Level(Paint(own, A, c), e)
      /\ \A img \in [Pixels -> Colours] : Level([own EXCEPT !.ram = img], e)
  BY <1>2, SameLevel
<1>4. \A A : Level(Ready(TrisToRam(b), A), e)
  BY <1>1, SameLevel
<1> QED
  BY <1>3, <1>4 DEF own, r

(* m8dd_blt16's fills keep it so,                                          *)
LEMMA CalmFill ==
  ASSUME Calm, UNCHANGED context, NEW k \in Buffers, NEW a \in Boxes, NEW c \in Colours,
         BltFill(k, a, c)
  PROVE  Calm'
<1> DEFINE x == Paint(Unknown(ReadyAll(buf[k])), Area(a), c)
           y == Cleared(buf[k], c)
           own == Ready(TrisToRam(buf[k]), Area(a))
           z == Dirty(Paint(own, Area(a), c), a)
<1>1. k \in 0 .. 1 /\ a \in Rect /\ Level(buf[k], context)
  BY BufferIndex, BoxFacts DEF Calm
<1>2. Level(x, context) /\ Level(y, context) /\ Level(own, context)
  <2> DEFINE b == buf[k]
  <2> HIDE DEF b
  <2>1. Level(b, context)
    BY <1>1 DEF b
  <2>2. \A A : Level(Paint(Unknown(ReadyAll(b)), A, c), context)
    BY <2>1, LevelDrawn
  <2>3. Level(Cleared(b, c), context)
    BY <2>1, SameLevel
  <2>4. \A A : Level(Ready(TrisToRam(b), A), context)
    BY <2>1, LevelDrawn
  <2> QED
    BY <2>2, <2>3, <2>4 DEF b
<1>3. Level(z, context)
  <2> HIDE DEF own
  <2> DEFINE img == Over(own.ram, Area(a), c)
  <2>0. own.ram \in [Pixels -> Colours]
    BY <1>2 DEF Level, Fits, BufType
  <2>1. img \in [Pixels -> Colours] /\ \A p \in Pixels \ Area(a) : img[p] = own.ram[p]
    BY <2>0, OverType
  <2> HIDE DEF img
  <2>2. Level(Dirty([own EXCEPT !.ram = img], a), context)
    BY <1>1, <1>2, <2>1, LevelDirty
  <2> QED
    BY <2>2 DEF Paint, img
<1>4. PICK w \in {x, y, z} : buf' = [buf EXCEPT ![k] = w]
  <2>1. CASE k = front
    BY <2>1 DEF BltFill, FillShown, OnShown
  <2>2. CASE k # front /\ Whole(a)
    BY <2>2 DEF BltFill, FillHidden, OnHidden
  <2>3. CASE k # front /\ ~Whole(a)
    BY <2>3 DEF BltFill, FillHidden, OnHidden
  <2> QED
    BY <2>1, <2>2, <2>3
<1> HIDE DEF x, y, z
<1> QED
  BY <1>1, <1>2, <1>3, <1>4, CalmOne

(* its copies,                                                             *)
LEMMA CalmCopyOne ==
  ASSUME Calm, UNCHANGED context, NEW k \in Buffers, NEW a \in Boxes, NEW keyed \in BOOLEAN,
         NEW s, NEW src, NEW m,
         (s = -1 /\ src \in [Pixels -> Colours]) \/ s \in Buffers,
         \A p \in Area(a) : Shift(p, m) \in Pixels,
         CopyShown(k, a, s, src, m, keyed) \/ CopyHidden(k, a, s, src, m, keyed)
  PROVE  Calm'
<1> DEFINE own  == Unknown(ReadyAll(buf[k]))
           from == IF s = -1 THEN src ELSE ReadyAll(buf[s]).ram
           new  == Taken(own.ram, from, a, m, keyed)
           x    == [own EXCEPT !.ram = new]
           kept == Ready(TrisToRam(buf[k]), Area(a))
           img  == Taken(kept.ram, from, a, m, keyed)
           y    == Dirty([kept EXCEPT !.ram = img], a)
<1>1. k \in 0 .. 1 /\ a \in Rect /\ Level(buf[k], context)
  BY BufferIndex, BoxFacts DEF Calm
<1>2. /\ \A z \in [Pixels -> Colours] : Level([own EXCEPT !.ram = z], context)
      /\ Level(kept, context) /\ Level(own, context)
  BY <1>1, LevelDrawn, LevelReady, SameLevel
<1>3. from \in [Pixels -> Colours]
  <2>1. CASE s = -1
    BY <2>1, BufferIndex
  <2>2. CASE s # -1
    <3>1. Level(buf[s], context)
      BY <2>2, BufferIndex DEF Calm
    <3> QED
      BY <2>2, <3>1, LevelReady DEF Level, Fits, BufType
  <2> QED
    BY <2>1, <2>2
<1>4. own.ram \in [Pixels -> Colours] /\ kept.ram \in [Pixels -> Colours]
  BY <1>2 DEF Level, Fits, BufType
<1>5. PICK w \in {x, y} : buf' = [j \in 0 .. 1 |-> IF j = k THEN w
                                                 ELSE IF j = s THEN ReadyAll(buf[j]) ELSE buf[j]]
  <2>1. CASE CopyShown(k, a, s, src, m, keyed)
    BY <2>1 DEF CopyShown, OnShown
  <2>2. CASE CopyHidden(k, a, s, src, m, keyed)
    BY <2>2 DEF CopyHidden, OnHidden
  <2> QED
    BY <2>1, <2>2
<1> HIDE DEF own, from, kept
<1>6. /\ new \in [Pixels -> Colours] /\ img \in [Pixels -> Colours]
      /\ \A p \in Pixels \ Area(a) : img[p] = kept.ram[p]
  BY <1>3, <1>4, TakenFacts
<1> HIDE DEF new, img
<1>7. Level(x, context) /\ Level(y, context)
  BY <1>1, <1>2, <1>6, LevelDirty
<1> HIDE DEF x, y
<1>8. DOMAIN buf' = 0 .. 1 /\ \A j \in 0 .. 1 : buf'[j] \in {w, ReadyAll(buf[j]), buf[j]}
  BY <1>5
<1> QED
  BY <1>1, <1>5, <1>7, <1>8, CalmOne

LEMMA CalmCopy ==
  ASSUME Calm, UNCHANGED context, BltCopy
  PROVE  Calm'
<1> DEFINE Copy(k, a, keyed, s, src, m) ==
             CopyShown(k, a, s, src, m, keyed) \/ CopyHidden(k, a, s, src, m, keyed)
<1>1. PICK k \in Buffers, a \in Boxes, keyed \in BOOLEAN :
        \/ \E src \in Pictures : Copy(k, a, keyed, -1, src, <<0, 0>>)
        \/ /\ 1 - k \in Buffers
           /\ \E m \in Moves : Inside(Shifted(a, m), Screen) /\ Copy(k, a, keyed, 1 - k, << >>, m)
  BY DEF BltCopy
<1>2. a \in Rect
  BY BoxFacts
<1>3. ASSUME NEW src \in Pictures, Copy(k, a, keyed, -1, src, <<0, 0>>)
      PROVE  Calm'
  <2> DEFINE m == <<0, 0>>
             s == -1
  <2>1. ASSUME NEW p \in Area(a) PROVE Shift(p, m) \in Pixels
    <3>1. p \in Pixels /\ p[1] \in Int /\ p[2] \in Int /\ p = <<p[1], p[2]>>
      BY GeometryAssumption DEF Area, Pixels
    <3>2. Shift(p, m) = <<p[1] + 0, p[2] + 0>>
      BY DEF Shift
    <3> QED
      BY <3>1, <3>2
  <2>2. src \in [Pixels -> Colours] /\ s = -1 /\ Copy(k, a, keyed, s, src, m)
    BY <1>3, BoxFacts
  <2> HIDE DEF m, s
  <2> QED
    BY <2>1, <2>2, CalmCopyOne
<1>4. ASSUME 1 - k \in Buffers, NEW m \in Moves, Inside(Shifted(a, m), Screen),
             Copy(k, a, keyed, 1 - k, << >>, m)
      PROVE  Calm'
  <2>1. \A p \in Area(a) : Shift(p, m) \in Pixels
    BY <1>2, <1>4, BoxFacts, ShiftFacts
  <2> DEFINE s == 1 - k
             src == << >>
  <2>2. s \in Buffers /\ Copy(k, a, keyed, s, src, m)
    BY <1>4
  <2> HIDE DEF s, src
  <2> QED
    BY <2>1, <2>2, CalmCopyOne
<1> HIDE DEF Copy
<1> QED
  BY <1>1, <1>3, <1>4

LEMMA CalmSelf ==
  ASSUME Calm, UNCHANGED context, BltSelf
  PROVE  Calm'
<1>1. PICK k \in Buffers, a \in Boxes, m \in Moves :
        /\ Inside(Shifted(a, m), Screen)
        /\ IF k = front
           THEN LET own == Unknown(ReadyAll(buf[k]))
                    B   == [buf EXCEPT ![k] = [own EXCEPT !.ram = Taken(@, @, a, m, FALSE)]]
                IN  OnShown(B)
           ELSE LET own == Ready(Ready(TrisToRam(buf[k]), Area(a)), Area(Shifted(a, m)))
                IN  OnHidden([buf EXCEPT ![k] =
                                Dirty([own EXCEPT !.ram = Taken(@, @, a, m, FALSE)], a)])
  BY ZenonT(60) DEF BltSelf
<1> DEFINE own  == Unknown(ReadyAll(buf[k]))
           new  == Taken(own.ram, own.ram, a, m, FALSE)
           x    == [own EXCEPT !.ram = new]
           once == Ready(TrisToRam(buf[k]), Area(a))
           kept == Ready(once, Area(Shifted(a, m)))
           img  == Taken(kept.ram, kept.ram, a, m, FALSE)
           y    == Dirty([kept EXCEPT !.ram = img], a)
<1>2. k \in 0 .. 1 /\ a \in Rect /\ m \in Int \X Int /\ Level(buf[k], context)
  BY BufferIndex, BoxFacts DEF Calm
<1>3. \A p \in Area(a) : Shift(p, m) \in Pixels
  BY <1>1, <1>2, ShiftFacts
<1>4. PICK w \in {x, y} : buf' = [buf EXCEPT ![k] = w]
  <2>1. CASE k = front
    BY <1>1, <2>1 DEF OnShown
  <2>2. CASE k # front
    BY <1>1, <2>2 DEF OnHidden
  <2> QED
    BY <2>1, <2>2
<1>5. /\ \A z \in [Pixels -> Colours] : Level([own EXCEPT !.ram = z], context)
      /\ Level(once, context) /\ Level(own, context)
  <2> DEFINE b == buf[k]
             r == ReadyAll(b)
  <2> HIDE DEF b
  <2>1. Level(b, context)
    BY <1>2 DEF b
  <2>2. /\ \A z \in [Pixels -> Colours] : Level([Unknown(r) EXCEPT !.ram = z], context)
        /\ \A A : Level(Ready(TrisToRam(b), A), context)
    BY <2>1, LevelDrawn
  <2>3. Level(Unknown(r), context)
    BY <2>1, LevelReady, SameLevel
  <2> QED
    BY <2>2, <2>3 DEF b
<1> HIDE DEF own, once
<1>6. Level(kept, context)
  BY <1>5, SameLevel
<1>7. own.ram \in [Pixels -> Colours] /\ kept.ram \in [Pixels -> Colours]
  BY <1>5, <1>6 DEF Level, Fits, BufType
<1> HIDE DEF kept
<1>8. /\ new \in [Pixels -> Colours] /\ img \in [Pixels -> Colours]
      /\ \A p \in Pixels \ Area(a) : img[p] = kept.ram[p]
  <2> DEFINE f == own.ram
             g == kept.ram
             no == FALSE
  <2>1. f \in [Pixels -> Colours] /\ g \in [Pixels -> Colours] /\ ~no
    BY <1>7
  <2> HIDE DEF f, g, no
  <2>2. Taken(f, f, a, m, no) \in [Pixels -> Colours]
    BY <1>3, <2>1, TakenFacts
  <2>3. /\ Taken(g, g, a, m, no) \in [Pixels -> Colours]
        /\ \A p \in Pixels \ Area(a) : Taken(g, g, a, m, no)[p] = g[p]
    BY <1>3, <2>1, TakenFacts
  <2> QED
    BY <2>2, <2>3 DEF f, g, no
<1> HIDE DEF new, img
<1>9. Level(x, context) /\ Level(y, context)
  BY <1>2, <1>5, <1>6, <1>8, LevelDirty
<1> HIDE DEF x, y
<1> QED
  BY <1>2, <1>4, <1>9, CalmOne

LEMMA CalmOwn ==
  ASSUME Calm, UNCHANGED context, NEW k \in Buffers, NEW s \in Buffers, NEW a \in Boxes,
         NEW c \in Colours, BltOwn(k, s, a, c)
  PROVE  Calm'
<1> DEFINE R == [j \in 0 .. 1 |-> IF j \in {k, s} THEN ReadyAll(buf[j]) ELSE buf[j]]
           w == Paint(Unknown(ReadyAll(buf[k])), Area(a), c)
<1>1. k \in 0 .. 1 /\ Level(buf[k], context)
  BY BufferIndex DEF Calm
<1>2. Level(w, context)
  BY <1>1, LevelDrawn
<1>3. buf' = [R EXCEPT ![k] = Paint(Unknown(R[k]), Area(a), c)]
  BY DEF BltOwn, OnHidden
<1>4. R[k] = ReadyAll(buf[k])
  BY <1>1
<1>5. buf' = [R EXCEPT ![k] = w]
  BY <1>3, <1>4
<1> HIDE DEF w
<1>6. DOMAIN buf' = 0 .. 1 /\ \A j \in 0 .. 1 : buf'[j] \in {w, ReadyAll(buf[j]), buf[j]}
  BY <1>1, <1>5
<1> QED
  BY <1>1, <1>2, <1>6, CalmOne

(* what is drawn under a lock, triangles and GDI,                          *)
LEMMA CalmDraw ==
  ASSUME Calm, BufInv, AloneInv, UNCHANGED context,
         Lock \/ WriteLocked \/ Record \/ (Gdi /\ ~live)
  PROVE  Calm'
<1>1. \A k \in 0 .. 1 : Level(buf[k], context) /\ Sound(buf[k])
  BY DEF Calm, BufInv
<1>2. CASE Lock
  <2>1. PICK k \in Buffers, write \in BOOLEAN :
          buf' = [buf EXCEPT ![k] = IF write THEN Unknown(ReadyAll(@)) ELSE ReadyAll(@)]
    BY <1>2 DEF Lock
  <2> DEFINE r == ReadyAll(buf[k])
             w == IF write THEN Unknown(r) ELSE r
  <2>2. k \in 0 .. 1 /\ Level(r, context)
    BY <1>1, BufferIndex, LevelReady
  <2>3. buf' = [buf EXCEPT ![k] = w]
    BY <2>1
  <2> HIDE DEF r
  <2>4. Level(w, context)
    BY <2>2, SameLevel
  <2> HIDE DEF w
  <2> QED
    BY <2>2, <2>3, <2>4, CalmOne
<1>3. CASE WriteLocked
  <2>1. PICK i \in DOMAIN locks, c \in Colours :
          locks[i].write /\ buf' = [buf EXCEPT ![locks[i].k] = Paint(@, Area(locks[i].r), c)]
    BY <1>3 DEF WriteLocked
  <2> DEFINE k == locks[i].k
             w == Paint(buf[k], Area(locks[i].r), c)
  <2>2. k \in 0 .. 1 /\ buf[k].known = FALSE
    BY <2>1, BufferIndex DEF BufInv
  <2>3. buf' = [buf EXCEPT ![k] = w]
    BY <2>1
  <2> HIDE DEF k
  <2>4. Level(w, context)
    BY <1>1, <2>2, SameLevel
  <2> HIDE DEF w
  <2> QED
    BY <2>2, <2>3, <2>4, CalmOne
<1>4. CASE Record
  <2>1. PICK k \in Buffers, t \in Tris : IF k = front THEN RecordShown(k, t) ELSE RecordHidden(k, t)
    BY <1>4 DEF Record, Triangle
  <2> DEFINE b == IF Len(buf[k].tris) = TrisMax THEN TrisToRam(buf[k]) ELSE buf[k]
             x == TriRam(buf[k], t)
             y == [b EXCEPT !.tris = Append(@, t)]
  <2>2. k \in 0 .. 1 /\ context
    BY <1>4, BufferIndex DEF Record, Triangle
  <2>3. Level(x, context)
    BY <1>1, <2>2, LevelTri
  <2>4. Level(y, context)
    <3>1. Level(b, context)
      BY <1>1, <2>2, LevelReady
    <3> HIDE DEF b
    <3> DEFINE tris == Append(b.tris, t)
    <3>2. tris \in Seq(Tris) /\ b \in BufType
      BY <3>1 DEF Level, Fits, BufType
    <3> HIDE DEF tris
    <3> DEFINE z == [b EXCEPT !.tris = tris]
    <3>3. z \in BufType /\ z.known = b.known /\ z.filled = b.filled /\ z.colour = b.colour
          /\ z.d = b.d /\ z.ram = b.ram
      BY <3>2 DEF BufType
    <3> HIDE DEF z
    <3>4. Level(z, context)
      BY <2>2, <3>1, <3>3 DEF Level, Fits, Settled
    <3> QED
      BY <3>4 DEF z, tris
  <2>5. PICK w \in {x, y} : buf' = [buf EXCEPT ![k] = w]
    BY <2>1 DEF RecordShown, RecordHidden, OnHidden
  <2> HIDE DEF x, y
  <2> QED
    BY <2>2, <2>3, <2>4, <2>5, CalmOne
<1>5. CASE Gdi /\ ~live
  <2>1. PICK a \in GdiBoxes, c \in Colours : buf' = [buf EXCEPT ![0] = Paint(@, Area(a), c)]
    BY <1>5 DEF Gdi
  <2> DEFINE w == Paint(buf[0], Area(a), c)
  <2>2. 0 \in 0 .. 1 /\ buf[0].known = FALSE /\ Level(buf[0], context)
    BY <1>1, <1>5 DEF AloneInv
  <2>3. Level(w, context) /\ buf' = [buf EXCEPT ![0] = w]
    BY <2>1, <2>2, SameLevel
  <2> HIDE DEF w
  <2> QED
    BY <2>2, <2>3, CalmOne
<1> QED
  BY <1>2, <1>3, <1>4, <1>5

(* the pair made and given up,                                             *)
LEMMA CalmPair ==
  ASSUME Calm, Create16 \/ Destroy16
  PROVE  Calm'
<1>0. \A k \in 0 .. 1 : Level(buf[k], context)
  BY DEF Calm
<1>1. CASE Create16
  <2>1. buf' = [k \in 0 .. 1 |-> Cleared(buf[k], Black)] /\ context' = context
    BY <1>1 DEF Create16, progVars
  <2>2. \A k \in 0 .. 1 : Level(Cleared(buf[k], Black), context)
    BY <1>0, SameLevel, ColourAssumption
  <2> QED
    BY <2>1, <2>2 DEF Calm
<1>2. CASE Destroy16
  <2> DEFINE B == [buf EXCEPT ![0] = ReadyAll(@)]
             W(b) == [Unknown(b) EXCEPT !.tris = << >>]
  <2>1. buf' = [k \in 0 .. 1 |-> W(B[k])] /\ context' = FALSE
    BY <1>2 DEF Destroy16
  <2>2. \A k \in 0 .. 1 : Level(B[k], context)
    BY <1>0, LevelReady DEF Calm
  <2> HIDE DEF B
  <2>3. ASSUME NEW b, Level(b, context) PROVE Level(W(b), FALSE)
    <3> DEFINE u == Unknown(b)
    <3>1. Level(u, context)
      BY <2>3, SameLevel
    <3> HIDE DEF u
    <3> DEFINE w == [u EXCEPT !.tris = << >>]
    <3>2. Level(w, context)
      BY <3>1, SameLevel
    <3>3. w.tris = << >>
      BY <3>1 DEF Level, Fits, BufType
    <3> HIDE DEF w
    <3>4. Level(w, FALSE)
      BY <3>2, <3>3 DEF Level
    <3> QED
      BY <3>4 DEF w, u
  <2> HIDE DEF W
  <2>4. DOMAIN buf' = 0 .. 1 /\ \A k \in 0 .. 1 : Level(buf'[k], context')
    BY <2>1, <2>2, <2>3
  <2> QED
    BY <2>4 DEF Calm
<1> QED
  BY <1>1, <1>2

(* GDI beside the pair, or a context that ends on it, breaks the promise.  *)
Interferes == ContextEnd \/ (Gdi /\ (live \/ locks # << >>))

LEMMA CalmStep ==
  ASSUME Calm, BufInv, AloneInv, Next, ~Interferes
  PROVE  Calm'
<1>1. \A B : OnShown(B) \/ OnHidden(B) => UNCHANGED context
  BY DEF OnShown, OnHidden, progVars
<1>2. CASE \E k \in Buffers, a \in Boxes, c \in Colours : BltFill(k, a, c)
  BY <1>1, <1>2, CalmFill DEF BltFill, FillShown, FillHidden
<1>3. CASE BltCopy
  <2>1. \A k, a, s, src, m, keyed :
          CopyShown(k, a, s, src, m, keyed) \/ CopyHidden(k, a, s, src, m, keyed)
             => UNCHANGED context
    BY <1>1 DEF CopyShown, CopyHidden
  <2>2. UNCHANGED context
    BY <1>3, <2>1 DEF BltCopy
  <2> QED
    BY <1>3, <2>2, CalmCopy
<1>4. CASE BltSelf
  <2>1. UNCHANGED context
    BY <1>1, <1>4 DEF BltSelf
  <2> QED
    BY <1>4, <2>1, CalmSelf
<1>5. CASE \E k, s \in Buffers, a \in Boxes, c \in Colours : BltOwn(k, s, a, c)
  <2>1. UNCHANGED context
    BY <1>1, <1>5 DEF BltOwn, progVars
  <2> QED
    BY <1>5, <2>1, CalmOwn
<1>6. CASE Lock \/ WriteLocked \/ Record \/ (Gdi /\ ~live)
  <2>1. UNCHANGED context
    BY <1>1, <1>6 DEF Lock, WriteLocked, Record, Triangle, RecordShown, RecordHidden, Gdi, progVars
  <2> QED
    BY <1>6, <2>1, CalmDraw
<1>7. CASE Unlock \/ Flip
  <2>1. UNCHANGED <<buf, context>>
    BY <1>7 DEF Unlock, Flip, progVars
  <2> QED
    BY <2>1 DEF Calm
<1>8. CASE ContextCreate
  <2>1. buf' = buf /\ context' = TRUE
    BY <1>8 DEF ContextCreate
  <2> QED
    BY <2>1 DEF Calm, Level
<1>9. CASE Create16 \/ Destroy16
  BY <1>9, CalmPair
<1> QED
  BY <1>2, <1>3, <1>4, <1>5, <1>6, <1>7, <1>8, <1>9 DEF Next, Interferes

(* A lapse is noted with what else is drawn, and without a context there   *)
(* is nothing of the engine's on the card.                                 *)
DirectInv == lapse \/ Locked => direct # "no"

DrawnNone == live /\ ~context => drawn = << >>

(* What is drawn: on the hidden buffer unseen, on the shown one noted.     *)
Draws(k) ==
  /\ locks = << >> /\ UNCHANGED <<front, live, locks, context, drawn, page, page1>>
  /\ k # front => UNCHANGED <<card, lapse, direct>>
  /\ k = front => direct' # "no" /\ (lapse => lapse')
  /\ \A j \in 0 .. 1 : j # k => want'[j] = want[j]

LEMMA DrawsOne ==
  ASSUME BufInv,
         \/ \E k \in Buffers, a \in Boxes, c \in Colours : BltFill(k, a, c)
         \/ BltCopy \/ BltSelf
         \/ \E k, s \in Buffers, a \in Boxes, c \in Colours : BltOwn(k, s, a, c)
         \/ Record
  PROVE  \E k \in Buffers : Draws(k)
<1> DEFINE Still == UNCHANGED <<front, live, locks, context, drawn, page, page1>>
           On(k) == /\ Still /\ (k # front => UNCHANGED <<card, lapse, direct>>)
                    /\ k = front => direct' # "no" /\ (lapse => lapse')
<1>1. \A B : /\ OnShown(B) => Still /\ direct' # "no" /\ (lapse => lapse')
             /\ OnHidden(B) => Still /\ UNCHANGED <<card, lapse, direct>>
  BY DEF OnShown, OnHidden, cardVars, bookVars, pageVars, progVars
<1>2. \A k, e : want' = [want EXCEPT ![k] = e] => \A j \in 0 .. 1 : j # k => want'[j] = want[j]
  BY DEF BufInv
<1>3. ASSUME NEW k \in Buffers, NEW a \in Boxes, NEW c \in Colours, BltFill(k, a, c)
      PROVE  Draws(k)
  <2>1. On(k)
    BY <1>1, <1>3 DEF BltFill, FillShown, FillHidden
  <2> QED
    BY <1>2, <1>3, <2>1 DEF BltFill, Draws
<1>4. ASSUME BltCopy PROVE \E k \in Buffers : Draws(k)
  <2>1. \A k, a, s, src, m, keyed :
          /\ CopyShown(k, a, s, src, m, keyed) => Still /\ direct' # "no" /\ (lapse => lapse')
          /\ CopyHidden(k, a, s, src, m, keyed) => Still /\ UNCHANGED <<card, lapse, direct>>
    BY <1>1 DEF CopyShown, CopyHidden
  <2>2. PICK k \in Buffers : On(k) /\ \E e : want' = [want EXCEPT ![k] = e]
    BY <1>4, <2>1 DEF BltCopy
  <2> QED
    BY <1>2, <1>4, <2>2 DEF BltCopy, Draws
<1>5. ASSUME BltSelf PROVE \E k \in Buffers : Draws(k)
  <2>1. PICK k \in Buffers, a \in Boxes, m \in Moves :
          /\ \E B : IF k = front THEN OnShown(B) ELSE OnHidden(B)
          /\ want' = [want EXCEPT ![k] = Taken(@, @, a, m, FALSE)]
    BY ZenonT(60), <1>5 DEF BltSelf
  <2>2. On(k)
    BY <1>1, <2>1
  <2> QED
    BY <1>2, <1>5, <2>1, <2>2 DEF BltSelf, Draws
<1>6. ASSUME NEW k \in Buffers, NEW s \in Buffers, NEW a \in Boxes, NEW c \in Colours,
             BltOwn(k, s, a, c)
      PROVE  Draws(k)
  <2>1. On(k)
    BY <1>1, <1>6 DEF BltOwn, cardVars, pageVars, progVars
  <2> QED
    BY <1>2, <1>6, <2>1 DEF BltOwn, Draws
<1>7. ASSUME Record PROVE \E k \in Buffers : Draws(k)
  <2>1. PICK k \in Buffers : On(k) /\ \E e : want' = [want EXCEPT ![k] = e]
    BY ZenonT(60), <1>1, <1>7 DEF Record, Triangle, RecordShown, RecordHidden, pageVars, progVars
  <2> QED
    BY <1>2, <1>7, <2>1 DEF Record, Triangle, Draws
<1> QED
  BY <1>3, <1>4, <1>5, <1>6, <1>7

(* An engine that never gives up draws what a Flip gives it.               *)
LEMMA FlipWhole ==
  ASSUME Frame, Calm, DirectInv, DrawnNone, Flip, ~EngineFails
  PROVE  ~lapse' /\ direct' = "no" /\ (live' /\ ~context' => drawn' = << >>)
<1> DEFINE k == 1 - front
<1>1. live /\ ~Undrawn /\ context' = context
  BY DEF Flip, Undrawn, DirectInv, progVars
<1>2. buf[k].tris \in Seq(Tris) /\ (context \/ (buf[k].tris = << >> /\ drawn = << >>))
  <2>1. BufInv /\ k \in 0 .. 1
    BY BufferIndex DEF Frame, Sides, BufInv
  <2>2. k \in Buffers
    BY <1>1, <2>1 DEF BufInv, Buffers
  <2> QED
    BY <1>1, <2>1, <2>2 DEF Calm, Level, DrawnNone, BufInv, BufType
<1>3. FlipFast(k) \/ FlipSlow(k)
  BY DEF Flip
<1> HIDE DEF k
<1>4. /\ \A px, erase : \A o \in Replays(px, erase, buf[k].tris) : context => o.ok
      /\ \A px : \A o \in Atop(px, buf[k].tris) : o.ok
  <2>1. \A px, erase : \A o \in Replays(px, erase, buf[k].tris) : context => o.ok
    BY Drew
  <2>2. ASSUME NEW px, NEW o \in Atop(px, buf[k].tris) PROVE o.ok
    BY <1>2, <2>1, <2>2 DEF Atop
  <2> QED
    BY <2>1, <2>2
<1>5. CASE FlipSlow(k)
  <2>1. ~lapse' /\ direct' = "no" /\ drawn' = buf[k].tris
    BY <1>1, <1>4, <1>5 DEF FlipSlow
  <2> QED
    BY <1>1, <1>2, <2>1
<1>6. CASE FlipFast(k)
  <2>1. CASE context
    <3>1. CASE PageFrame(k)
      <4>1. Noted(k, TRUE)
        BY <1>4, <2>1, <3>1 DEF PageFrame
      <4> QED
        BY <1>1, <2>1, <4>1 DEF Noted
    <3>2. CASE OneFrame(k)
      <4>1. Noted(k, TRUE)
        BY <1>4, <2>1, <3>2 DEF OneFrame, Noted
      <4> QED
        BY <1>1, <2>1, <4>1 DEF Noted
    <3> QED
      BY <1>1, <1>6, <2>1, <3>1, <3>2 DEF FlipFast, PageUncleared, Noted
  <2>2. CASE ~context
    <3>1. Noted(k, TRUE) /\ drawn' = << >>
      BY <1>2, <1>6, <2>2 DEF FlipFast, Noted
    <3> QED
      BY <1>1, <3>1 DEF Noted
  <2> QED
    BY <2>1, <2>2
<1> QED
  BY <1>3, <1>5, <1>6

(* What a step leaves of a lapse, and of the engine's triangles.           *)
LEMMA NotedStep ==
  ASSUME Alone, ~EngineFails, Frame, Calm, DirectInv, DrawnNone, Next, ~Interferes
  PROVE  DirectInv' /\ DrawnNone'
<1>1. BufInv /\ BookInv /\ LockInv /\ (~live => front = 0)
  BY DEF Frame, Sides, BufInv, Buffers
<1>2. ASSUME NEW k, Draws(k) PROVE DirectInv' /\ DrawnNone'
  <2>1. ~Locked' /\ ~Locked
    BY <1>2 DEF Draws, Locked
  <2> QED
    BY <1>2, <2>1 DEF Draws, DirectInv, DrawnNone
<1>3. CASE Lock
  <2>1. /\ UNCHANGED <<live, context, drawn, front>>
        /\ direct' # "no" \/ UNCHANGED <<lapse, direct>>
    BY <1>3 DEF Lock
  <2>2. PICK k \in Buffers, r \in LockBoxes, write \in BOOLEAN :
          /\ locks' = Append(locks, [k |-> k, r |-> r, write |-> write])
          /\ write /\ k = front => direct' # "no"
    BY <1>3 DEF Lock
  <2>3. Locked' <=> write /\ k = front
    BY <1>1, <1>3, <2>1, <2>2, LockTaken DEF Frame, Sides, Lock
  <2> QED
    BY <2>1, <2>2, <2>3 DEF DirectInv, DrawnNone
<1>4. CASE WriteLocked \/ ContextCreate
  <2>1. UNCHANGED <<lapse, direct, locks, front, live, drawn>> /\ (context => context')
    BY <1>4 DEF WriteLocked, ContextCreate, bookVars, progVars
  <2>2. Locked' = Locked
    BY <2>1 DEF Locked
  <2> QED
    BY <2>1, <2>2 DEF DirectInv, DrawnNone
<1>5. CASE Unlock
  <2>1. UNCHANGED <<live, context, drawn, direct, front>>
    BY <1>5 DEF Unlock, bookVars
  <2>2. PICK i \in DOMAIN locks : locks' = RemoveAt(locks, i)
    BY <1>5 DEF Unlock
  <2>3. ~Locked'
    BY <1>1, <2>2, OneLock DEF Locked
  <2>4. Locked \/ lapse' = lapse
    BY <1>1, <1>5 DEF LockInv, Unlock, Kept, Free
  <2> QED
    BY <2>1, <2>3, <2>4 DEF DirectInv, DrawnNone
<1>6. CASE Flip
  <2>1. ~Locked'
    BY <1>6 DEF Flip, Locked, progVars
  <2> QED
    BY <1>6, <2>1, FlipWhole DEF DirectInv, DrawnNone
<1>7. CASE Gdi /\ ~live /\ locks = << >>
  BY <1>7 DEF Gdi, bookVars, progVars, DirectInv, DrawnNone, Locked
<1>8. CASE Create16 \/ Destroy16
  BY <1>8 DEF Create16, Destroy16, progVars, DirectInv, DrawnNone, Locked
<1> QED
  BY <1>1, <1>2, <1>3, <1>4, <1>5, <1>6, <1>7, <1>8, DrawsOne DEF Next, Interferes

(* A calm buffer with no lapse is the screen.                              *)
LEMMA Imaged ==
  ASSUME NEW b \in BufType, Settled(b), NEW s,
         \A p \in Pixels : \/ s[p] = Shown(p, Meaning(b)[p])
                           \/ b.filled /\ s[p] = Shown(p, Stands(b, FALSE)[p])
  PROVE  [p \in Pixels |-> s[p]] = Promise!Image(Meaning(b))
  BY SettledMeans DEF Promise!Image

LEMMA ImagedNext ==
  ASSUME Frame', Calm', ~lapse', ~Locked'
  PROVE  Visible' = Promise!Image(want'[front'])
<1> DEFINE b == buf'[front']
           s == Screened'
<1>1. /\ b \in BufType /\ Settled(b) /\ want'[front'] = Meaning(b)
      /\ front' \in 0 .. 1
  BY DEF Frame, Sides, Stand, BufInv, Buffers, Calm, Level
<1>2. \A p \in Pixels : ShownAt(p)'
  BY DEF Frame, ShownInv, Exempt
<1>3. \A p \in Pixels : \/ s[p] = Shown(p, Meaning(b)[p])
                        \/ b.filled /\ s[p] = Shown(p, Stands(b, FALSE)[p])
  BY <1>1, <1>2 DEF ShownAt
<1> HIDE DEF b, s
<1>4. [p \in Pixels |-> s[p]] = Promise!Image(Meaning(b))
  BY <1>1, <1>3, Imaged
<1> QED
  BY <1>1, <1>4 DEF Visible, b, s

(* Each step is one of the abstract program's, or nothing of it.           *)
LEMMA BuffersStep ==
  ASSUME Alone, ~EngineFails, Frame, Frame', Calm, Calm', DirectInv, DrawnNone, Next, ~Interferes
  PROVE  [Promise!Next]_(Promise!vars)
<1> DEFINE Shot == lapse' \/ Visible' = Promise!Image(want'[front'])
<1> USE DEF Promise!Next, Promise!vars
<1>1. /\ BufInv /\ BookInv /\ LockInv /\ CardInv /\ AloneInv /\ front \in 0 .. 1
      /\ ~live => front = 0
  BY DEF Frame, Sides, BufInv, Buffers
<1>2. ~Locked' => Shot
  BY ImagedNext
<1>3. /\ UNCHANGED <<card, page, page1>> => Visible' = Visible
      /\ UNCHANGED <<locks, front>> \/ (~Locked /\ ~Locked') => Locked' = Locked
      /\ Locked' \in BOOLEAN
  BY DEF Visible, Screened, Locked
<1> HIDE DEF Shot
<1>4. ASSUME NEW k \in Buffers, Draws(k) PROVE Promise!DrawHidden \/ Promise!DrawShown
  <2>1. ~Locked /\ ~Locked' /\ front' = front /\ k \in 0 .. 1
    BY <1>4, BufferIndex DEF Draws, Locked
  <2>2. CASE k # front
    BY <1>1, <1>3, <1>4, <2>1, <2>2 DEF Draws, Promise!DrawHidden
  <2>3. CASE k = front
    <3>1. 1 - front \in 0 .. 1 /\ 1 - front # front
      BY <1>1
    <3>2. want'[1 - front] = want[1 - front] /\ (lapse => lapse')
      BY <1>4, <2>3, <3>1 DEF Draws
    <3> QED
      BY <1>2, <1>3, <2>1, <2>3, <3>2 DEF Shot, Promise!DrawShown, Promise!Shows
  <2> QED
    BY <2>2, <2>3
<1>5. CASE Lock
  <2>1. /\ UNCHANGED <<want, front, card, page, page1>> /\ Len(locks) < MaxLocks
    BY <1>5 DEF Lock, cardVars, pageVars
  <2>2. PICK k \in Buffers, r \in LockBoxes, write \in BOOLEAN :
          /\ locks' = Append(locks, [k |-> k, r |-> r, write |-> write])
          /\ (write /\ k = front) \/ lapse' = lapse
    BY <1>5 DEF Lock
  <2>3. locks = << >> /\ (Locked' <=> write /\ k = front)
    BY <1>1, <2>1, <2>2, LockTaken DEF Frame, Sides
  <2>4. ~Locked /\ (lapse => lapse')
    BY <1>5, <2>3 DEF Locked, Lock
  <2> QED
    BY <1>3, <2>1, <2>2, <2>3, <2>4 DEF Promise!Lock
<1>6. CASE WriteLocked
  <2>1. UNCHANGED <<front, card, page, page1, lapse, locks>>
    BY <1>6 DEF WriteLocked, cardVars, pageVars, progVars
  <2>2. Visible' = Visible /\ Locked' = Locked
    BY <1>3, <2>1
  <2>3. PICK i \in DOMAIN locks, c \in Colours :
          locks[i].write /\ want' = [want EXCEPT ![locks[i].k] = Over(@, Area(locks[i].r), c)]
    BY <1>6 DEF WriteLocked
  <2>4. CASE locks[i].k = front
    BY <1>1, <2>1, <2>2, <2>3, <2>4 DEF Locked, BufInv, Promise!WriteLocked
  <2>5. CASE locks[i].k # front
    BY <1>1, <2>1, <2>2, <2>3, <2>5 DEF BufInv, Promise!DrawHidden
  <2> QED
    BY <2>4, <2>5
<1>7. CASE Unlock
  <2>1. UNCHANGED <<front, page, page1, want>> /\ (lapse => lapse')
    BY <1>7 DEF Unlock, pageVars
  <2>2. PICK i \in DOMAIN locks : locks' = RemoveAt(locks, i)
    BY <1>7 DEF Unlock
  <2>3. ~Locked'
    BY <1>1, <2>2, OneLock DEF Locked
  <2>4. Locked \/ UNCHANGED <<card, lapse>>
    BY <1>1, <1>7 DEF LockInv, Unlock, Kept, Free
  <2>5. CASE Locked
    BY <1>2, <1>3, <2>1, <2>3, <2>5 DEF Shot, Promise!Unlock, Promise!Shows
  <2>6. CASE ~Locked
    BY <1>3, <2>1, <2>3, <2>4, <2>6
  <2> QED
    BY <2>5, <2>6
<1>8. CASE ContextCreate
  <2>1. UNCHANGED <<want, front, card, page, page1, locks, lapse>>
    BY <1>8 DEF ContextCreate, cardVars, pageVars
  <2> QED
    BY <1>3, <2>1
<1>9. CASE Flip
  <2>1. locks = << >> /\ locks' = locks /\ front' = 1 - front /\ want' = want
    BY <1>9 DEF Flip, progVars
  <2>2. ~Locked /\ ~Locked' /\ lapse' = FALSE
    BY <1>9, <2>1, FlipWhole DEF Locked, Frame, Sides, BookInv, BookFlags
  <2> QED
    BY <1>2, <1>3, <2>1, <2>2 DEF Shot, Promise!Flip
<1>10. CASE Gdi /\ ~live /\ locks = << >>
  <2>0. /\ UNCHANGED <<front, locks>> /\ (lapse => lapse')
        /\ \E e : want' = [want EXCEPT ![0] = e]
    BY <1>10 DEF Gdi, progVars
  <2>1. front = 0 /\ UNCHANGED <<front, locks>> /\ (lapse => lapse') /\ want'[1] = want[1]
    BY <1>1, <1>10, <2>0 DEF BufInv
  <2>2. ~Locked /\ ~Locked'
    BY <1>10, <2>1 DEF Locked
  <2> QED
    BY <1>2, <1>3, <2>1, <2>2 DEF Shot, Promise!DrawShown, Promise!Shows
<1>11. CASE Create16
  <2>1. /\ front' = 0 /\ lapse' = TRUE /\ locks = << >> /\ UNCHANGED <<page, page1, locks>>
        /\ ~live
    BY <1>11 DEF Create16, pageVars, progVars
  <2>2. card' = card
    BY <1>1, <1>11, CreateKeeps
  <2> QED
    BY <1>3, <2>1, <2>2 DEF Locked, Promise!Create
<1>12. CASE Destroy16
  <2>1. /\ front' = 0 /\ lapse' = FALSE /\ locks = << >> /\ locks' = locks /\ want'[0] = want[0]
    BY <1>1, <1>12 DEF Destroy16, BufInv
  <2>2. ~Locked /\ ~Locked'
    BY <2>1 DEF Locked
  <2> QED
    BY <1>2, <1>3, <2>1, <2>2 DEF Shot, Promise!Destroy
<1> QED
  BY <1>1, <1>4, <1>5, <1>6, <1>7, <1>8, <1>9, <1>10, <1>11, <1>12, DrawsOne DEF Next, Interferes

(* What holds as the driver starts: both buffers are RAM, and on screen.   *)
LEMMA BuffersInit == Init => Calm /\ DirectInv /\ DrawnNone /\ Promise!Init
<1> SUFFICES ASSUME Init PROVE Calm /\ DirectInv /\ DrawnNone /\ Promise!Init
  OBVIOUS
<1>1. Frame
  BY FrameInit
<1>2. front = 0 /\ ~live /\ ~lapse /\ direct = "no" /\ ~Locked
  BY DEF Init, Locked
<1>3. BufInv /\ \A k \in 0 .. 1 : buf[k].known = FALSE /\ buf[k].tris = << >>
  BY <1>1 DEF Init, Frame, Sides
<1>4. Calm /\ DirectInv /\ DrawnNone
  BY <1>2, <1>3 DEF Calm, Level, Settled, DirectInv, DrawnNone, BufInv, Sound
<1> DEFINE b == buf[0]
           s == Screened
<1>5. /\ b \in BufType /\ Settled(b) /\ want[0] = Meaning(b)
      /\ \A p \in Pixels : \/ s[p] = Shown(p, Meaning(b)[p])
                           \/ b.filled /\ s[p] = Shown(p, Stands(b, FALSE)[p])
  BY <1>1, <1>2, <1>3, BufferIndex DEF Frame, Sides, Stand, BufInv, Settled, ShownInv, ShownAt, Exempt
<1> HIDE DEF b, s
<1>6. [p \in Pixels |-> s[p]] = Promise!Image(Meaning(b))
  BY <1>5, Imaged
<1>7. Visible = Promise!Image(want[0])
  BY <1>5, <1>6 DEF Visible, s
<1> QED
  BY <1>2, <1>3, <1>4, <1>7 DEF Promise!Init, BufInv

(* The two buffers, with their descriptions, batches, triangles and pages, *)
(* keep what DirectDraw promises (m8dd32.c:545, :553): under FrontStays'   *)
(* hypotheses, where GDI draws beside no pair, no 3D context ends but with *)
(* its pair and the engine never gives a frame up.                         *)
THEOREM BuffersKept ==
  ASSUME Named(Aligned(SegW)), MaxLocks <= 1, ~EngineFails
  PROVE  Spec /\ [][~UnderTriangle]_vars /\ [][~Interferes]_vars => ImplementsBuffers
<1> DEFINE Calmly == Frame /\ Calm /\ DirectInv /\ DrawnNone
<1>1. Init => Calmly /\ Promise!Init
  BY FrameInit, BuffersInit
<1>2. Calmly /\ [Next]_vars /\ [~UnderTriangle]_vars /\ [~Interferes]_vars
        => Calmly' /\ [Promise!Next]_(Promise!vars)
  <2> SUFFICES ASSUME Frame, Calm, DirectInv, DrawnNone, [Next]_vars, [~UnderTriangle]_vars,
                      [~Interferes]_vars
               PROVE  Calmly' /\ [Promise!Next]_(Promise!vars)
    OBVIOUS
  <2>1. CASE UNCHANGED vars
    <3>1. UNCHANGED <<buf, front, live, card, drawn, context, page, page1, locks, direct, lapse, want>>
      BY <2>1 DEF vars, cardVars, bookVars, pageVars, progVars
    <3>2. Frame'
      BY <2>1, FrameSame
    <3>3. Calm' /\ DirectInv' /\ DrawnNone' /\ UNCHANGED <<Visible, Locked>>
      BY <3>1 DEF Calm, DirectInv, DrawnNone, Visible, Screened, Locked
    <3> QED
      BY <3>1, <3>2, <3>3 DEF Promise!vars
  <2>2. CASE Next /\ ~UnderTriangle /\ ~Interferes
    <3>1. BufInv /\ AloneInv /\ front \in 0 .. 1
      BY DEF Frame, Sides, BufInv, Buffers
    <3>2. ~Strayed(buf[front])
      BY <3>1, SettledMeans DEF Calm, Level, Fits, Strayed
    <3>3. Frame'
      BY <2>2, <3>2, FrameStep DEF Alone, StrayTriangles
    <3>4. Calm' /\ DirectInv' /\ DrawnNone'
      BY <2>2, <3>1, CalmStep, NotedStep DEF Alone
    <3> QED
      BY <2>2, <3>3, <3>4, BuffersStep DEF Alone
  <2> QED
    BY <2>1, <2>2
<1> QED
  BY <1>1, <1>2, PTL DEF Spec, ImplementsBuffers, Promise!Spec

=============================================================================
