----------------------------- MODULE Fb16Proofs -----------------------------
(***************************************************************************)
(* Theorems about Fb16: GDI's drawing reaches the card and the             *)
(* fingerprints speak for it, for every geometry, set of calls and length  *)
(* of the dirty list.                                                      *)
(***************************************************************************)
EXTENDS Fb16, Fb16CardProofs

-----------------------------------------------------------------------------
(* The dirty list.                                                         *)

LEMMA JoinFacts ==
  ASSUME NEW a \in Rect, NEW n \in Rect
  PROVE  /\ Join(a, n) \in Rect
         /\ Area(a) \subseteq Area(Join(a, n)) /\ Area(n) \subseteq Area(Join(a, n))
<1> DEFINE j == Join(a, n)
<1>1. /\ j \in Rect /\ j.l <= a.l /\ j.l <= n.l /\ j.t <= a.t /\ j.t <= n.t
      /\ a.r <= j.r /\ n.r <= j.r /\ a.b <= j.b /\ n.b <= j.b
  BY DEF Join, Lower, Upper, Rect
<1> HIDE DEF j
<1>2. \A p \in Pixels : p[1] \in Int /\ p[2] \in Int
  BY PixelFacts
<1>3. ASSUME NEW x \in Rect, j.l <= x.l, j.t <= x.t, x.r <= j.r, x.b <= j.b
      PROVE  Area(x) \subseteq Area(j)
  BY <1>1, <1>2, <1>3 DEF Area, Rect
<1> QED
  BY <1>1, <1>3 DEF j

(* A full list too takes the new rectangle in and loses nothing.           *)
LEMMA AddFacts ==
  ASSUME NEW list \in Seq(Rect), Len(list) <= DirtyMax, NEW n \in Rect
  PROVE  /\ Add(list, n) \in Seq(Rect) /\ Len(Add(list, n)) <= DirtyMax
         /\ Cover(list) \cup Area(n) \subseteq Cover(Add(list, n))
<1> DEFINE Near == {k \in DOMAIN list : Touches(n, list[k])}
           Host == IF Near # {} THEN Near
                   ELSE {k \in DOMAIN list : \A j \in DOMAIN list :
                                                Growth(list[k], n) <= Growth(list[j], n)}
           At   == CHOOSE k \in Host : \A j \in Host : k <= j
<1>1. DOMAIN list = 1 .. Len(list) /\ Len(list) \in Nat
      /\ \A k \in DOMAIN list : list[k] \in Rect
  OBVIOUS
<1>2. CASE Near = {} /\ Len(list) < DirtyMax
  <2>1. Add(list, n) = Append(list, n)
    BY <1>2 DEF Add
  <2>2. \A k \in DOMAIN list : Append(list, n)[k] = list[k] /\ k \in DOMAIN Append(list, n)
    BY <1>1
  <2>3. Append(list, n)[Len(list) + 1] = n /\ Len(list) + 1 \in DOMAIN Append(list, n)
    BY <1>1
  <2>4. Len(Append(list, n)) <= DirtyMax /\ Append(list, n) \in Seq(Rect)
    BY <1>1, <1>2, CallAssumption
  <2> QED
    BY <2>1, <2>2, <2>3, <2>4 DEF Cover
<1>3. CASE ~(Near = {} /\ Len(list) < DirtyMax)
  <2>1. Host # {} /\ Host \subseteq DOMAIN list
    <3>1. CASE Near # {}
      BY <3>1
    <3>2. CASE Near = {}
      <4>1. Len(list) \in Nat \ {0}
        BY <1>1, <1>3, <3>2, CallAssumption
      <4> DEFINE g == [k \in 1 .. Len(list) |-> Growth(list[k], n)]
      <4>2. g \in [1 .. Len(list) -> Int]
        <5>1. ASSUME NEW d \in Rect
              PROVE  Growth(d, n) \in Int
          <6>1. Join(d, n) \in Rect
            BY JoinFacts
          <6>2. \A x \in Rect : Size(x) \in Int
            BY DEF Size, Rect
          <6> QED
            BY <6>1, <6>2 DEF Growth
        <5> QED
          BY <1>1, <5>1
      <4>3. PICK k \in 1 .. Len(list) : \A j \in 1 .. Len(list) : g[k] <= g[j]
        <5> HIDE DEF g
        <5> QED
          BY <4>1, <4>2, LeastIndex
      <4>4. k \in Host
        BY <1>1, <3>2, <4>3
      <4> QED
        BY <3>2, <4>4
    <3> QED
      BY <3>1, <3>2
  <2>2. \E k \in Host : \A j \in Host : k <= j
    <3> HIDE DEF Host
    <3>1. Host \subseteq Nat
      BY <1>1, <2>1
    <3> QED
      BY <2>1, <3>1, NatMin
  <2>3. At \in DOMAIN list
    <3> HIDE DEF Host
    <3> QED
      BY <2>1, <2>2
  <2>4. Add(list, n) = [list EXCEPT ![At] = Join(@, n)]
    BY <1>3 DEF Add
  <2> HIDE DEF At
  <2> DEFINE new == Add(list, n)
  <2>5. /\ DOMAIN new = DOMAIN list /\ new[At] = Join(list[At], n)
        /\ \A k \in DOMAIN list : k # At => new[k] = list[k]
    BY <2>3, <2>4
  <2>6. /\ Join(list[At], n) \in Rect
        /\ Area(list[At]) \subseteq Area(new[At]) /\ Area(n) \subseteq Area(new[At])
    BY <1>1, <2>3, <2>5, JoinFacts
  <2>7. new \in Seq(Rect) /\ Len(new) = Len(list)
    BY <1>1, <2>3, <2>4, <2>6
  <2>8. \A k \in DOMAIN list : Area(list[k]) \subseteq Area(new[k])
    BY <2>5, <2>6
  <2> HIDE DEF new
  <2>9. Cover(list) \cup Area(n) \subseteq Cover(new)
    BY <2>3, <2>5, <2>6, <2>8 DEF Cover
  <2> QED
    BY <2>7, <2>9 DEF new
<1> QED
  BY <1>2, <1>3

-----------------------------------------------------------------------------
(* The inductive invariant: what the runs check, and that a list is being  *)
(* flushed only when no call is open, that nothing is named then, and that *)
(* the list under way has no clash unless `shared' says so.                *)

IInv ==
  /\ TypeOK /\ IsCard(card)
  /\ ListBound /\ NamedIsDirty
  /\ queue # << >> => depth = 0
  /\ depth = 0 => named = {}
  /\ ~shared => ~Clash(queue)
  /\ OnlyPendingBehind /\ FingerprintsTrue

LEMMA InSyncIsSynced == \A p : InSync(p) <=> Synced(card, ram, p)
  BY DEF InSync, Synced

LEMMA DrawnFacts ==
  ASSUME TypeOK, NEW d \in Drawings
  PROVE  /\ Drawn(d) \in [Pixels -> Colours]
         /\ \A p \in Pixels : p \notin DOMAIN d => Drawn(d)[p] = ram[p]
  BY CallAssumption DEF Drawn, TypeOK

LEMMA IInvInit == Init => IInv
<1> SUFFICES ASSUME Init PROVE IInv
  OBVIOUS
<1> DEFINE blank == [px |-> ram, fp |-> [s \in Pieces |-> NoFp]]
<1>1. ram \in [Pixels -> Colours] /\ card = SendAll(blank, ram)
  BY ColourAssumption DEF Init
<1>2. IsCard(blank)
  BY <1>1 DEF IsCard
<1>3. IsCard(card) /\ \A p \in Pixels : Synced(card, ram, p) /\ Honest(card, p)
  <2> HIDE DEF blank
  <2> QED
    BY <1>1, <1>2, SendAllFacts
<1>4. TypeOK
  <2>1. /\ depth = 0 /\ dirty = << >> /\ queue = << >> /\ named = {}
        /\ away = FALSE /\ shared = FALSE
    BY DEF Init
  <2>2. << >> \in Seq(Rect)
    OBVIOUS
  <2> QED
    BY <1>1, <1>3, <2>1, <2>2 DEF TypeOK, IsCard
<1>5. OnlyPendingBehind /\ FingerprintsTrue
  BY <1>3, InSyncIsSynced DEF OnlyPendingBehind, FingerprintsTrue, Honest
<1>6. ~Clash(queue)
  BY DEF Init, Clash
<1>7. ListBound
  BY CallAssumption DEF Init, ListBound
<1>8. NamedIsDirty
  BY DEF Init, NamedIsDirty
<1> QED
  BY <1>3, <1>4, <1>5, <1>6, <1>7, <1>8 DEF Init, IInv

(* What a waiting list promises survives when RAM changes inside it only.  *)
LEMMA BehindGrows ==
  ASSUME OnlyPendingBehind, FingerprintsTrue, ~away' => ~away, ~shared' => ~shared, card' = card,
         NEW A, \A p \in Pixels : p \notin A => ram'[p] = ram[p],
         A \cup Cover(dirty) \cup Cover(queue) \subseteq Cover(dirty') \cup Cover(queue')
  PROVE  OnlyPendingBehind' /\ FingerprintsTrue'
<1>1. ASSUME ~away', ~shared', NEW p \in Pixels
      PROVE  InSync(p)' \/ p \in Cover(dirty') \cup Cover(queue')
  <2>1. InSync(p) \/ p \in Cover(dirty) \cup Cover(queue)
    BY <1>1 DEF OnlyPendingBehind
  <2>2. p \notin A /\ InSync(p) => InSync(p)'
    BY DEF InSync
  <2> QED
    BY <2>1, <2>2
<1> QED
  BY <1>1 DEF OnlyPendingBehind, FingerprintsTrue

LEMMA FlushAllFacts ==
  ASSUME NEW list, FlushAll(list)
  PROVE  /\ queue' = list /\ (~shared' => ~shared /\ ~Clash(queue'))
         /\ (shared \in BOOLEAN => shared' \in BOOLEAN)
  BY DEF FlushAll

LEMMA CoverEmpty == Cover(<< >>) = {}
  BY DEF Cover

LEMMA BeginKeeps == IInv /\ Begin => IInv'
<1> SUFFICES ASSUME IInv, Begin PROVE IInv'
  OBVIOUS
<1>1. PICK n \in Rect : BeginAccess(n)
  <2>1. \A n \in Boxes : n \in Rect
    BY CallAssumption
  <2>2. \A n \in Boxes, lim \in Limits : Meet(n, lim) \in Rect
    BY CallAssumption DEF Meet, Upper, Lower, Rect
  <2> QED
    BY <2>1, <2>2 DEF Begin
<1> USE <1>1 DEF BeginAccess
<1>2. dirty \in Seq(Rect) /\ Len(dirty) <= DirtyMax
  BY DEF IInv, TypeOK, ListBound
<1>3. /\ dirty' \in Seq(Rect) /\ Len(dirty') <= DirtyMax
      /\ Cover(dirty) \cup Area(n) \subseteq Cover(dirty')
  <2>1. CASE Hollow(n)
    <3>1. \A p \in Pixels : p[1] \in Int /\ p[2] \in Int
      BY PixelFacts
    <3>2. Area(n) = {}
      BY <2>1, <3>1 DEF Hollow, Area, Rect
    <3> QED
      BY <1>2, <2>1, <3>2
  <2>2. CASE ~Hollow(n)
    BY <1>2, <2>2, AddFacts
  <2> QED
    BY <2>1, <2>2
<1>4. depth' \in Nat /\ depth' # 0 /\ depth' = depth + 1
  BY DEF IInv, TypeOK
<1>5. Area(n) \subseteq Pixels
  BY DEF Area
<1>6. TypeOK' /\ IsCard(card)'
  BY <1>3, <1>4, <1>5 DEF IInv, TypeOK, IsCard
<1>7. ListBound' /\ NamedIsDirty'
  BY <1>3, <1>4 DEF IInv, ListBound, NamedIsDirty
<1>8. OnlyPendingBehind' /\ FingerprintsTrue'
  <2>1. {} \cup Cover(dirty) \cup Cover(queue) \subseteq Cover(dirty') \cup Cover(queue')
    BY <1>3
  <2>2. OnlyPendingBehind /\ FingerprintsTrue
    BY DEF IInv
  <2> QED
    BY <2>1, <2>2, BehindGrows
<1>9. Clash(queue)' = Clash(queue)
  BY DEF Clash
<1> QED
  BY <1>4, <1>6, <1>7, <1>8, <1>9 DEF IInv

LEMMA DrawKeeps == IInv /\ Draw => IInv'
<1> SUFFICES ASSUME IInv, Draw PROVE IInv'
  OBVIOUS
<1>1. PICK d \in Drawings : DOMAIN d \subseteq named /\ ram' = Drawn(d)
  BY DEF Draw
<1>2. /\ ram' \in [Pixels -> Colours]
      /\ \A p \in Pixels : p \notin DOMAIN d => ram'[p] = ram[p]
  BY <1>1, DrawnFacts DEF IInv
<1>3. UNCHANGED <<card, depth, dirty, queue, named, away, shared>>
  BY DEF Draw
<1>4. TypeOK' /\ IsCard(card)' /\ ListBound' /\ NamedIsDirty'
  BY <1>2, <1>3 DEF IInv, TypeOK, IsCard, ListBound, NamedIsDirty, Cover
<1>5. DOMAIN d \subseteq Cover(dirty)
  BY <1>1 DEF IInv, NamedIsDirty
<1>6. OnlyPendingBehind' /\ FingerprintsTrue'
  BY <1>2, <1>3, <1>5, BehindGrows DEF IInv
<1>7. Clash(queue)' = Clash(queue)
  BY <1>3 DEF Clash
<1> QED
  BY <1>3, <1>4, <1>6, <1>7 DEF IInv

LEMMA EndKeeps == IInv /\ EndAccess => IInv'
<1> SUFFICES ASSUME IInv, EndAccess PROVE IInv'
  OBVIOUS
<1> USE DEF EndAccess
<1>1. depth \in Nat /\ depth > 0 /\ depth' = depth - 1 /\ depth' \in Nat /\ queue = << >>
  BY DEF IInv, TypeOK
<1>2. CASE depth = 1
  <2>1. dirty' = << >> /\ named' = {} /\ queue' = dirty
        /\ (~shared' => ~shared /\ ~Clash(queue')) /\ shared' \in BOOLEAN
    BY <1>2, FlushAllFacts DEF IInv, TypeOK
  <2>2. TypeOK' /\ IsCard(card)' /\ ListBound' /\ NamedIsDirty'
    BY <1>1, <2>1, CallAssumption
    DEF IInv, TypeOK, IsCard, ListBound, NamedIsDirty, Cover
  <2>3. {} \cup Cover(dirty) \cup Cover(queue) \subseteq Cover(dirty') \cup Cover(queue')
    BY <1>1, <2>1, CoverEmpty
  <2>0. OnlyPendingBehind /\ FingerprintsTrue /\ UNCHANGED <<ram, card, away>>
    BY DEF IInv
  <2>4. OnlyPendingBehind' /\ FingerprintsTrue'
    BY <2>0, <2>1, <2>3, BehindGrows
  <2>5. depth' = 0
    BY <1>1, <1>2
  <2>6. ~shared' => ~Clash(queue)'
    BY <2>1 DEF Clash
  <2> QED
    BY <2>1, <2>2, <2>4, <2>5, <2>6 DEF IInv
<1>3. CASE depth # 1
  <2>1. UNCHANGED <<ram, card, away, dirty, queue, named, shared>> /\ depth' # 0
    BY <1>1, <1>3
  <2>2. TypeOK' /\ IsCard(card)' /\ ListBound' /\ NamedIsDirty'
    BY <1>1, <2>1 DEF IInv, TypeOK, IsCard, ListBound, NamedIsDirty, Cover
  <2>3. {} \cup Cover(dirty) \cup Cover(queue) \subseteq Cover(dirty') \cup Cover(queue')
    BY <2>1
  <2>4. OnlyPendingBehind' /\ FingerprintsTrue'
    BY <2>1, <2>3, BehindGrows DEF IInv
  <2>5. Clash(queue)' = Clash(queue)
    BY <2>1 DEF Clash
  <2> QED
    BY <1>1, <2>1, <2>2, <2>4, <2>5 DEF IInv
<1> QED
  BY <1>2, <1>3

LEMMA HeadTail ==
  ASSUME NEW q \in Seq(Rect), q # << >>
  PROVE  /\ Head(q) \in Rect /\ Tail(q) \in Seq(Rect)
         /\ DOMAIN Tail(q) = 1 .. Len(q) - 1 /\ DOMAIN q = 1 .. Len(q) /\ Len(q) \in Nat \ {0}
         /\ Head(q) = q[1] /\ \A k \in DOMAIN Tail(q) : Tail(q)[k] = q[k + 1]
  OBVIOUS

LEMMA ClashTail ==
  ASSUME NEW q \in Seq(Rect), q # << >>, Clash(Tail(q))
  PROVE  Clash(q)
<1>1. PICK i, j \in DOMAIN Tail(q) :
        /\ i < j /\ Fingerprinted(Tail(q)[i], FALSE)
        /\ Touched(Widen(Tail(q)[i])) \cap Touched(Tail(q)[j]) # {}
  BY DEF Clash
<1>2. /\ i + 1 \in DOMAIN q /\ j + 1 \in DOMAIN q /\ i + 1 < j + 1
      /\ Tail(q)[i] = q[i + 1] /\ Tail(q)[j] = q[j + 1]
  BY <1>1, HeadTail
<1> QED
  BY <1>1, <1>2 DEF Clash

(* One rectangle goes, and its pieces take the fingerprint of RAM: no      *)
(* later rectangle of the list holds a pixel of them that is behind.       *)
LEMMA FlushOneKeeps == IInv /\ FlushOne => IInv'
<1> SUFFICES ASSUME IInv, FlushOne PROVE IInv'
  OBVIOUS
<1> DEFINE a == Head(queue)
           w == Flush(card, ram, a)
<1>1. /\ queue # << >> /\ queue \in Seq(Rect) /\ queue' = Tail(queue)
      /\ card' = OnCard(w)
      /\ UNCHANGED <<ram, depth, dirty, named, away, shared>>
  BY DEF FlushOne, IInv, TypeOK
<1>2. a \in Rect /\ queue' \in Seq(Rect) /\ a = queue[1] /\ 1 \in DOMAIN queue
      /\ \A k \in DOMAIN queue : k = 1 \/ (k > 1 /\ k - 1 \in DOMAIN queue' /\ queue'[k - 1] = queue[k])
  BY <1>1, HeadTail
<1>3. depth = 0 /\ Cover(dirty) = {}
  BY <1>1, CoverEmpty DEF IInv, ListBound
<1>4. Cover(queue) \subseteq Area(a) \cup Cover(queue')
  BY <1>2 DEF Cover
<1>5. ~shared' => ~Clash(queue)'
  <2>1. Clash(queue') => Clash(queue)
    BY <1>1, ClashTail
  <2> QED
    BY <1>1, <2>1 DEF IInv, Clash
<1> HIDE DEF a, w
<1>6. IsCard(card)' /\ OnlyPendingBehind' /\ FingerprintsTrue'
  <2>1. CASE away
    <3>1. card' = [w EXCEPT !.px = card.px] /\ away'
      BY <1>1, <2>1 DEF OnCard
    <3>2. IsCard(card)
      BY DEF IInv
    <3>3. IsCard(w)
      BY <1>2, <3>2, FlushTypeFacts DEF w
    <3>4. IsCard(card')
      BY <3>1, <3>2, <3>3 DEF IsCard
    <3> QED
      BY <3>1, <3>4 DEF OnlyPendingBehind, FingerprintsTrue, IsCard
  <2>2. CASE ~away /\ shared
    <3>1. card' = w /\ shared'
      BY <1>1, <2>2 DEF OnCard
    <3>2. IsCard(card)
      BY DEF IInv
    <3>3. IsCard(w)
      BY <1>2, <3>2, FlushTypeFacts DEF w
    <3> QED
      BY <3>1, <3>3 DEF OnlyPendingBehind, FingerprintsTrue, IsCard
  <2>3. CASE ~away /\ ~shared
    <3>1. card' = w /\ ram' = ram
      BY <1>1, <2>3 DEF OnCard
    <3>2. /\ IsCard(card) /\ \A p \in Pixels : Honest(card, p)
      BY <2>3 DEF IInv, FingerprintsTrue, Honest
    <3>3. \A p \in Pixels : Synced(card, ram, p) \/ p \in Cover(queue)
      BY <1>3, <2>3 DEF IInv, OnlyPendingBehind, InSync, Synced
    <3>4. ~Clash(queue)
      BY <2>3 DEF IInv
    <3>5. ASSUME Fingerprinted(a, FALSE),
                 NEW p \in Pixels \ Area(a), Piece(p) \in Touched(Widen(a)),
                 ~Synced(card, ram, p)
          PROVE  FALSE
      <4>1. PICK j \in DOMAIN queue : p \in Area(queue[j])
        BY <3>3, <3>5 DEF Cover
      <4>2. j > 1
        BY <1>2, <3>5, <4>1
      <4>3. Piece(p) \in Touched(queue[j])
        BY <4>1 DEF Touched
      <4> QED
        BY <1>2, <3>4, <3>5, <4>2, <4>3 DEF Clash
    <3>6. /\ IsCard(w)
          /\ \A p \in Area(a) : Synced(w, ram, p)
          /\ \A p \in Pixels \ Area(a) : Synced(card, ram, p) => Synced(w, ram, p)
          /\ \A p \in Pixels : Honest(w, p)
      <4>1. \A p \in Pixels : Honest(card, p)
        BY <3>2
      <4>2. Fingerprinted(a, FALSE) =>
              \A p \in Pixels \ Area(a) : Piece(p) \in Touched(Widen(a)) => Synced(card, ram, p)
        BY <3>5
      <4> QED
        BY <1>2, <3>2, <4>1, <4>2, FlushFacts DEF w
    <3>7. \A p \in Pixels : Synced(w, ram, p) \/ p \in Cover(queue')
      BY <1>4, <3>3, <3>6
    <3>8. OnlyPendingBehind'
      BY <3>1, <3>7 DEF OnlyPendingBehind, InSync, Synced
    <3>9. FingerprintsTrue'
      BY <3>1, <3>6 DEF FingerprintsTrue, Honest
    <3> QED
      BY <3>1, <3>6, <3>8, <3>9 DEF IsCard
  <2> QED
    BY <2>1, <2>2, <2>3
<1>7. TypeOK'
  BY <1>1, <1>2, <1>6 DEF IInv, TypeOK, IsCard
<1>8. ListBound' /\ NamedIsDirty'
  BY <1>1 DEF IInv, ListBound, NamedIsDirty, Cover
<1>9. (queue # << >> => depth = 0)' /\ (depth = 0 => named = {})'
  BY <1>1, <1>3 DEF IInv
<1> QED
  BY <1>5, <1>6, <1>7, <1>8, <1>9 DEF IInv

(* At rest nothing is behind.                                              *)
LEMMA IdleFacts ==
  ASSUME IInv, Idle
  PROVE  /\ depth = 0 /\ dirty = << >> /\ queue = << >> /\ named = {} /\ ~away
         /\ Cover(dirty) = {} /\ Cover(queue) = {}
         /\ ~shared => \A p \in Pixels : Synced(card, ram, p) /\ Honest(card, p)
  BY CoverEmpty
  DEF IInv, Idle, ListBound, OnlyPendingBehind, FingerprintsTrue, InSync, Synced, Honest

(* A call drawn into RAM under a list that is then flushed.                *)
LEMMA ListedKeeps ==
  ASSUME IInv, Idle, NEW list \in Seq(Rect), FlushAll(list), ram' \in [Pixels -> Colours],
         \A p \in Pixels : p \notin Cover(list) => ram'[p] = ram[p],
         UNCHANGED <<card, depth, dirty, named, away>>
  PROVE  IInv'
<1>1. /\ depth' = 0 /\ dirty' = << >> /\ named' = {} /\ queue' = list
      /\ Cover(dirty) = {} /\ Cover(queue) = {}
  BY IdleFacts, FlushAllFacts
<1>2. (~shared' => ~shared /\ ~Clash(queue)') /\ shared' \in BOOLEAN
  BY FlushAllFacts DEF IInv, TypeOK, Clash
<1>3. TypeOK' /\ IsCard(card)' /\ ListBound' /\ NamedIsDirty'
  BY <1>1, <1>2, CallAssumption
  DEF IInv, TypeOK, IsCard, ListBound, NamedIsDirty, Cover
<1>4. Cover(list) \cup Cover(dirty) \cup Cover(queue) \subseteq Cover(dirty') \cup Cover(queue')
  BY <1>1
<1>5. OnlyPendingBehind /\ FingerprintsTrue
  BY DEF IInv
<1>6. OnlyPendingBehind' /\ FingerprintsTrue'
  BY <1>2, <1>4, <1>5, BehindGrows
<1> QED
  BY <1>1, <1>2, <1>3, <1>6 DEF IInv

(* The card is left in order with nothing waiting.                         *)
LEMMA SettledKeeps ==
  ASSUME TypeOK, dirty = << >>, queue = << >>, named = {}, ram' \in [Pixels -> Colours],
         depth = 0, UNCHANGED <<depth, dirty, queue, named>>, away' \in BOOLEAN,
         shared' \in BOOLEAN, IsCard(card'),
         ~shared' /\ ~away' => \A p \in Pixels : Synced(card', ram', p) /\ Honest(card', p)
  PROVE  IInv'
<1>1. TypeOK' /\ IsCard(card)'
  BY DEF TypeOK, IsCard
<1>2. ListBound' /\ NamedIsDirty'
  BY CallAssumption DEF ListBound, NamedIsDirty
<1>3. OnlyPendingBehind' /\ FingerprintsTrue'
  BY DEF OnlyPendingBehind, FingerprintsTrue, InSync, Synced, Honest
<1>4. ~Clash(queue)'
  BY DEF Clash
<1> QED
  BY <1>1, <1>2, <1>3, <1>4 DEF IInv

LEMMA SingleList ==
  ASSUME NEW a \in Rect
  PROVE  <<a>> \in Seq(Rect) /\ Cover(<<a>>) = Area(a)
  BY DEF Cover

LEMMA PolylineKeeps == IInv /\ Polyline => IInv'
<1> SUFFICES ASSUME IInv, Polyline PROVE IInv'
  OBVIOUS
<1>1. PICK list \in StripLists, d \in Drawings :
        DOMAIN d \subseteq Cover(list) /\ ram' = Drawn(d) /\ FlushAll(list)
  BY DEF Polyline
<1>2. /\ ram' \in [Pixels -> Colours]
      /\ \A p \in Pixels : p \notin Cover(list) => ram'[p] = ram[p]
  BY <1>1, DrawnFacts DEF IInv
<1>3. Idle /\ list \in Seq(Rect) /\ UNCHANGED <<card, depth, dirty, named, away>>
  BY CallAssumption DEF Polyline
<1> QED
  BY <1>1, <1>2, <1>3, ListedKeeps

LEMMA ScanlinesKeeps == IInv /\ Scanlines => IInv'
<1> SUFFICES ASSUME IInv, Scanlines PROVE IInv'
  OBVIOUS
<1>1. PICK list \in SpanLists, d \in Drawings :
        /\ DOMAIN d \subseteq list.spans /\ ram' = Drawn(d)
        /\ IF \E c \in Flat : \A p \in list.spans : ram'[p] = c
           THEN /\ card' = Forget(Write(card, ram', list.spans), list.box)
                /\ UNCHANGED <<queue, shared>>
           ELSE FlushAll(<<list.box>>) /\ UNCHANGED card
  BY DEF Scanlines
<1>2. /\ ram' \in [Pixels -> Colours]
      /\ \A p \in Pixels : p \notin list.spans => ram'[p] = ram[p]
  BY <1>1, DrawnFacts DEF IInv
<1>3. Idle /\ UNCHANGED <<depth, dirty, named, away>>
  BY DEF Scanlines
<1>4. list.box \in Rect /\ list.spans \subseteq Area(list.box)
  BY CallAssumption
<1>5. CASE \E c \in Flat : \A p \in list.spans : ram'[p] = c
  <2> DEFINE x == Write(card, ram', list.spans)
             w == Forget(x, list.box)
  <2>1. card' = w /\ UNCHANGED <<queue, shared>>
    BY <1>1, <1>5
  <2>2. IsCard(card) /\ TypeOK /\ shared \in BOOLEAN
    BY DEF IInv, TypeOK
  <2>3. /\ IsCard(x) /\ x.fp = card.fp
        /\ \A p \in Pixels : x.px[p] = IF p \in list.spans THEN Shown(p, ram'[p]) ELSE card.px[p]
    BY <2>2, WriteFacts
  <2> HIDE DEF x
  <2>4. /\ IsCard(w) /\ w.px = x.px
        /\ \A s \in Pieces : w.fp[s] = IF s \in Touched(list.box) THEN NoFp ELSE x.fp[s]
    BY <2>3, ForgetFacts
  <2> HIDE DEF w
  <2>5. ASSUME ~shared, NEW p \in Pixels
        PROVE  Synced(w, ram', p) /\ Honest(w, p)
    <3>1. Synced(card, ram, p) /\ Honest(card, p) /\ Piece(p) \in Pieces
      BY <1>3, <2>5, IdleFacts, PixelFacts
    <3>2. Synced(w, ram', p)
      BY <1>2, <2>3, <2>4, <3>1 DEF Synced
    <3>3. CASE Piece(p) \in Touched(list.box)
      BY <2>4, <3>1, <3>2, <3>3 DEF Honest
    <3>4. CASE Piece(p) \notin Touched(list.box)
      <4>1. p \notin list.spans
        BY <1>4, <3>4 DEF Touched
      <4> QED
        BY <2>3, <2>4, <3>1, <3>2, <3>4, <4>1 DEF Honest
    <3> QED
      BY <3>3, <3>4
  <2>6. depth = 0 /\ dirty = << >> /\ queue = << >> /\ named = {} /\ ~away
    BY <1>3, IdleFacts
  <2>7. ~shared' /\ ~away' => \A p \in Pixels : Synced(card', ram', p) /\ Honest(card', p)
    BY <2>1, <2>5
  <2>8. away' \in BOOLEAN /\ shared' \in BOOLEAN /\ IsCard(card')
    BY <1>3, <2>1, <2>2, <2>4 DEF TypeOK
  <2> QED
    BY <1>2, <1>3, <2>1, <2>2, <2>6, <2>7, <2>8, SettledKeeps
<1>6. CASE ~(\E c \in Flat : \A p \in list.spans : ram'[p] = c)
  <2>1. FlushAll(<<list.box>>) /\ UNCHANGED card
    BY <1>1, <1>6
  <2>2. <<list.box>> \in Seq(Rect) /\ Cover(<<list.box>>) = Area(list.box)
    BY <1>4, SingleList
  <2> QED
    BY <1>2, <1>3, <1>4, <2>1, <2>2, ListedKeeps
<1> QED
  BY <1>5, <1>6

LEMMA CopyBitsKeeps == IInv /\ CopyBits => IInv'
<1> SUFFICES ASSUME IInv, CopyBits PROVE IInv'
  OBVIOUS
<1>1. PICK a \in Boxes, m \in Moves :
        /\ ram' = [p \in Pixels |->
              IF p \in Area(a) /\ <<p[1] + m[1], p[2] + m[2]>> \in Pixels
              THEN ram[<<p[1] + m[1], p[2] + m[2]>>] ELSE ram[p]]
        /\ IF InPhase(a, m[1], m[2])
           THEN card' = CardCopy(card, a, m[1], m[2]) /\ UNCHANGED <<queue, shared>>
           ELSE FlushAll(<<a>>) /\ UNCHANGED card
  BY DEF CopyBits
<1>2. a \in Rect /\ m[1] \in Int /\ m[2] \in Int
  BY CallAssumption
<1>3. Idle /\ UNCHANGED <<depth, dirty, named, away>>
  BY DEF CopyBits
<1>4. IsCard(card) /\ TypeOK /\ shared \in BOOLEAN /\ ram \in [Pixels -> Colours]
  BY DEF IInv, TypeOK
<1>5. ram' \in [Pixels -> Colours]
  BY <1>1, <1>4
<1>6. CASE InPhase(a, m[1], m[2])
  <2>1. card' = CardCopy(card, a, m[1], m[2]) /\ UNCHANGED <<queue, shared>>
    BY <1>1, <1>6
  <2>2. depth = 0 /\ dirty = << >> /\ queue = << >> /\ named = {} /\ ~away
    BY <1>3, IdleFacts
  <2>3. \A p \in Pixels : ram'[p] =
          IF p \in Area(a) /\ <<p[1] + m[1], p[2] + m[2]>> \in Pixels
          THEN ram[<<p[1] + m[1], p[2] + m[2]>>] ELSE ram[p]
    BY <1>1
  <2>4. IsCard(card')
    <3>1. CardCopy(card, a, m[1], m[2]) =
            Forget([card EXCEPT !.px = [p \in Pixels |->
               IF p \in Area(a) THEN @[<<p[1] + m[1], p[2] + m[2]>>] ELSE @[p]]], a)
      BY DEF CardCopy
    <3>2. IsCard([card EXCEPT !.px = [p \in Pixels |->
               IF p \in Area(a) THEN @[<<p[1] + m[1], p[2] + m[2]>>] ELSE @[p]]])
      BY <1>4 DEF IsCard
    <3> QED
      BY <2>1, <3>1, <3>2, ForgetFacts
  <2>5. ASSUME ~shared
        PROVE  \A p \in Pixels : Synced(card', ram', p) /\ Honest(card', p)
    <3>1. (\A p \in Pixels : Honest(card, p)) /\ (\A p \in Pixels : Synced(card, ram, p))
      BY <1>3, <2>5, IdleFacts
    <3> DEFINE dx == m[1]
               dy == m[2]
               new == ram'
    <3>2. dx \in Int /\ dy \in Int /\ InPhase(a, dx, dy) /\ card' = CardCopy(card, a, dx, dy)
      BY <1>2, <1>6, <2>1
    <3>3. \A p \in Pixels : new[p] =
            IF p \in Area(a) /\ <<p[1] + dx, p[2] + dy>> \in Pixels
            THEN ram[<<p[1] + dx, p[2] + dy>>] ELSE ram[p]
      BY <2>3
    <3> HIDE DEF dx, dy, new
    <3>4. LET w == CardCopy(card, a, dx, dy) IN
          \A p \in Pixels : Synced(w, new, p) /\ Honest(w, p)
      BY <1>2, <1>4, <3>1, <3>2, <3>3, CardCopyFacts
    <3> QED
      BY <3>2, <3>4 DEF new
  <2>6. ~shared' /\ ~away' => \A p \in Pixels : Synced(card', ram', p) /\ Honest(card', p)
    BY <2>1, <2>5
  <2>7. away' \in BOOLEAN /\ shared' \in BOOLEAN
    BY <1>3, <1>4, <2>1 DEF TypeOK
  <2> QED
    BY <1>3, <1>4, <1>5, <2>1, <2>2, <2>4, <2>6, <2>7, SettledKeeps
<1>7. CASE ~InPhase(a, m[1], m[2])
  <2>1. FlushAll(<<a>>) /\ UNCHANGED card
    BY <1>1, <1>7
  <2>2. <<a>> \in Seq(Rect) /\ Cover(<<a>>) = Area(a)
    BY <1>2, SingleList
  <2>3. \A p \in Pixels : p \notin Cover(<<a>>) => ram'[p] = ram[p]
    BY <1>1, <2>2
  <2> QED
    BY <1>3, <1>5, <2>1, <2>2, <2>3, ListedKeeps
<1> QED
  BY <1>6, <1>7

LEMMA SwitchOutKeeps == IInv /\ SwitchOut => IInv'
<1> SUFFICES ASSUME IInv, SwitchOut PROVE IInv'
  OBVIOUS
<1>1. /\ ~away /\ away' = TRUE
      /\ card' = [card EXCEPT !.px = [p \in Pixels |-> Junk]]
      /\ UNCHANGED <<ram, depth, dirty, queue, named, shared>>
  BY DEF SwitchOut
<1>2. IsCard(card)
  BY DEF IInv
<1>3. IsCard(card')
  BY <1>1, <1>2 DEF IsCard
<1>4. TypeOK' /\ ListBound' /\ NamedIsDirty' /\ IsCard(card)'
  BY <1>1, <1>3 DEF IInv, TypeOK, IsCard, ListBound, NamedIsDirty, Cover
<1>5. OnlyPendingBehind' /\ FingerprintsTrue'
  BY <1>1 DEF OnlyPendingBehind, FingerprintsTrue
<1>6. Clash(queue)' = Clash(queue)
  BY <1>1 DEF Clash
<1> QED
  BY <1>1, <1>4, <1>5, <1>6 DEF IInv

LEMMA SwitchInKeeps == IInv /\ SwitchIn => IInv'
<1> SUFFICES ASSUME IInv, SwitchIn PROVE IInv'
  OBVIOUS
<1>1. /\ away' = FALSE /\ card' = SendAll(card, ram) /\ shared' = Clash(queue)
      /\ UNCHANGED <<ram, depth, dirty, queue, named>>
  BY DEF SwitchIn
<1>2. IsCard(card)
  BY DEF IInv
<1>3. IsCard(card') /\ \A p \in Pixels : Synced(card', ram, p) /\ Honest(card', p)
  BY <1>1, <1>2, SendAllFacts
<1>4. shared' \in BOOLEAN
  BY <1>1 DEF Clash
<1>5. TypeOK' /\ ListBound' /\ NamedIsDirty' /\ IsCard(card)'
  <2>1. IsCard(card)' /\ away' \in BOOLEAN /\ UNCHANGED <<ram, depth, dirty, queue, named>>
    BY <1>1, <1>3 DEF IsCard
  <2>2. TypeOK'
    BY <1>4, <2>1 DEF IInv, TypeOK, IsCard
  <2> QED
    BY <2>1, <2>2 DEF IInv, ListBound, NamedIsDirty, Cover
<1>6. OnlyPendingBehind' /\ FingerprintsTrue'
  BY <1>1, <1>3 DEF OnlyPendingBehind, FingerprintsTrue, InSync, Synced, Honest
<1>7. Clash(queue)' = Clash(queue)
  BY <1>1 DEF Clash
<1> QED
  BY <1>1, <1>5, <1>6, <1>7 DEF IInv

LEMMA ReEnableKeeps == IInv /\ ReEnable => IInv'
<1> SUFFICES ASSUME IInv, ReEnable PROVE IInv'
  OBVIOUS
<1>1. /\ Idle /\ ram' = [p \in Pixels |-> Black] /\ card' = SendAll(card, ram')
      /\ shared' = FALSE /\ UNCHANGED <<depth, dirty, queue, named, away>>
  BY DEF ReEnable
<1>2. IsCard(card) /\ TypeOK
  BY DEF IInv
<1>3. IsCard(card') /\ \A p \in Pixels : Synced(card', ram', p) /\ Honest(card', p)
  BY <1>1, <1>2, SendAllFacts
<1>4. ram' \in [Pixels -> Colours] /\ away' \in BOOLEAN
  BY <1>1, <1>2, ColourAssumption DEF TypeOK
<1>5. depth = 0 /\ dirty = << >> /\ queue = << >> /\ named = {}
  BY <1>1, IdleFacts
<1> QED
  BY <1>1, <1>2, <1>3, <1>4, <1>5, SettledKeeps

LEMMA IInvNext == IInv /\ [Next]_vars => IInv'
<1>1. ASSUME IInv, UNCHANGED vars
      PROVE  IInv'
  <2>1. UNCHANGED <<ram, card, depth, dirty, queue, named, away, shared>>
    BY <1>1 DEF vars
  <2>2. TypeOK' /\ ListBound' /\ NamedIsDirty' /\ IsCard(card)'
    BY <1>1, <2>1 DEF IInv, TypeOK, IsCard, ListBound, NamedIsDirty, Cover
  <2>3. OnlyPendingBehind' /\ FingerprintsTrue'
    BY <1>1, <2>1 DEF IInv, OnlyPendingBehind, FingerprintsTrue, InSync, Cover
  <2>4. Clash(queue)' = Clash(queue)
    BY <2>1 DEF Clash
  <2> QED
    BY <1>1, <2>1, <2>2, <2>3, <2>4 DEF IInv
<1> QED
  BY <1>1, BeginKeeps, DrawKeeps, EndKeeps, FlushOneKeeps, PolylineKeeps, ScanlinesKeeps,
     CopyBitsKeeps, SwitchOutKeeps, SwitchInKeeps, ReEnableKeeps DEF Next

LEMMA Invariant == Spec => []IInv
  BY IInvInit, IInvNext, PTL DEF Spec

-----------------------------------------------------------------------------
(* The theorems.                                                           *)

(* The driver's state keeps its shape in every call sequence.              *)
THEOREM TypeCorrect == Spec => []TypeOK
  BY Invariant, PTL DEF IInv

(* m8_fb16_add never leaves its array, and the list is empty whenever no   *)
(* call is open.                                                           *)
THEOREM ListBounded == Spec => []ListBound
  BY Invariant, PTL DEF IInv

(* Joining and cutting never lose a pixel a call may have drawn.           *)
THEOREM NamedCovered == Spec => []NamedIsDirty
  BY Invariant, PTL DEF IInv

(* What is behind on the card lies in a rectangle that is still to go.     *)
THEOREM PendingOnly == Spec => []OnlyPendingBehind
  BY Invariant, PTL DEF IInv

(* A fingerprint that is not 0 is of what the card shows.                  *)
THEOREM Fingerprints == Spec => []FingerprintsTrue
  BY Invariant, PTL DEF IInv

(* At rest the card shows the frame buffer, unless a list had a clash.     *)
THEOREM Shows == Spec => []ScreenShown
<1>1. IInv => ScreenShown
  BY IdleFacts DEF ScreenShown, InSync, Synced
<1> QED
  BY <1>1, Invariant, PTL

(* Without memory for the fingerprints no list has a clash: the card shows *)
(* what calls named when they end, unconditionally.                        *)
THEOREM ShowsUnhashed == HashMem = FALSE => (Spec => []OneListShown)
<1> SUFFICES ASSUME HashMem = FALSE PROVE Spec => []OneListShown
  OBVIOUS
<1>1. \A list : ~Clash(list)
  BY DEF Clash, Fingerprinted
<1>2. Init => ~shared
  BY DEF Init
<1>3. ~shared /\ [Next]_vars => ~shared'
  <2>1. \A list : ~shared /\ FlushAll(list) => ~shared'
    BY <1>1 DEF FlushAll
  <2> QED
    BY <1>1, <2>1 DEF Next, vars, Begin, BeginAccess, Draw, EndAccess, FlushOne, Polyline,
       Scanlines, CopyBits, SwitchOut, SwitchIn, ReEnable
<1>4. IInv /\ ~shared => OneListShown
  BY IdleFacts DEF OneListShown, InSync, Synced
<1> QED
  BY <1>2, <1>3, <1>4, Invariant, PTL DEF Spec
=============================================================================
