-------------------------------- MODULE Fb16 --------------------------------
(***************************************************************************)
(* GDI's side of the 16 bpp mode (fb16.c, enable.c): the DIB Engine draws  *)
(* in the frame buffer, the driver collects the rectangles the open calls  *)
(* name and, when the outermost call ends, puts them on the card one by    *)
(* one.  Lines, scanline lists and in-phase screen copies have paths of    *)
(* their own, drawn in RAM first and put on the card after.  A full-screen *)
(* DOS session may take the card at any moment and write on it.            *)
(*                                                                         *)
(* `named' and the guards of Draw are the DIB Engine's contract: it draws  *)
(* in what it named to BeginAccess, cut to the limit the driver set.  GDI  *)
(* calls and the driver's escapes are serialised by Windows.               *)
(***************************************************************************)
EXTENDS Fb16Card, Sequences

CONSTANTS
  Boxes,       \* rectangles GDI names
  Limits,      \* rectangles m8_fb16_lim may hold
  Drawings,    \* what a drawing call may leave: colours of some pixels
  StripLists,  \* what m8_fb16_polyline_sent makes of a line: strips
  SpanLists,   \* scanline lists: the spans, and the box around them
  Moves,       \* distances of screen to screen copies
  DirtyMax,    \* M8_FB16_DIRTY
  MaxDepth,    \* bound: nested access calls
  Junk         \* what a DOS program may leave on the card

ASSUME CallAssumption ==
  /\ Boxes \subseteq Rect /\ Limits \subseteq Rect
  /\ \A d \in Drawings : DOMAIN d \subseteq Pixels /\ \A p \in DOMAIN d : d[p] \in Colours
  /\ StripLists \subseteq Seq(Rect)
  /\ \A s \in SpanLists : s.box \in Rect /\ s.spans \subseteq Area(s.box)
  /\ Moves \subseteq Int \X Int
  /\ DirtyMax \in Nat \ {0} /\ MaxDepth \in Nat

VARIABLES
  ram,      \* the frame buffer, m8_fb16_msel
  card,     \* px: what the card holds; fp: m8_fb16_hash
  depth,    \* m8_fb16_depth
  dirty,    \* m8_fb16_dirty[0 .. m8_fb16_ndirty - 1]
  queue,    \* rectangles a flush loop has still to put on the card
  named,    \* pixels the open calls may draw
  away,     \* m8_hw_off: a DOS session has the card
  shared    \* history: a list held two rectangles over one piece (Clash)

vars == <<ram, card, depth, dirty, queue, named, away, shared>>

-----------------------------------------------------------------------------
(* The dirty list.                                                         *)

Size(a) == (a.r - a.l) * (a.b - a.t)

Lower(x, y) == IF x < y THEN x ELSE y
Upper(x, y) == IF x > y THEN x ELSE y

(* m8_fb16_union                                                           *)
Join(a, n) == [l |-> Lower(a.l, n.l), t |-> Lower(a.t, n.t),
               r |-> Upper(a.r, n.r), b |-> Upper(a.b, n.b)]

Meet(a, n) == [l |-> Upper(a.l, n.l), t |-> Upper(a.t, n.t),
               r |-> Lower(a.r, n.r), b |-> Lower(a.b, n.b)]

Hollow(a) == a.r <= a.l \/ a.b <= a.t

Touches(n, d) == n.l <= d.r /\ d.l <= n.r /\ n.t <= d.b /\ d.t <= n.b

Growth(d, n) == Size(Join(d, n)) - Size(d)

(* Mutant of Add: a full list drops what touches none of it.               *)
AddDropped(list, n) ==
  LET Near == {k \in DOMAIN list : Touches(n, list[k])}
      At   == CHOOSE k \in Near : \A j \in Near : k <= j
  IN  IF Near # {} THEN [list EXCEPT ![At] = Join(@, n)]
      ELSE IF Len(list) < DirtyMax THEN Append(list, n) ELSE list

(* Mutant of Add: no end to the list.                                      *)
AddUnbounded(list, n) ==
  LET Near == {k \in DOMAIN list : Touches(n, list[k])}
      At   == CHOOSE k \in Near : \A j \in Near : k <= j
  IN  IF Near # {} THEN [list EXCEPT ![At] = Join(@, n)] ELSE Append(list, n)

(* m8_fb16_add: joined to the first it touches, else added, else joined to *)
(* the one that grows least.                                               *)
Add(list, n) ==
  LET Near == {k \in DOMAIN list : Touches(n, list[k])}
      Host == IF Near # {} THEN Near
              ELSE {k \in DOMAIN list : \A j \in DOMAIN list :
                                           Growth(list[k], n) <= Growth(list[j], n)}
      At   == CHOOSE k \in Host : \A j \in Host : k <= j
  IN  IF Near = {} /\ Len(list) < DirtyMax
      THEN Append(list, n)
      ELSE [list EXCEPT ![At] = Join(@, n)]

Cover(list) == UNION {Area(list[k]) : k \in DOMAIN list}

(* Two rectangles of a list over one piece, the earlier of them by         *)
(* fingerprints: its send takes the fingerprint of what the later draws.   *)
Clash(list) ==
  \E i, j \in DOMAIN list :
     /\ i < j /\ Fingerprinted(list[i], FALSE)
     /\ Touched(Widen(list[i])) \cap Touched(list[j]) # {}

(* With the card away the engine takes nothing; the fingerprints change.   *)
OnCard(v) == IF away THEN [v EXCEPT !.px = card.px] ELSE v

-----------------------------------------------------------------------------
TypeOK ==
  /\ ram \in [Pixels -> Colours]
  /\ DOMAIN card = {"px", "fp"} /\ DOMAIN card.px = Pixels /\ DOMAIN card.fp = Pieces
  /\ depth \in Nat
  /\ dirty \in Seq(Rect) /\ queue \in Seq(Rect)
  /\ named \subseteq Pixels
  /\ away \in BOOLEAN /\ shared \in BOOLEAN

(* The mode set, over zeroed RAM.                                          *)
Init ==
  /\ ram = [p \in Pixels |-> Black]
  /\ card = SendAll([px |-> ram, fp |-> [s \in Pieces |-> NoFp]], ram)
  /\ depth = 0 /\ dirty = << >> /\ queue = << >> /\ named = {}
  /\ away = FALSE /\ shared = FALSE

(* A drawing call may start: none is open, no flush is under way, and the  *)
(* device is not BUSY.                                                     *)
Idle == depth = 0 /\ queue = << >> /\ ~away

(* m8_fb16_begin: n as the DIB Engine names it, lim as Output, BitBlt or   *)
(* Pixel set it; what is outside the limit is not drawn either.            *)
BeginAccess(n) ==
  /\ depth < MaxDepth /\ queue = << >> /\ ~away
  /\ depth' = depth + 1
  /\ dirty' = IF Hollow(n) THEN dirty ELSE Add(dirty, n)
  /\ named' = named \cup Area(n)
  /\ UNCHANGED <<ram, card, queue, away, shared>>

Begin == \E n \in Boxes : \/ BeginAccess(n)
                          \/ \E lim \in Limits : BeginAccess(Meet(n, lim))

Drawn(d) == [p \in Pixels |-> IF p \in DOMAIN d THEN d[p] ELSE ram[p]]

(* The DIB Engine draws.                                                   *)
Draw ==
  /\ depth > 0
  /\ \E d \in Drawings : DOMAIN d \subseteq named /\ ram' = Drawn(d)
  /\ UNCHANGED <<card, depth, dirty, queue, named, away, shared>>

(* A list of rectangles to the card, each in turn.                         *)
FlushAll(list) == queue' = list /\ shared' = (shared \/ Clash(list))

(* Mutant of EndAccess: the depth is not looked at.                        *)
EndUnopened ==
  /\ queue = << >>
  /\ depth' = depth - 1
  /\ UNCHANGED <<ram, card, dirty, queue, named, away, shared>>

(* m8_fb16_end                                                             *)
EndAccess ==
  /\ depth > 0 /\ queue = << >>
  /\ depth' = depth - 1
  /\ IF depth = 1 THEN FlushAll(dirty) /\ dirty' = << >> /\ named' = {}
                  ELSE UNCHANGED <<dirty, queue, named, shared>>
  /\ UNCHANGED <<ram, card, away>>

(* One turn of the loop.                                                   *)
FlushOne ==
  /\ queue # << >>
  /\ card' = OnCard(Flush(card, ram, Head(queue)))
  /\ queue' = Tail(queue)
  /\ UNCHANGED <<ram, depth, dirty, named, away, shared>>

(* m8_fb16_output, OS_POLYLINE: nothing marked; the strips go after.       *)
Polyline ==
  /\ Idle
  /\ \E list \in StripLists, d \in Drawings :
        /\ DOMAIN d \subseteq Cover(list)
        /\ ram' = Drawn(d)
        /\ FlushAll(list)
  /\ UNCHANGED <<card, depth, dirty, named, away>>

(* Mutant of Scanlines: the spans go without their pieces being forgotten. *)
ScanlinesKept ==
  /\ Idle
  /\ \E list \in SpanLists, d \in Drawings :
        /\ DOMAIN d \subseteq list.spans
        /\ ram' = Drawn(d)
        /\ IF \E c \in Flat : \A p \in list.spans : ram'[p] = c
           THEN card' = Write(card, ram', list.spans) /\ UNCHANGED <<queue, shared>>
           ELSE FlushAll(<<list.box>>) /\ UNCHANGED card
  /\ UNCHANGED <<depth, dirty, named, away>>

(* m8_fb16_output, scanline lists: one flat colour goes as engine spans,   *)
(* anything else as its box (m8_fb16_scan_sent).                           *)
Scanlines ==
  /\ Idle
  /\ \E list \in SpanLists, d \in Drawings :
        /\ DOMAIN d \subseteq list.spans
        /\ ram' = Drawn(d)
        /\ IF \E c \in Flat : \A p \in list.spans : ram'[p] = c
           THEN /\ card' = Forget(Write(card, ram', list.spans), list.box)
                /\ UNCHANGED <<queue, shared>>
           ELSE FlushAll(<<list.box>>) /\ UNCHANGED card
  /\ UNCHANGED <<depth, dirty, named, away>>

(* m8_fb16_bitblt from the screen to the screen by whole dither periods.   *)
CopyBits ==
  /\ Idle
  /\ \E a \in Boxes, m \in Moves :
        /\ m[1] % Dither = 0 /\ m[2] % Dither = 0 /\ ~Hollow(a)
        /\ ram' = [p \in Pixels |->
              IF p \in Area(a) /\ <<p[1] + m[1], p[2] + m[2]>> \in Pixels
              THEN ram[<<p[1] + m[1], p[2] + m[2]>>] ELSE ram[p]]
        /\ IF InPhase(a, m[1], m[2])
           THEN card' = CardCopy(card, a, m[1], m[2]) /\ UNCHANGED <<queue, shared>>
           ELSE FlushAll(<<a>>) /\ UNCHANGED card
  /\ UNCHANGED <<depth, dirty, named, away>>

(* m8_switch_out, in the middle of anything: DOS has the card.             *)
SwitchOut ==
  /\ ~away /\ away' = TRUE
  /\ card' = [card EXCEPT !.px = [p \in Pixels |-> Junk]]
  /\ UNCHANGED <<ram, depth, dirty, queue, named, shared>>

(* m8_switch_in: all of RAM, as it is at that moment.                      *)
SwitchIn ==
  /\ away /\ away' = FALSE
  /\ card' = SendAll(card, ram)
  /\ shared' = Clash(queue)
  /\ UNCHANGED <<ram, depth, dirty, queue, named>>

(* ReEnable to another resolution: m8_fb16_clear, then Enable.             *)
ReEnable ==
  /\ Idle
  /\ ram' = [p \in Pixels |-> Black]
  /\ card' = SendAll(card, ram')
  /\ shared' = FALSE
  /\ UNCHANGED <<depth, dirty, queue, named, away>>

Next == Begin \/ Draw \/ EndAccess \/ FlushOne \/ Polyline \/ Scanlines \/ CopyBits
          \/ SwitchOut \/ SwitchIn \/ ReEnable

Spec == Init /\ [][Next]_vars

-----------------------------------------------------------------------------
(* Properties.                                                             *)

InSync(p) == card.px[p] = Shown(p, ram[p])

(* At rest every pixel of the card is what the frame buffer dithers to, as *)
(* FB16CHK checks: what GDI drew reaches the card when its call ends,      *)
(* whatever it shared a rectangle, a word or a piece with.  Unless a list  *)
(* held two rectangles over one piece (OneListShown).                      *)
ScreenShown == Idle /\ ~shared => \A p \in Pixels : InSync(p)

(* While a list waits, only its rectangles may be behind.                  *)
OnlyPendingBehind ==
  ~away /\ ~shared => \A p \in Pixels : InSync(p) \/ p \in Cover(dirty) \cup Cover(queue)

(* A fingerprint speaks for the card (the comment at m8_fb16_hash): while  *)
(* it is not 0 the card shows the pixels it was taken from, however RAM    *)
(* has changed since.                                                      *)
FingerprintsTrue ==
  ~away /\ ~shared => \A p \in Pixels :
     card.fp[Piece(p)] = NoFp \/ card.px[p] = Shown(p, card.fp[Piece(p)][p])

(* The rectangles of the open calls, joined and cut as they are, hold all  *)
(* that the DIB Engine may have drawn.                                     *)
NamedIsDirty == named \subseteq Cover(dirty)

(* The list stays within its array and empties with the outermost call.    *)
ListBound == Len(dirty) <= DirtyMax /\ (depth = 0 => dirty = << >>)

(* "what they name goes to the card when the outermost call ends"          *)
(* (fb16.c:10-11), without a condition.                                    *)
OneListShown == Idle => \A p \in Pixels : InSync(p)

=============================================================================
