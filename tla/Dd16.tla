-------------------------------- MODULE Dd16 --------------------------------
(***************************************************************************)
(* DirectDraw and Direct3D at 16 bpp (src/drivers/mach8_display/src/       *)
(* m8dd32.c): a flipping pair of buffers of which the card shows one.      *)
(* Buffer 0 is fb16.c's frame buffer, buffer 1 a second one.  A buffer may *)
(* be known by a description alone: one colour, rectangles RAM holds, and  *)
(* triangles over them that the engine draws at Flip.  What reaches the    *)
(* card goes through fb16.c, which sends from the buffer it was told to    *)
(* show and skips what its fingerprints say is there already.              *)
(*                                                                         *)
(* A triangle is the set of its pixels in a box, in a palette colour: RAM  *)
(* and the engine draw the same (the code: within a pixel).  DDRAW refuses *)
(* Blt, Flip and drawing while a surface is locked, and its Flip names the *)
(* hidden buffer.  The engine may give up on what Flip has it draw.         *)
(***************************************************************************)
EXTENDS Fb16Card, SequencesExt

CONSTANTS
  Boxes,      \* rectangles a program draws, clipped to the screen
  Pictures,   \* contents of system memory surfaces, the size of the screen
  Moves,      \* where a copy reads, relative to where it draws
  Key,        \* the colour a keyed copy leaves out
  Tris,       \* triangles: [box, px, c]
  LockBoxes,  \* what a program locks
  GdiBoxes,   \* where GDI draws meanwhile
  PagesFit,   \* the mode leaves room for a second page: 640x480
  EngineFails,\* the engine may give up: switched off, or its FIFO full too long
  DirtyMax,   \* M8DD_DIRTY_MAX
  TrisMax,    \* M8DD_TRIS_MAX
  BatchMax,   \* M8DD_BATCH_MAX
  HeldMax,    \* M8DD_HELD_MAX
  MaxLocks    \* bound: locks at a time

ASSUME BufferAssumption ==
  /\ Boxes \cup LockBoxes \cup GdiBoxes \subseteq Rect
  /\ \A f \in Pictures : f \in [Pixels -> Colours]
  /\ Moves \subseteq Int \X Int /\ Key \in Colours
  /\ \A t \in Tris : t.box \in Rect /\ t.px \subseteq Area(t.box) /\ t.c \in Flat
  /\ {PagesFit, EngineFails} \subseteq BOOLEAN
  /\ {DirtyMax, TrisMax, BatchMax, HeldMax} \subseteq Nat \ {0} /\ MaxLocks \in Nat

VARIABLES
  buf,       \* each buffer's RAM, m8dd_desc and its triangles
  front,     \* m8dd_front
  live,      \* m8dd_back # 0
  card,      \* page 0 of the card, with fb16.c's fingerprints
  sel,       \* the buffer fb16.c sends from: m8_fb16_sel
  batch,     \* m8dd_bl
  seen,      \* m8dd_card
  drawn,     \* the triangles the card shows: m8dd_card_v and the rest
  box,       \* boxes to erase on each page: m8dd_card_box, m8dd_page1_box
  fpStale,   \* m8dd_fp_stale
  gdi,       \* GDI calls since the last Flip
  context,   \* a 3D context exists
  paged,     \* m8dd_pages_on
  page,      \* m8dd_page: the page shown
  page1,     \* what page 1 holds
  held,      \* m8dd_held: rectangles to send at Unlock, or NoRect
  locks,     \* the program's locks: [k, r, write]
  direct,    \* history: the shown buffer drawn on since the last Flip: "no",
             \* "yes", or "unset" when more than the program changed the screen
  lapse,     \* history: the screen may not be the shown buffer
  want       \* history: what the program drew in each buffer

cardVars == <<card, sel, batch>>
bookVars == <<seen, drawn, box, fpStale>>
pageVars == <<paged, page, page1>>
progVars == <<context, held, locks>>
vars == <<buf, front, live, cardVars, bookVars, pageVars, progVars, gdi, direct, lapse, want>>

-----------------------------------------------------------------------------
(* A buffer and its description.                                           *)

Cover(list) == UNION {Area(list[i]) : i \in DOMAIN list}

(* Mutant of Ready: the rectangles RAM holds are overwritten.              *)
ReadyOver(b, A) ==
  IF ~b.known \/ b.filled THEN b
  ELSE [b EXCEPT !.ram = [p \in Pixels |-> IF p \in A THEN b.colour ELSE @[p]]]

(* m8dd_ready: pixels of A put in RAM where the description has the colour.*)
Ready(b, A) ==
  IF ~b.known \/ b.filled THEN b
  ELSE [b EXCEPT !.ram = [p \in Pixels |-> IF p \in A \ Cover(b.d) THEN b.colour ELSE @[p]]]

Inside(a, r) == a.l >= r.l /\ a.t >= r.t /\ a.r <= r.r /\ a.b <= r.b

UnionRect(a, r) == [l |-> Min({a.l, r.l}), t |-> Min({a.t, r.t}),
                    r |-> Max({a.r, r.r}), b |-> Max({a.b, r.b})]

Growth(a, r) == LET u == UnionRect(a, r)
                IN  (u.r - u.l) * (u.b - u.t) - (a.r - a.l) * (a.b - a.t)

(* Mutant of Dirty: the union's new area is not put in RAM.                *)
DirtyUnready(b, a) ==
  IF ~b.known \/ \E i \in DOMAIN b.d : Inside(a, b.d[i]) THEN b
  ELSE IF Len(b.d) < DirtyMax THEN [b EXCEPT !.d = Append(@, a)]
  ELSE LET Least == {i \in DOMAIN b.d : \A j \in DOMAIN b.d : Growth(b.d[i], a) <= Growth(b.d[j], a)}
       IN  [b EXCEPT !.d[Min(Least)] = UnionRect(@, a)]

(* Mutant of Dirty: the list has no limit.                                 *)
DirtyUnbounded(b, a) ==
  IF ~b.known \/ \E i \in DOMAIN b.d : Inside(a, b.d[i]) THEN b ELSE [b EXCEPT !.d = Append(@, a)]

(* m8dd_dirty: a now drawn in RAM; the last rectangle of a full list that  *)
(* grows least takes it in, its new area put in RAM first.                 *)
Dirty(b, a) ==
  IF ~b.known \/ \E i \in DOMAIN b.d : Inside(a, b.d[i]) THEN b
  ELSE IF Len(b.d) < DirtyMax THEN [b EXCEPT !.d = Append(@, a)]
  ELSE LET Least == {i \in DOMAIN b.d : \A j \in DOMAIN b.d : Growth(b.d[i], a) <= Growth(b.d[j], a)}
           u     == UnionRect(b.d[Min(Least)], a)
           full  == Ready([b EXCEPT !.d = Append(@, a)], Area(u))
       IN  [b EXCEPT !.ram = full.ram, !.d[Min(Least)] = u]

Over(img, A, c) == [p \in Pixels |-> IF p \in A THEN c ELSE img[p]]

Paint(b, A, c) == [b EXCEPT !.ram = Over(@, A, c)]

(* m8dd_tri_ram                                                            *)
TriRam(b, t) == Dirty(Paint(Ready(b, Area(t.box)), t.px, t.c), t.box)

(* m8dd_tris_to_ram                                                        *)
TrisToRam(b) == FoldLeft(TriRam, [b EXCEPT !.tris = << >>], b.tris)

(* Mutant of ReadyAll: the triangles stay where they are.                  *)
ReadyUnder(b) == [Ready(b, Pixels) EXCEPT !.filled = TRUE]

(* m8dd_ready_all                                                          *)
ReadyAll(b) == [Ready(TrisToRam(b), Pixels) EXCEPT !.filled = TRUE]

Unknown(b) == [b EXCEPT !.known = FALSE]

Cleared(b, c) == [b EXCEPT !.known = TRUE, !.filled = FALSE, !.colour = c,
                           !.d = << >>, !.tris = << >>]

(* The pixels a buffer stands for, wherever they are.                      *)
Stands(b, filled) ==
  LET Add(img, t) == Over(img, t.px, t.c)
  IN  FoldLeft(Add, [p \in Pixels |-> IF b.known /\ ~filled /\ p \notin Cover(b.d)
                                      THEN b.colour ELSE b.ram[p]], b.tris)

Meaning(b) == Stands(b, b.filled)

-----------------------------------------------------------------------------
(* The way to the card.  D is a record of card, sel and batch.             *)

D0 == [card |-> card, sel |-> sel, batch |-> batch]

Entry(op, a, arg) == [op |-> op, a |-> a, arg |-> arg]

(* One entry of m8_fb16_batch.  3 and 4, the back buffer's memory, change  *)
(* nothing here but the selection.                                         *)
Apply(B, d, e) ==
  CASE e.op = "send"   -> [d EXCEPT !.card = SendRect(@, B[d.sel].ram, e.a, e.arg)]
    [] e.op = "fill"   -> IF Area(e.a) = {} THEN d
                          ELSE [d EXCEPT !.card = Solid(@, e.a, e.arg)]
    [] e.op = "select" -> [d EXCEPT !.sel = e.arg]
    [] e.op = "alloc"  -> d
    [] e.op = "free"   -> [d EXCEPT !.sel = 0]
    [] e.op = "forget" -> [d EXCEPT !.card = Forget(@, e.a)]

(* m8dd_flush                                                              *)
Flushed(B, d) ==
  LET Step(x, e) == Apply(B, x, e)
  IN  [FoldLeft(Step, d, d.batch) EXCEPT !.batch = << >>]

(* m8dd_op                                                                 *)
Push(B, d, e) == IF Len(d.batch) = BatchMax THEN [Flushed(B, d) EXCEPT !.batch = <<e>>]
                                            ELSE [d EXCEPT !.batch = Append(@, e)]

PushAll(B, d, list) == LET Step(x, e) == Push(B, x, e) IN FoldLeft(Step, d, list)

Becomes(d) == card' = d.card /\ sel' = d.sel /\ batch' = d.batch

(* m8dd_send: at once, whatever waits in the batch.                        *)
SendNow(B, a, solid) == card' = IF Area(a) = {} THEN card ELSE SendRect(card, B[sel].ram, a, solid)

(* m8dd_copied, m8_fb16_copy_rect                                          *)
CopyNow(B, a, m) ==
  card' = IF Area(a) = {} THEN card
          ELSE IF InPhase(a, m[1], m[2]) THEN CardCopy(card, a, m[1], m[2])
          ELSE Flush(card, B[sel].ram, a)

(* m8d3d_replay: boxes to black, triangles over them, on a page's pixels.  *)
Replay(px, erase, tris) ==
  LET Add(f, t) == [p \in Pixels |-> IF p \in t.px THEN Shown(p, t.c) ELSE f[p]]
  IN  FoldLeft(Add, [p \in Pixels |-> IF p \in Cover(erase) THEN Shown(p, Black) ELSE px[p]], tris)

(* How far an engine that gives up has come: boxes, and then triangles.    *)
Parts(erase, tris) ==
  IF EngineFails THEN ((0 .. Len(erase)) \X {0}) \cup ({Len(erase)} \X (0 .. Len(tris))) ELSE {}

(* What m8d3d_replay can leave and return: all drawn and 1, part of it and *)
(* 0, or without a context nothing and 0.                                  *)
Replays(px, erase, tris) ==
  IF ~context THEN {[px |-> px, ok |-> FALSE]}
  ELSE {[px |-> Replay(px, erase, tris), ok |-> TRUE]}
       \cup {[px |-> Replay(px, SubSeq(erase, 1, n[1]), SubSeq(tris, 1, n[2])), ok |-> FALSE] :
               n \in Parts(erase, tris)}

(* The slow flip's: nothing to erase, and nothing called without triangles.*)
Atop(px, tris) == IF tris = << >> THEN {[px |-> px, ok |-> TRUE]} ELSE Replays(px, << >>, tris)

TriBoxes(tris) == [i \in DOMAIN tris |-> tris[i].box]

(* What the screen shows, and pixel by pixel what is seen of it.           *)
Screened == IF page = 1 THEN page1 ELSE card.px

Visible == [p \in Pixels |-> Screened[p]]

NoRect == << >>

Whole(a) == Area(a) = Pixels

-----------------------------------------------------------------------------
TypeOK ==
  /\ buf \in [0 .. 1 -> [ram : [Pixels -> Colours], known : BOOLEAN, filled : BOOLEAN,
                         colour : Colours, d : Seq(Rect), tris : Seq(Tris)]]
  /\ \A k \in 0 .. 1 : /\ Len(buf[k].d) <= DirtyMax /\ Len(buf[k].tris) <= TrisMax
                       /\ buf[k].tris # << >> => buf[k].known
  /\ front \in 0 .. 1 /\ sel \in 0 .. 1 /\ page \in 0 .. 1
  /\ {live, fpStale, gdi, context, paged, lapse} \subseteq BOOLEAN
  /\ DOMAIN card = {"px", "fp"} /\ Len(batch) <= BatchMax
  /\ seen \in [known : BOOLEAN, colour : Colours, d : Seq(Rect)]
  /\ drawn \in Seq(Tris) /\ box \in [0 .. 1 -> Seq(Rect)]
  /\ held \in [1 .. HeldMax -> Rect \cup {NoRect}]
  /\ direct \in {"no", "yes", "unset"}

(* Windows is up at 16 bpp, over zeroed RAM, and no buffers are made yet.  *)
Init ==
  LET black == [p \in Pixels |-> Black]
      plain == [ram |-> black, known |-> FALSE, filled |-> FALSE, colour |-> Black,
                d |-> << >>, tris |-> << >>]
  IN
  /\ buf = [k \in 0 .. 1 |-> plain] /\ front = 0 /\ live = FALSE
  /\ card = SendAll([px |-> black, fp |-> [s \in Pieces |-> NoFp]], black)
  /\ sel = 0 /\ batch = << >>
  /\ seen = [known |-> FALSE, colour |-> Black, d |-> << >>]
  /\ drawn = << >> /\ box = [h \in 0 .. 1 |-> << >>] /\ fpStale = FALSE /\ gdi = FALSE
  /\ context = FALSE /\ paged = FALSE /\ page = 0 /\ page1 = card.px
  /\ held = [i \in 1 .. HeldMax |-> NoRect] /\ locks = << >>
  /\ direct = "no" /\ lapse = FALSE
  /\ want = [k \in 0 .. 1 |-> black]

Buffers == IF live THEN 0 .. 1 ELSE {0}

(* GDI drew in a described buffer's RAM: it and the description differ.    *)
Strayed(b) == Stands(b, FALSE) # Meaning(b)

(* What the fast Flip leaves behind: a selection that waits, fingerprints  *)
(* the engine drew past, another page on the screen.  And what GDI strayed.*)
Behind == sel # front \/ fpStale \/ page = 1 \/ Strayed(buf[front])

(* The shown buffer drawn on directly, with the card told at once.         *)
OnShown(B) ==
  /\ buf' = B
  /\ seen' = Unknown(seen)
  /\ direct' = IF direct = "no" THEN "yes" ELSE direct
  /\ lapse' = (lapse \/ Behind)
  /\ UNCHANGED <<front, live, sel, batch, drawn, box, fpStale, gdi, pageVars, progVars>>

(* The hidden buffer drawn on: the card is left alone.                     *)
OnHidden(B) ==
  /\ buf' = B
  /\ UNCHANGED <<front, live, cardVars, bookVars, gdi, pageVars, progVars, direct, lapse>>

-----------------------------------------------------------------------------
(* Blt: m8dd_blt16, m8dd_blt16_do.                                         *)

FillShown(k, a, c) ==
  LET B == [buf EXCEPT ![k] = Paint(Unknown(ReadyAll(@)), Area(a), c)]
  IN  OnShown(B) /\ SendNow(B, a, 1)

FillHidden(k, a, c) ==
  OnHidden([buf EXCEPT ![k] =
    IF Whole(a) THEN Cleared(@, c)
    ELSE Dirty(Paint(Ready(TrisToRam(@), Area(a)), Area(a), c), a)])

BltFill(k, a, c) ==
  /\ locks = << >>
  /\ IF k = front THEN FillShown(k, a, c) ELSE FillHidden(k, a, c)
  /\ want' = [want EXCEPT ![k] = Over(@, Area(a), c)]

Shift(p, m) == <<p[1] + m[1], p[2] + m[2]>>

Shifted(a, m) == [l |-> a.l + m[1], t |-> a.t + m[2], r |-> a.r + m[1], b |-> a.b + m[2]]

Taken(img, src, a, m, keyed) ==
  [p \in Pixels |-> IF p \in Area(a) /\ ~(keyed /\ src[Shift(p, m)] = Key)
                    THEN src[Shift(p, m)] ELSE img[p]]

(* Mutant of DiffRects: the last changed column is left out.               *)
DiffRectsShort(old, new) ==
  LET Cols(y) == {x \in 0 .. Width - 1 : old[<<x, y>>] # new[<<x, y>>]}
  IN  {[l |-> Min(Cols(y)), t |-> y, r |-> Max(Cols(y)), b |-> y + 1] :
         y \in {z \in 0 .. Height - 1 : Cols(z) # {}}}

(* m8dd_diff_row: rows that change, each run of them one rectangle.        *)
DiffRects(old, new) ==
  LET Diff    == {p \in Pixels : old[p] # new[p]}
      Rows    == {p[2] : p \in Diff}
      Runs    == {w \in Rows \X Rows : /\ w[1] .. w[2] \subseteq Rows /\ w[1] <= w[2]
                                       /\ w[1] - 1 \notin Rows /\ w[2] + 1 \notin Rows}
      Cols(w) == {p[1] : p \in {q \in Diff : q[2] \in w[1] .. w[2]}}
  IN  {[l |-> Min(Cols(w)), t |-> w[1], r |-> Max(Cols(w)) + 1, b |-> w[2] + 1] : w \in Runs}

SendDiff(B, old, new) ==
  LET Put(v, r) == SendRect(v, B[sel].ram, r, Exact)
  IN  card' = FoldLeft(Put, card, SetToSeq(DiffRects(old, new)))

(* From system memory (s = -1) or the other buffer.                        *)
CopyShown(k, a, s, src, m, keyed) ==
  LET own  == Unknown(ReadyAll(buf[k]))
      from == IF s = -1 THEN src ELSE ReadyAll(buf[s]).ram
      new  == Taken(own.ram, from, a, m, keyed)
      B    == [j \in 0 .. 1 |-> IF j = k THEN [own EXCEPT !.ram = new]
                                ELSE IF j = s THEN ReadyAll(buf[j]) ELSE buf[j]]
  IN  OnShown(B) /\ IF keyed THEN SendNow(B, a, 0) ELSE SendDiff(B, own.ram, new)

CopyHidden(k, a, s, src, m, keyed) ==
  LET own  == Ready(TrisToRam(buf[k]), Area(a))
      from == IF s = -1 THEN src ELSE ReadyAll(buf[s]).ram
  IN  OnHidden([j \in 0 .. 1 |->
        IF j = k THEN Dirty([own EXCEPT !.ram = Taken(@, from, a, m, keyed)], a)
        ELSE IF j = s THEN ReadyAll(buf[j]) ELSE buf[j]])

BltCopy ==
  /\ locks = << >>
  /\ \E k \in Buffers, a \in Boxes, keyed \in BOOLEAN :
        LET Copy(s, src, m) ==
              /\ IF k = front THEN CopyShown(k, a, s, src, m, keyed)
                              ELSE CopyHidden(k, a, s, src, m, keyed)
              /\ want' = [want EXCEPT ![k] =
                            Taken(@, IF s = -1 THEN src ELSE want[s], a, m, keyed)]
        IN \/ \E src \in Pictures : Copy(-1, src, <<0, 0>>)
           \/ /\ 1 - k \in Buffers
              /\ \E m \in Moves :
                    Inside(Shifted(a, m), Screen) /\ Copy(1 - k, << >>, m)

(* A buffer copied to itself, rows in the order that reads before writing. *)
BltSelf ==
  /\ locks = << >>
  /\ \E k \in Buffers, a \in Boxes, m \in Moves :
        /\ Inside(Shifted(a, m), Screen)
        /\ IF k = front
           THEN LET own == Unknown(ReadyAll(buf[k]))
                    B   == [buf EXCEPT ![k] = [own EXCEPT !.ram = Taken(@, @, a, m, FALSE)]]
                IN  OnShown(B) /\ CopyNow(B, a, m)
           ELSE LET own == Ready(Ready(TrisToRam(buf[k]), Area(a)), Area(Shifted(a, m)))
                IN  OnHidden([buf EXCEPT ![k] =
                                Dirty([own EXCEPT !.ram = Taken(@, @, a, m, FALSE)], a)])
        /\ want' = [want EXCEPT ![k] = Taken(@, @, a, m, FALSE)]

(* Not handled: what DDRAW reads and writes is put in RAM, and it draws    *)
(* there.                                                                  *)
BltOwn(k, s, a, c) ==
  /\ locks = << >>
  /\ LET R == [j \in 0 .. 1 |-> IF j \in {k, s} THEN ReadyAll(buf[j]) ELSE buf[j]]
         B == [R EXCEPT ![k] = Paint(Unknown(@), Area(a), c)]
     IN  IF k = front
         THEN /\ buf' = B /\ seen' = Unknown(seen)
              /\ direct' = "unset" /\ lapse' = TRUE
              /\ UNCHANGED <<front, live, cardVars, drawn, box, fpStale, gdi, pageVars, progVars>>
         ELSE OnHidden(B)
  /\ want' = [want EXCEPT ![k] = Over(@, Area(a), c)]

-----------------------------------------------------------------------------
(* Lock, the program's writes, Unlock: m8dd_lock16, m8dd_unlock16.         *)

Free == {i \in 1 .. HeldMax : held[i] = NoRect}

Hold(r) == held' = IF Free # {} THEN [held EXCEPT ![Min(Free)] = r]
                                ELSE [held EXCEPT ![1] = Screen]

Lock ==
  /\ Len(locks) < MaxLocks
  /\ \E k \in Buffers, r \in LockBoxes, write \in BOOLEAN :
        /\ locks' = Append(locks, [k |-> k, r |-> r, write |-> write])
        /\ buf' = [buf EXCEPT ![k] = IF write THEN Unknown(ReadyAll(@)) ELSE ReadyAll(@)]
        /\ IF write /\ k = front
           THEN /\ Hold(r) /\ seen' = Unknown(seen)
                /\ direct' = IF direct = "no" THEN "yes" ELSE direct
                /\ lapse' = (lapse \/ Strayed(buf[k]))
           ELSE UNCHANGED <<held, seen, direct, lapse>>
  /\ UNCHANGED <<front, live, cardVars, drawn, box, fpStale, gdi, pageVars, context, want>>

WriteLocked ==
  /\ \E i \in DOMAIN locks, c \in Colours :
        /\ locks[i].write
        /\ buf' = [buf EXCEPT ![locks[i].k] = Paint(@, Area(locks[i].r), c)]
        /\ want' = [want EXCEPT ![locks[i].k] = Over(@, Area(locks[i].r), c)]
  /\ UNCHANGED <<front, live, cardVars, bookVars, gdi, pageVars, progVars, direct, lapse>>

(* The first rectangle held for the surface goes, whichever lock ends.     *)
Unlock ==
  /\ \E i \in DOMAIN locks :
        LET Mine == IF locks[i].k = front THEN 1 .. HeldMax \ Free ELSE {}
        IN  /\ locks' = RemoveAt(locks, i)
            /\ IF Mine # {}
               THEN /\ SendNow(buf, held[Min(Mine)], 0)
                    /\ held' = [held EXCEPT ![Min(Mine)] = NoRect]
                    /\ lapse' = (lapse \/ Behind)
               ELSE UNCHANGED <<card, held, lapse>>
  /\ UNCHANGED <<buf, front, live, sel, batch, bookVars, gdi, pageVars, context, direct, want>>

-----------------------------------------------------------------------------
(* Direct3D: contexts and triangles.                                       *)

(* m8d3d_record on a buffer with a description, or else on RAM.            *)
RecordShown(k, t) ==
  LET B == [buf EXCEPT ![k] = TriRam(@, t)]
  IN  /\ buf' = B /\ seen' = Unknown(seen)
      /\ SendNow(B, Screen, 0)
      /\ direct' = IF direct = "no" THEN "yes" ELSE direct
      /\ lapse' = (lapse \/ Behind \/ buf[k].known)
      /\ UNCHANGED <<front, live, sel, batch, drawn, box, fpStale, gdi, pageVars, progVars>>

RecordHidden(k, t) ==
  LET b == IF Len(buf[k].tris) = TrisMax THEN TrisToRam(buf[k]) ELSE buf[k]
  IN  OnHidden([buf EXCEPT ![k] = IF @.known THEN [b EXCEPT !.tris = Append(@, t)]
                                             ELSE TriRam(@, t)])

Triangle(k, t) ==
  /\ context /\ locks = << >>
  /\ IF k = front THEN RecordShown(k, t) ELSE RecordHidden(k, t)
  /\ want' = [want EXCEPT ![k] = Over(@, t.px, t.c)]

Record == \E k \in Buffers, t \in Tris : Triangle(k, t)

ContextCreate ==
  /\ live /\ ~context /\ context' = TRUE
  /\ UNCHANGED <<buf, front, live, cardVars, bookVars, pageVars, held, locks, gdi, direct, lapse, want>>

(* m8dd_pages_leave: page 0 again, whose frame is older.                   *)
LeavePages ==
  /\ page' = 0 /\ paged' = FALSE /\ UNCHANGED page1

(* m8d3d_scratch_free                                                      *)
ContextEnd ==
  /\ context /\ context' = FALSE
  /\ IF paged
     THEN /\ LeavePages /\ seen' = Unknown(seen) /\ drawn' = << >>
          /\ box' = [box EXCEPT ![0] = << >>]
          /\ direct' = IF page = 1 THEN "unset" ELSE direct
          /\ lapse' = (lapse \/ page = 1)
     ELSE UNCHANGED <<pageVars, seen, drawn, box, direct, lapse>>
  /\ UNCHANGED <<buf, front, live, cardVars, fpStale, gdi, held, locks, want>>

-----------------------------------------------------------------------------
(* Flip: m8dd_flip16.                                                      *)

Apart(a, r) == r.l >= a.r \/ r.r <= a.l \/ r.t >= a.b \/ r.b <= a.t

(* The parts of a that n does not cover.                                   *)
Split(a, n) ==
  LET band == [a EXCEPT !.t = Max({@, n.t}), !.b = Min({@, n.b})]
  IN  IF Apart(a, n) THEN <<a>>
      ELSE    (IF a.t < n.t THEN <<[a EXCEPT !.b = n.t]>> ELSE << >>)
           \o (IF n.b < a.b THEN <<[a EXCEPT !.t = n.b]>> ELSE << >>)
           \o (IF a.l < n.l THEN <<[band EXCEPT !.r = n.l]>> ELSE << >>)
           \o (IF n.r < a.r THEN <<[band EXCEPT !.l = n.r]>> ELSE << >>)

SplitAll(parts, n) == LET Add(list, a) == list \o Split(a, n) IN FoldLeft(Add, << >>, parts)

(* m8dd_fill_outside: the parts of o that none of d's rectangles covers.   *)
Outside(d, o) == FoldLeft(SplitAll, <<o>>, d)

(* Mutant of Erase: the triangles' boxes are left.                         *)
EraseRects == seen.d

(* What the card's old frame leaves to erase.                              *)
Erase == seen.d \o box[0]

Filled(parts, c) == [i \in DOMAIN parts |-> Entry("fill", parts[i], c)]

Fills(t) ==
  LET Add(list, o) == list \o Filled(Outside(t.d, o), t.colour)
  IN  FoldLeft(Add, << >>, Erase)

(* Mutant of Entries: the fingerprints are kept.                           *)
EntriesKept(k, trusted) ==
  LET t == buf[k]
  IN  <<Entry("select", Screen, k)>>
      \o (IF ~t.known THEN <<Entry("send", Screen, 0)>>
          ELSE (IF trusted THEN Fills(t) ELSE <<Entry("fill", Screen, t.colour)>>)
               \o [i \in DOMAIN t.d |-> Entry("send", t.d[i], 0)])

(* The slow flip's entries.                                                *)
Entries(k, trusted) ==
  LET t == buf[k]
  IN  (IF fpStale THEN <<Entry("forget", Screen, 0)>> ELSE << >>)
      \o <<Entry("select", Screen, k)>>
      \o (IF ~t.known THEN <<Entry("send", Screen, 0)>>
          ELSE (IF trusted THEN Fills(t) ELSE <<Entry("fill", Screen, t.colour)>>)
               \o [i \in DOMAIN t.d |-> Entry("send", t.d[i], 0)])

Described(b) == [known |-> b.known, colour |-> b.colour, d |-> b.d]

(* Triangles on black, over a card that shows the same.                    *)
Plain(b) == b.known /\ b.d = << >> /\ b.colour = Black

(* Mutant of SeenNow: GDI's calls are not noticed.                         *)
SeenStill == seen

SeenNow == [seen EXCEPT !.known = @ /\ ~gdi]

(* Mutant of Select: each selection waits.                                 *)
SelectAppended(k) == Push(buf, D0, Entry("select", Screen, k))

(* m8dd_flip16_fast's selection, left to wait.                             *)
Select(k) ==
  LET last == Len(batch)
  IN  IF last # 0 /\ batch[last].op = "select"
      THEN [D0 EXCEPT !.batch[last].arg = k]
      ELSE Push(buf, D0, Entry("select", Screen, k))

(* Triangles the engine could not draw were noted as on the card.          *)
Undrawn == lapse /\ direct = "no"

(* The note a Flip leaves of its frame, whose triangles the engine drew or *)
(* did not.                                                                *)
Noted(k, ok) ==
  /\ seen' = Described(buf[k]) /\ drawn' = buf[k].tris
  /\ lapse' = (Undrawn \/ ~ok) /\ direct' = "no"

(* Mutant of PageLost: the card is taken to be as described.               *)
PageLostKept(boxes) ==
  /\ page' = 0 /\ paged' = FALSE
  /\ seen' = seen /\ drawn' = << >> /\ box' = [boxes EXCEPT ![0] = << >>]
  /\ lapse' = TRUE /\ direct' = "unset" /\ UNCHANGED fpStale

(* Page 0 again, m8dd_pages_leave, when the engine gave up on a page.      *)
PageLost(boxes) ==
  /\ page' = 0 /\ paged' = FALSE
  /\ seen' = Unknown(seen) /\ drawn' = << >> /\ box' = [boxes EXCEPT ![0] = << >>]
  /\ lapse' = TRUE /\ direct' = "unset" /\ UNCHANGED fpStale

(* The second page could not be cleared: this frame is not shown.          *)
PageUncleared(k) ==
  /\ EngineFails /\ ~paged
  /\ Becomes(Select(k)) /\ seen' = Unknown(seen)
  /\ lapse' = TRUE /\ direct' = "unset"
  /\ UNCHANGED <<drawn, box, fpStale, pageVars>>

(* Mutant of BoxesOn: page 0's boxes are erased, whichever page is drawn.  *)
BoxesOnFirst(h) == box[0]

(* What a page has to erase; page 1 is cleared before its first frame.     *)
BoxesOn(h) == IF h = 1 /\ ~paged THEN << >> ELSE box[h]

(* m8dd_page_frame: the frame on the hidden page, and that page shown.     *)
PageFrame(k) ==
  LET h     == IF paged THEN 1 - page ELSE 1
      boxes == IF paged THEN box ELSE [box EXCEPT ![1] = << >>]
      under == IF h = 0 THEN card.px
               ELSE IF paged THEN page1 ELSE [p \in Pixels |-> Shown(p, Black)]
      d     == Select(k)
  IN  \E o \in Replays(under, BoxesOn(h), buf[k].tris) :
        /\ IF h = 0 THEN Becomes([d EXCEPT !.card.px = o.px]) /\ UNCHANGED page1
                    ELSE page1' = o.px /\ Becomes(d)
        /\ IF o.ok
           THEN /\ paged' = TRUE /\ page' = h /\ fpStale' = TRUE
                /\ box' = [boxes EXCEPT ![h] = TriBoxes(buf[k].tris)]
                /\ Noted(k, TRUE)
           ELSE PageLost(boxes)

(* The frame drawn over the last one, and noted whether it was or not.     *)
OneFrame(k) ==
  LET d == Select(k)
  IN  /\ \E o \in Replays(d.card.px, box[0], buf[k].tris) :
            Becomes([d EXCEPT !.card.px = o.px]) /\ Noted(k, o.ok)
      /\ box' = [box EXCEPT ![0] = TriBoxes(buf[k].tris)] /\ fpStale' = TRUE
      /\ UNCHANGED pageVars

FlipFast(k) ==
  /\ Plain(buf[k]) /\ Plain(SeenNow)
  /\ \/ /\ buf[k].tris = drawn
        /\ Becomes(Select(k)) /\ Noted(k, TRUE)
        /\ UNCHANGED <<box, fpStale, pageVars>>
     \/ /\ buf[k].tris # drawn /\ PagesFit /\ context
        /\ PageFrame(k) \/ PageUncleared(k)
     \/ /\ buf[k].tris # drawn /\ ~(PagesFit /\ context)
        /\ OneFrame(k)

(* Pages left, the fingerprints dropped if the engine drew, what differs   *)
(* filled and sent, the triangles drawn, and noted whether they were.      *)
FlipSlow(k) ==
  /\ ~(Plain(buf[k]) /\ Plain(SeenNow))
  /\ LET t       == buf[k]
         trusted == SeenNow.known /\ ~paged /\ seen.colour = t.colour
         d       == Flushed(buf, PushAll(buf, D0, Entries(k, trusted)))
     IN  /\ \E o \in Atop(d.card.px, t.tris) :
               /\ Becomes([d EXCEPT !.card.px = o.px])
               /\ lapse' = ((Undrawn /\ trusted) \/ ~o.ok)
         /\ LeavePages
         /\ seen' = Described(t) /\ direct' = "no"
         /\ drawn' = t.tris /\ box' = [box EXCEPT ![0] = TriBoxes(t.tris)]
         /\ fpStale' = (t.tris # << >>)

Flip ==
  /\ live /\ locks = << >>
  /\ FlipFast(1 - front) \/ FlipSlow(1 - front)
  /\ front' = 1 - front /\ gdi' = FALSE
  /\ UNCHANGED <<buf, live, progVars, want>>

-----------------------------------------------------------------------------
(* GDI's drawing, and the pair made and given up.                          *)

(* Mutant of GdiSends: the list is sent, whichever buffer is selected.      *)
GdiSendsAlways(polyline) == TRUE

(* m8_fb16_end sends while the frame buffer is selected, and drops its list*)
(* otherwise; a polyline's strips go from whichever buffer is selected.    *)
GdiSends(polyline) == sel = 0 \/ polyline

(* GDI draws beside buffer 1, shown and selected, and sends nothing.       *)
Beside(polyline) == front = 1 /\ sel = 1 /\ ~polyline

(* A window of the program's repainted, in buffer 0: m8_fb16_begin shows   *)
(* page 0 first.                                                           *)
Gdi ==
  /\ \E a \in GdiBoxes, c \in Colours, polyline \in BOOLEAN :
        LET B == [buf EXCEPT ![0] = Paint(@, Area(a), c)]
        IN  /\ buf' = B
            /\ card' = IF GdiSends(polyline) THEN Flush(card, B[sel].ram, a) ELSE card
            /\ want' = [want EXCEPT ![0] = Meaning(B[0])]
            /\ lapse' = \/ lapse
                        \/ live /\ page = 1
                        \/ live /\ ~Beside(polyline) /\ (Behind \/ buf[front].known)
  /\ gdi' = TRUE /\ page' = 0
  /\ direct' = IF live \/ locks # << >> THEN "unset" ELSE direct
  /\ UNCHANGED <<front, live, sel, batch, bookVars, paged, page1, progVars>>

(* m8dd_create16: memory for buffer 1 as it was left; both black by        *)
(* description, and the card not touched.  Without memory nothing changes. *)
Create16 ==
  /\ ~live /\ locks = << >>
  /\ Becomes(Flushed(buf, Push(buf, D0, Entry("alloc", Screen, 0))))
  /\ buf' = [k \in 0 .. 1 |-> Cleared(buf[k], Black)]
  /\ want' = [k \in 0 .. 1 |-> [p \in Pixels |-> Black]]
  /\ live' = TRUE /\ front' = 0
  /\ seen' = Unknown(seen) /\ drawn' = << >> /\ box' = [box EXCEPT ![0] = << >>]
  /\ fpStale' = FALSE /\ direct' = "unset" /\ lapse' = TRUE
  /\ UNCHANGED <<pageVars, progVars, gdi>>

(* m8dd_destroy16: buffer 0 in RAM, selected and sent whole.  A 3D context *)
(* on the pair has gone first.                                             *)
Destroy16 ==
  /\ live /\ locks = << >>
  /\ LET B    == [buf EXCEPT ![0] = ReadyAll(@)]
         list == <<Entry("select", Screen, 0), Entry("forget", Screen, 0),
                   Entry("send", Screen, 0), Entry("free", Screen, 0)>>
     IN  /\ buf' = [k \in 0 .. 1 |-> [Unknown(B[k]) EXCEPT !.tris = << >>]]
         /\ want' = [want EXCEPT ![1] = B[1].ram]
         /\ Becomes(Flushed(B, PushAll(B, D0, list)))
  /\ LeavePages
  /\ live' = FALSE /\ front' = 0 /\ context' = FALSE
  /\ seen' = Unknown(seen)
  /\ IF paged THEN drawn' = << >> /\ box' = [box EXCEPT ![0] = << >>] ELSE UNCHANGED <<drawn, box>>
  /\ direct' = "no" /\ lapse' = FALSE
  /\ UNCHANGED <<fpStale, gdi, held, locks>>

-----------------------------------------------------------------------------
Next ==
  \/ \E k \in Buffers, a \in Boxes, c \in Colours : BltFill(k, a, c)
  \/ BltCopy \/ BltSelf
  \/ \E k, s \in Buffers, a \in Boxes, c \in Colours : BltOwn(k, s, a, c)
  \/ Lock \/ WriteLocked \/ Unlock
  \/ Record \/ ContextCreate \/ ContextEnd
  \/ Flip \/ Gdi \/ Create16 \/ Destroy16

Spec == Init /\ [][Next]_vars

-----------------------------------------------------------------------------
(* Where GDI strayed, either may be shown.                                 *)
OnScreen ==
  LET b == buf[front]
  IN  \A p \in Pixels : \/ Screened[p] = Shown(p, want[front][p])
                        \/ b.filled /\ Screened[p] = Shown(p, Stands(b, FALSE)[p])

Locked == \E i \in DOMAIN locks : locks[i].write /\ locks[i].k = front

Promise == INSTANCE DdBuffers WITH
  Points <- Pixels, Look <- Shown,
  content <- want, screen <- Visible, open <- Locked, loose <- lapse

(* A buffer's RAM, description and triangles stand for what was drawn in it*)
(* (m8dd32.c:553-561).                                                     *)
Stand == \A k \in Buffers : Meaning(buf[k]) = want[k]

(* The two buffers, with their descriptions, batches, triangles and pages, *)
(* keep what DirectDraw promises (m8dd32.c:545, :553): a hidden buffer is  *)
(* drawn on unseen and shown whole by Flip.  Where GDI does not draw too,  *)
(* and the 3D context stays.                                               *)
ImplementsBuffers == Promise!Spec

(* While no lapse excuses it, the screen is the shown buffer               *)
(* (m8dd32.c:555: "The card shows m8dd_front").                            *)
FrontShown == ~lapse /\ ~Locked => OnScreen

(* What m8dd_card says of the card is so (m8dd32.c:577 "what the card      *)
(* shows, while its `known`"), wherever the next Flip would rely on it.    *)
SeenIsSo ==
  seen.known /\ ~gdi /\ ~lapse =>
    /\ \A p \in Pixels \ (Cover(seen.d) \cup Cover(box[0])) : card.px[p] = Shown(p, seen.colour)
    /\ paged => \A p \in Pixels \ Cover(box[1]) : page1[p] = Shown(p, Black)

(* A fingerprint speaks for pixels the card shows, unless the engine drew  *)
(* since (m8dd32.c:590, m8dd_fp_stale; fb16.c:50-55).                      *)
FingerprintsTrue ==
  fpStale \/ \A s \in Pieces : card.fp[s] # NoFp =>
               \A p \in InPiece(s) : card.px[p] = Shown(p, card.fp[s][p])

(* Only a selection of the shown buffer ever waits in the batch            *)
(* (m8dd32.c:1477-1480).                                                   *)
OneSelectionWaits ==
  \/ batch = << >> /\ sel = front
  \/ Len(batch) = 1 /\ batch[1].op = "select" /\ batch[1].arg = front

(* What Unlock and Blt change of the shown buffer is on the screen when    *)
(* they return (m8dd32.c:545-546).                                         *)
DirectShown == direct # "unset" /\ locks = << >> => OnScreen

(* The same after a Flip that sent the shown buffer and had the engine draw*)
(* (fb16.c:1282-1284).                                                     *)
SentShown ==
  direct = "yes" /\ locks = << >> /\ sel = front /\ fpStale /\ ~buf[front].known => OnScreen

(* And a triangle drawn on the shown buffer (m8dd32.c:1986-1988 "its RAM   *)
(* takes it, and the changed part is sent").                               *)
TriangleShown ==
  direct = "yes" /\ locks = << >> /\ sel = front /\ ~fpStale => OnScreen

(* A frame without triangles shows none of the last one's                  *)
(* (m8dd32.c:1479 "The last frame's boxes are erased").                    *)
NoneLeft == direct = "no" /\ live /\ buf[front].tris = << >> => OnScreen

=============================================================================
