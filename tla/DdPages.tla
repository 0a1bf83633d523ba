------------------------------ MODULE DdPages ------------------------------
(***************************************************************************)
(* When Direct3D's two pages at 640x480 are drawn on and shown             *)
(* (src/drivers/mach8_display/src/m8dd32.c, m8dd_page_show to              *)
(* m8dd_page_frame), and GDI, which brings page 0 back at any moment       *)
(* (fb16.c, m8_fb16_begin).  Dd16 says what the pages hold; here is time.  *)
(*                                                                         *)
(* The beam crosses a frame in Frame ticks, the first Blank of them the    *)
(* vertical blank, at whose start the card takes CRT_OFFSET.  The latch    *)
(* SUBSYS bit 0 sets at a blank and again, once acknowledged, for as long  *)
(* as that blank lasts.  Any time may pass between two steps of a thread.  *)
(* GDI runs under Win16Mutex, which a slow Flip takes on its way to the    *)
(* 16-bit side and a fast one does not.                                    *)
(***************************************************************************)
EXTENDS Integers

CONSTANTS
  Frame, Blank,   \* ticks of a frame (72 Hz), and of its blank
  PageTicks,      \* M8DD_PAGE_TICKS, "over a frame at 72 Hz"
  Spins,          \* m8dd_page_wait's n: m8dd_spin is a tick at least
  Wrap            \* 2^32: the clock's low part

ASSUME TimeAssumption ==
  /\ Frame \in Nat /\ Blank \in Nat \ {0} /\ Blank < Frame
  /\ PageTicks \in Nat /\ Frame <= PageTicks
  /\ Spins \in Nat /\ Frame <= Spins
  /\ Wrap \in Nat /\ PageTicks < Wrap

VARIABLES
  phase,     \* where the beam is: ticks since the blank began
  latches,   \* a card whose latch sets, or never does
  latch,     \* the latch
  offset,    \* CRT_OFFSET: the page to show from the next blank on
  shown,     \* the page the beam reads
  pc,        \* Flip's thread
  on,        \* m8dd_pages_on
  page,      \* m8dd_page
  known,     \* m8dd_card.known: the next Flip may be a fast one
  pending,   \* m8dd_page_pending
  inBlank,   \* m8dd_page_in_blank
  age,       \* the clock's low part less m8dd_page_t
  n,         \* m8dd_page_wait's n
  spun,      \* a tick has passed in m8dd_spin
  flag,      \* m8_fb16_stat[4]: page 1 is shown
  gdi,       \* m8_fb16_stat[0] has moved since m8dd_gdi_seen
  gpc,       \* GDI's thread
  by         \* history: "flip" wrote CRT_OFFSET last, or "other"

cardVars == <<phase, latches, latch, offset, shown>>
waitVars == <<pending, inBlank, age, n, spun>>
gdiVars  == <<flag, gdi, gpc>>
pageVars == <<on, page, known>>
vars == <<cardVars, waitVars, gdiVars, pageVars, pc, by>>

Steps == {"idle", "enter", "clear", "wait", "clock", "ack", "spin", "look", "count",
          "draw", "flag", "offset", "latch", "blank", "stamp",
          "leave", "leaveOffset", "flush", "drop", "dropOffset"}

TypeOK ==
  /\ phase \in 0 .. Frame - 1
  /\ latches \in BOOLEAN /\ latch \in BOOLEAN /\ offset \in 0 .. 1 /\ shown \in 0 .. 1
  /\ pc \in Steps /\ on \in BOOLEAN /\ page \in 0 .. 1 /\ known \in BOOLEAN
  /\ pending \in BOOLEAN /\ inBlank \in BOOLEAN
  /\ age \in 0 .. Wrap - 1 /\ n \in 0 .. Spins /\ spun \in BOOLEAN
  /\ flag \in BOOLEAN /\ gdi \in BOOLEAN
  /\ gpc \in {"out", "test", "clear", "show", "draw"}
  /\ by \in {"flip", "other"}

Init ==
  /\ phase \in 0 .. Frame - 1 /\ latches \in BOOLEAN /\ latch = (latches /\ phase < Blank)
  /\ offset = 0 /\ shown = 0
  /\ pc = "idle" /\ on = FALSE /\ page = 0 /\ known = FALSE
  /\ pending = FALSE /\ inBlank = FALSE /\ age = 0 /\ n = 0 /\ spun = FALSE
  /\ flag = FALSE /\ gdi = FALSE /\ gpc = "out" /\ by = "other"

-----------------------------------------------------------------------------
(* The card and the clock.                                                 *)

InBlank(x) == x < Blank

After(x, m) == IF x + 1 = m THEN 0 ELSE x + 1

Tick ==
  /\ phase' = After(phase, Frame)
  /\ shown' = IF phase' = 0 THEN offset ELSE shown
  /\ latch' = (latch \/ (latches /\ InBlank(phase')))
  /\ age' = After(age, Wrap) /\ spun' = TRUE
  /\ UNCHANGED <<latches, offset, pc, pageVars, pending, inBlank, n, gdiVars, by>>

(* SUBSYS written 1: cleared, but not for long in a blank.                 *)
Acknowledge == latch' = (latches /\ InBlank(phase)) /\ UNCHANGED <<phase, latches, offset, shown>>

Go(a, b) == pc = a /\ pc' = b

-----------------------------------------------------------------------------
(* m8dd_flip16: a slow Flip leaves the pages, a fast one draws on one.     *)

(* Slow if GDI drew, or a Lock or a direct blit dropped the description;   *)
(* nothing at all if the card shows the same triangles.                    *)
Flip ==
  /\ pc = "idle" /\ gdi' = FALSE
  /\ \/ known /\ ~gdi /\ pc' \in {"enter", "idle"} /\ UNCHANGED known
     \/ pc' = "leave" /\ known' = FALSE
  /\ UNCHANGED <<cardVars, waitVars, on, page, flag, gpc, by>>

(* The 3D context ends; page 1 may be another's scratch from here on.      *)
ContextEnds ==
  /\ Go("idle", "drop")
  /\ UNCHANGED <<cardVars, waitVars, gdiVars, pageVars, by>>

(* m8dd_pages_leave                                                        *)
LeaveFrom(a, b, c) ==
  /\ IF on THEN Go(a, b) /\ flag' = FALSE ELSE Go(a, c) /\ UNCHANGED flag
  /\ UNCHANGED <<cardVars, waitVars, pageVars, gdi, gpc, by>>

ShowFirst(a, b) ==
  /\ Go(a, b)
  /\ offset' = 0 /\ page' = 0 /\ by' = "other"
  /\ on' = FALSE /\ pending' = FALSE /\ known' = FALSE
  /\ UNCHANGED <<phase, latches, latch, shown, inBlank, age, n, spun, gdiVars>>

Leave == LeaveFrom("leave", "leaveOffset", "flush") \/ ShowFirst("leaveOffset", "flush")
Drop  == LeaveFrom("drop", "dropOffset", "idle")    \/ ShowFirst("dropOffset", "idle")

(* The 16-bit side waits for GDI; the card is described again, or not.     *)
FlushAll ==
  /\ Go("flush", "idle") /\ gpc = "out" /\ known' \in BOOLEAN
  /\ UNCHANGED <<cardVars, waitVars, gdiVars, on, page, by>>

(* m8dd_page_frame: page 1 cleared first when the pages are entered.       *)
Enter ==
  /\ Go("enter", IF on THEN "wait" ELSE "clear")
  /\ UNCHANGED <<cardVars, waitVars, gdiVars, pageVars, by>>

Clear ==
  /\ Go("clear", "wait") /\ on' = TRUE /\ page' = 0
  /\ UNCHANGED <<cardVars, waitVars, gdiVars, known, by>>

(* The engine could not be used.                                           *)
ClearFails ==
  /\ Go("clear", "idle") /\ known' = FALSE
  /\ UNCHANGED <<cardVars, waitVars, gdiVars, on, page, by>>

-----------------------------------------------------------------------------
(* m8dd_page_wait.                                                         *)

(* Mutant of Wait: a latch set is a blank begun, wherever the write landed.*)
WaitBlind ==
  /\ pc = "wait" /\ pending' = FALSE
  /\ pc' = IF ~pending \/ latch THEN "draw" ELSE "clock"
  /\ UNCHANGED <<cardVars, inBlank, age, n, spun, gdiVars, pageVars, by>>

Wait ==
  /\ pc = "wait" /\ pending' = FALSE
  /\ pc' = IF ~pending \/ (~inBlank /\ latch) THEN "draw" ELSE "clock"
  /\ UNCHANGED <<cardVars, inBlank, age, n, spun, gdiVars, pageVars, by>>

Clock ==
  /\ pc = "clock" /\ n' = Spins
  /\ pc' = IF age >= PageTicks THEN "draw" ELSE IF inBlank THEN "ack" ELSE "look"
  /\ UNCHANGED <<cardVars, pending, inBlank, age, spun, gdiVars, pageVars, by>>

(* Written inside a blank: until the latch stays clear.                    *)
Ack ==
  /\ Go("ack", "spin") /\ Acknowledge /\ spun' = FALSE
  /\ UNCHANGED <<pending, inBlank, age, n, gdiVars, pageVars, by>>

(* Mutant of Spin: a latch that is set again is not counted.               *)
SpinWhole ==
  /\ pc = "spin" /\ spun /\ pc' = IF latch THEN "ack" ELSE "look"
  /\ UNCHANGED <<cardVars, waitVars, gdiVars, pageVars, by>>

Spin ==
  /\ pc = "spin" /\ spun
  /\ n' = IF latch THEN n - 1 ELSE n
  /\ pc' = IF latch /\ n' # 0 THEN "ack" ELSE "look"
  /\ UNCHANGED <<cardVars, pending, inBlank, age, spun, gdiVars, pageVars, by>>

(* Mutant of Look: the latch alone ends it.                                *)
LookOn ==
  /\ pc = "look" /\ pc' = IF latch THEN "draw" ELSE "count"
  /\ spun' = FALSE
  /\ UNCHANGED <<cardVars, pending, inBlank, age, n, gdiVars, pageVars, by>>

(* Until it sets, or n runs out.                                           *)
Look ==
  /\ pc = "look" /\ pc' = IF n = 0 \/ latch THEN "draw" ELSE "count"
  /\ spun' = FALSE
  /\ UNCHANGED <<cardVars, pending, inBlank, age, n, gdiVars, pageVars, by>>

(* Mutant of Count: the wait has no end of its own.                        *)
CountNone ==
  /\ Go("count", "look") /\ spun
  /\ UNCHANGED <<cardVars, waitVars, gdiVars, pageVars, by>>

Count ==
  /\ Go("count", "look") /\ spun /\ n' = n - 1
  /\ UNCHANGED <<cardVars, pending, inBlank, age, spun, gdiVars, pageVars, by>>

-----------------------------------------------------------------------------
(* The frame drawn on the hidden page, and that page shown.                *)

Hidden == 1 - page

Draw ==
  /\ Go("draw", "flag")
  /\ UNCHANGED <<cardVars, waitVars, gdiVars, pageVars, by>>

DrawFails ==
  /\ Go("draw", "drop")
  /\ UNCHANGED <<cardVars, waitVars, gdiVars, pageVars, by>>

(* m8dd_page_show                                                          *)
SetFlag ==
  /\ Go("flag", "offset") /\ flag' = (Hidden = 1)
  /\ UNCHANGED <<cardVars, waitVars, gdi, gpc, pageVars, by>>

SetOffset ==
  /\ Go("offset", "latch") /\ offset' = Hidden /\ page' = Hidden /\ by' = "flip"
  /\ UNCHANGED <<phase, latches, latch, shown, waitVars, gdiVars, on, known>>

(* And what the next wait will need.                                       *)
ClearLatch ==
  /\ Go("latch", "blank") /\ Acknowledge
  /\ UNCHANGED <<waitVars, gdiVars, pageVars, by>>

NoteBlank ==
  /\ Go("blank", "stamp") /\ inBlank' = latch
  /\ UNCHANGED <<cardVars, pending, age, n, spun, gdiVars, pageVars, by>>

(* Mutant of Stamp: GDI's count taken as seen when the Flip ends.          *)
StampSeen ==
  /\ Go("stamp", "idle") /\ age' = 0 /\ pending' = TRUE /\ gdi' = FALSE
  /\ UNCHANGED <<cardVars, inBlank, n, spun, flag, gpc, pageVars, by>>

Stamp ==
  /\ Go("stamp", "idle") /\ age' = 0 /\ pending' = TRUE
  /\ UNCHANGED <<cardVars, inBlank, n, spun, gdiVars, pageVars, by>>

-----------------------------------------------------------------------------
(* m8_fb16_begin on another thread: counted, then page 0 shown if page 1   *)
(* is said to be.                                                          *)

GdiStep(a, b) == gpc = a /\ gpc' = b

GdiBegin ==
  /\ GdiStep("out", "test") /\ gdi' = TRUE
  /\ UNCHANGED <<cardVars, waitVars, flag, pc, pageVars, by>>

GdiTest ==
  /\ GdiStep("test", IF flag THEN "clear" ELSE "draw")
  /\ UNCHANGED <<cardVars, waitVars, flag, gdi, pc, pageVars, by>>

GdiClear ==
  /\ GdiStep("clear", "show") /\ flag' = FALSE
  /\ UNCHANGED <<cardVars, waitVars, gdi, pc, pageVars, by>>

GdiShow ==
  /\ GdiStep("show", "draw") /\ offset' = 0 /\ by' = "other"
  /\ UNCHANGED <<phase, latches, latch, shown, waitVars, flag, gdi, pc, pageVars>>

GdiEnd ==
  /\ GdiStep("draw", "out")
  /\ UNCHANGED <<cardVars, waitVars, flag, gdi, pc, pageVars, by>>

-----------------------------------------------------------------------------
FlipSteps ==
  \/ Leave \/ Drop \/ FlushAll \/ Enter \/ Clear \/ ClearFails
  \/ Wait \/ Clock \/ Ack \/ Spin \/ Look \/ Count
  \/ Draw \/ DrawFails \/ SetFlag \/ SetOffset \/ ClearLatch \/ NoteBlank \/ Stamp

GdiSteps == GdiTest \/ GdiClear \/ GdiShow \/ GdiEnd

Next == Tick \/ Flip \/ ContextEnds \/ FlipSteps \/ GdiBegin \/ GdiSteps

Spec == Init /\ [][Next]_vars

(* Time passes, and a thread that can run does.                            *)
FairSpec == Spec /\ WF_vars(Tick) /\ WF_vars(FlipSteps) /\ WF_vars(GdiSteps)

-----------------------------------------------------------------------------
(* The frame is never drawn where the beam reads, once Flip itself showed  *)
(* the other page (m8dd32.c:1362-1366 "until then the old page is on screen*)
(* and must not be drawn on").                                             *)
DrawnUnseen == pc = "draw" /\ by = "flip" => shown # Hidden

(* GDI may slip in between Flip's flag and its CRT_OFFSET, and page 1 is   *)
(* then shown with the flag down; but the next Flip knows of GDI's call    *)
(* and brings page 0 back (m8dd32.c:1524-1529, fb16.c:134-136).            *)
LostFlagNoticed == pc = "idle" /\ offset = 1 /\ ~flag => gdi

(* A wait for the beam ends, latch or no latch, and the frame is shown     *)
(* (m8dd32.c:1410-1439).                                                   *)
FrameShown == pc = "wait" ~> pc = "idle"

(* Nor is page 1 cleared, as the pages are entered, while the beam is still*)
(* on it after they were left (m8dd32.c:1364-1366).                        *)
ClearedUnseen == pc = "clear" => shown # 1

(* "M8DD32 sets it while page 1 is shown, and GDI draws on page 0, so the  *)
(* first drawing call shows page 0" (fb16.c:135-136).                      *)
FlagWhilePage1 == pc = "idle" /\ offset = 1 => flag
=============================================================================
