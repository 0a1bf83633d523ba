--------------------------- MODULE DdPagesProofs ---------------------------
(***************************************************************************)
(* DdPages for every frame, blank and count: types, no frame drawn where   *)
(* the beam reads, and a lost page flag that the next Flip hears of.       *)
(*                                                                         *)
(* A write of CRT_OFFSET that the card has not taken (Untaken) was made in *)
(* the frame the beam is still in.  So no more time than phase can have    *)
(* passed since: neither the clock nor m8dd_page_wait's n can end the wait;*)
(* and no blank can begin, so the latch, once seen clear, stays clear.     *)
(***************************************************************************)
EXTENDS DdPages, TLAPS

Untaken == by = "flip" /\ shown # page

Waiting == {"clock", "ack", "spin", "look", "count"}
Showing == {"latch", "blank", "stamp"}
OnPages == Waiting \cup Showing
             \cup {"wait", "draw", "flag", "offset", "leaveOffset", "dropOffset"}

(* The pages are on where the code supposes it.                            *)
Shape ==
  /\ pc \in OnPages => on
  /\ pc \in {"clear", "flush"} => ~on
  /\ ~on => offset = 0 /\ by = "other"
  /\ by = "flip" => offset = page
  /\ pc \in {"ack", "spin", "count"} => n > 0
  /\ pending => pc \notin Waiting \cup Showing \cup {"draw", "flag", "offset"}

(* No blank to come in this frame, and the latch clear.                    *)
Past == ~latch /\ (latches => phase >= Blank)

(* What a thread that waits may rely on while the write is not taken.      *)
Beam ==
  Untaken =>
    /\ pending \/ pc \in Waiting \cup Showing
    /\ pc = "blank" /\ ~latch => Past
    /\ pc = "stamp" /\ ~inBlank => Past
    /\ pending \/ pc \in Waiting => age <= phase /\ (~inBlank => Past)
    /\ pc \in {"ack", "spin", "look", "count"} => Spins - n <= phase
    /\ pc \in {"spin", "count"} /\ spun => Spins - n + 1 <= phase
    /\ pc = "spin" /\ ~latch => Past
    /\ pc \in {"look", "count"} => Past

(* Whose turn the flag is.                                                 *)
Heard ==
  /\ gpc # "out" => gdi \/ pc \in {"leave", "leaveOffset", "flush"}
  /\ offset = 1 /\ ~flag => gdi \/ pc \in {"leave", "leaveOffset", "dropOffset", "offset"}
  /\ pc = "offset" /\ page = 0 => flag \/ gdi

IInv == TypeOK /\ Shape /\ Beam /\ Heard

-----------------------------------------------------------------------------
(* Types; n is counted down only where it is not 0 (m8dd32.c:1431, 1434).  *)
LEMMA TypeStep ==
  ASSUME TypeOK, Shape, [Next]_vars
  PROVE  TypeOK'
<1> USE TimeAssumption DEF TypeOK, Steps, Shape, cardVars, waitVars, gdiVars, pageVars
<1>1. CASE Tick
  BY <1>1 DEF Tick, After, InBlank
<1>2. CASE Flip
  <2>1. CASE known /\ ~gdi /\ pc' \in {"enter", "idle"} /\ UNCHANGED known
    BY <1>2, <2>1 DEF Flip
  <2>2. CASE pc' = "leave" /\ known' = FALSE
    BY <1>2, <2>2 DEF Flip
  <2> QED BY <1>2, <2>1, <2>2 DEF Flip
<1>3. CASE ContextEnds
  BY <1>3 DEF ContextEnds, Go
<1>4. CASE Leave
  <2>1. CASE LeaveFrom("leave", "leaveOffset", "flush")
    <3>1. pc' \in {"leaveOffset", "flush"} /\ flag' \in BOOLEAN
      BY ONLY TypeOK, <2>1 DEF LeaveFrom, Go, TypeOK
    <3>2. UNCHANGED <<phase, latches, latch, offset, shown, pending, inBlank, age, n, spun,
                      gdi, gpc, on, page, known, by>>
      BY ONLY <2>1 DEF LeaveFrom, cardVars, waitVars, pageVars
    <3> QED BY ONLY TypeOK, <3>1, <3>2 DEF TypeOK, Steps
  <2>2. CASE ShowFirst("leaveOffset", "flush")
    <3>1. offset' \in 0 .. 1 /\ page' \in 0 .. 1 /\ pc' \in Steps
      BY <2>2 DEF ShowFirst, Go
    <3>2. by' \in {"flip", "other"} /\ on' \in BOOLEAN /\ pending' \in BOOLEAN /\ known' \in BOOLEAN
      BY <2>2 DEF ShowFirst
    <3> QED BY <2>2, <3>1, <3>2 DEF ShowFirst
  <2> QED BY <1>4, <2>1, <2>2 DEF Leave
<1>5. CASE Drop
  <2>1. CASE LeaveFrom("drop", "dropOffset", "idle")
    <3>1. pc' \in {"dropOffset", "idle"} /\ flag' \in BOOLEAN
      BY ONLY TypeOK, <2>1 DEF LeaveFrom, Go, TypeOK
    <3>2. UNCHANGED <<phase, latches, latch, offset, shown, pending, inBlank, age, n, spun,
                      gdi, gpc, on, page, known, by>>
      BY ONLY <2>1 DEF LeaveFrom, cardVars, waitVars, pageVars
    <3> QED BY ONLY TypeOK, <3>1, <3>2 DEF TypeOK, Steps
  <2>2. CASE ShowFirst("dropOffset", "idle")
    <3>1. offset' \in 0 .. 1 /\ page' \in 0 .. 1 /\ pc' \in Steps
      BY <2>2 DEF ShowFirst, Go
    <3>2. by' \in {"flip", "other"} /\ on' \in BOOLEAN /\ pending' \in BOOLEAN /\ known' \in BOOLEAN
      BY <2>2 DEF ShowFirst
    <3> QED BY <2>2, <3>1, <3>2 DEF ShowFirst
  <2> QED BY <1>5, <2>1, <2>2 DEF Drop
<1>6. CASE FlushAll
  BY <1>6 DEF FlushAll, Go
<1>7. CASE Enter
  BY <1>7 DEF Enter, Go
<1>8. CASE Clear
  BY <1>8 DEF Clear, Go
<1>9. CASE ClearFails
  BY <1>9 DEF ClearFails, Go
<1>10. CASE Wait
  BY <1>10 DEF Wait
<1>11. CASE Clock
  BY <1>11 DEF Clock
<1>12. CASE Ack
  BY <1>12 DEF Ack, Acknowledge, Go, InBlank
<1>13. CASE Spin
  BY <1>13 DEF Spin
<1>14. CASE Look
  BY <1>14 DEF Look
<1>15. CASE Count
  BY <1>15 DEF Count, Go
<1>16. CASE Draw
  BY <1>16 DEF Draw, Go
<1>17. CASE DrawFails
  BY <1>17 DEF DrawFails, Go
<1>18. CASE SetFlag
  BY <1>18 DEF SetFlag, Hidden, Go
<1>19. CASE SetOffset
  BY <1>19 DEF SetOffset, Hidden, Go
<1>20. CASE ClearLatch
  BY <1>20 DEF ClearLatch, Acknowledge, Go, InBlank
<1>21. CASE NoteBlank
  BY <1>21 DEF NoteBlank, Go
<1>22. CASE Stamp
  BY <1>22 DEF Stamp, Go
<1>23. CASE GdiBegin
  BY <1>23 DEF GdiBegin, GdiStep
<1>24. CASE GdiTest
  <2>1. UNCHANGED <<cardVars, waitVars, flag, gdi, pc, pageVars, by>>
    BY <1>24 DEF GdiTest
  <2>2. gpc' \in {"clear", "draw"}
    <3>1. CASE flag
      BY ONLY <1>24, <3>1 DEF GdiTest, GdiStep
    <3>2. CASE ~flag
      BY ONLY <1>24, <3>2 DEF GdiTest, GdiStep
    <3> QED BY ONLY <3>1, <3>2
  <2>3. UNCHANGED <<phase, latches, latch, offset, shown, pending, inBlank, age, n, spun,
                    flag, gdi, pc, on, page, known, by>>
    BY ONLY <2>1 DEF cardVars, waitVars, pageVars
  <2> QED BY ONLY TypeOK, <2>2, <2>3 DEF TypeOK, Steps
<1>25. CASE GdiShow
  BY <1>25 DEF GdiShow, GdiStep
<1>26. CASE GdiEnd
  BY <1>26 DEF GdiEnd, GdiStep
<1>28. CASE GdiClear
  <2>1. flag' \in BOOLEAN /\ gpc' = "show"
    BY ONLY <1>28 DEF GdiClear, GdiStep
  <2>2. UNCHANGED <<phase, latches, latch, offset, shown, pending, inBlank, age, n, spun,
                    gdi, pc, on, page, known, by>>
    BY ONLY <1>28 DEF GdiClear, cardVars, waitVars, pageVars
  <2> QED BY ONLY TypeOK, <2>1, <2>2 DEF TypeOK, Steps
<1>27. CASE UNCHANGED vars
  BY <1>27 DEF vars
<1> QED BY <1>1, <1>2, <1>3, <1>4, <1>5, <1>6, <1>7, <1>8, <1>9, <1>10, <1>11,
      <1>12, <1>13, <1>14, <1>15, <1>16, <1>17, <1>18, <1>19, <1>20, <1>21,
      <1>22, <1>23, <1>24, <1>25, <1>26, <1>27, <1>28 DEF Next, FlipSteps, GdiSteps

(* The pages on and off, and what Flip wrote last (m8dd32.c:1394-1472).     *)
LEMMA ShapeStep ==
  ASSUME TypeOK, Shape, [Next]_vars
  PROVE  Shape'
<1> USE TimeAssumption DEF TypeOK, Shape, OnPages, Waiting, Showing, cardVars, waitVars, gdiVars, pageVars
<1>1. CASE Tick
  BY <1>1 DEF Tick, After, InBlank
<1>2. CASE Flip
  BY <1>2 DEF Flip
<1>3. CASE ContextEnds
  BY <1>3 DEF ContextEnds, Go
<1>4. CASE Leave
  BY <1>4 DEF Leave, LeaveFrom, ShowFirst, Go
<1>5. CASE Drop
  BY <1>5 DEF Drop, LeaveFrom, ShowFirst, Go
<1>6. CASE FlushAll
  BY <1>6 DEF FlushAll, Go
<1>7. CASE Enter
  BY <1>7 DEF Enter, Go
<1>8. CASE Clear
  BY <1>8 DEF Clear, Go
<1>9. CASE ClearFails
  BY <1>9 DEF ClearFails, Go
<1>10. CASE Wait
  BY <1>10 DEF Wait
<1>11. CASE Clock
  BY <1>11 DEF Clock
<1>12. CASE Ack
  BY <1>12 DEF Ack, Acknowledge, Go, InBlank
<1>13. CASE Spin
  BY <1>13 DEF Spin
<1>14. CASE Look
  BY <1>14 DEF Look
<1>15. CASE Count
  BY <1>15 DEF Count, Go
<1>16. CASE Draw
  BY <1>16 DEF Draw, Go
<1>17. CASE DrawFails
  BY <1>17 DEF DrawFails, Go
<1>18. CASE SetFlag
  BY <1>18 DEF SetFlag, Hidden, Go
<1>19. CASE SetOffset
  BY <1>19 DEF SetOffset, Hidden, Go
<1>20. CASE ClearLatch
  BY <1>20 DEF ClearLatch, Acknowledge, Go, InBlank
<1>21. CASE NoteBlank
  BY <1>21 DEF NoteBlank, Go
<1>22. CASE Stamp
  BY <1>22 DEF Stamp, Go
<1>23. CASE GdiBegin
  BY <1>23 DEF GdiBegin, GdiStep
<1>24. CASE GdiTest
  BY <1>24 DEF GdiTest, GdiStep
<1>25. CASE GdiShow
  BY <1>25 DEF GdiShow, GdiStep
<1>26. CASE GdiEnd
  BY <1>26 DEF GdiEnd, GdiStep
<1>28. CASE GdiClear
  BY <1>28 DEF GdiClear, GdiStep
<1>27. CASE UNCHANGED vars
  BY <1>27 DEF vars
<1> QED BY <1>1, <1>2, <1>3, <1>4, <1>5, <1>6, <1>7, <1>8, <1>9, <1>10, <1>11,
      <1>12, <1>13, <1>14, <1>15, <1>16, <1>17, <1>18, <1>19, <1>20, <1>21,
      <1>22, <1>23, <1>24, <1>25, <1>26, <1>27, <1>28 DEF Next, FlipSteps, GdiSteps

(* The frame the write was made in is not over (m8dd32.c:1406-1439).        *)
LEMMA BeamStep ==
  ASSUME TypeOK, Shape, Beam, [Next]_vars
  PROVE  Beam'
<1> USE TimeAssumption DEF TypeOK, Shape, OnPages, Waiting, Showing, Beam, Untaken, Past, cardVars, waitVars, gdiVars, pageVars
<1>1. CASE Tick
  BY <1>1 DEF Tick, After, InBlank
<1>2. CASE Flip
  BY <1>2 DEF Flip
<1>3. CASE ContextEnds
  BY <1>3 DEF ContextEnds, Go
<1>4. CASE Leave
  BY <1>4 DEF Leave, LeaveFrom, ShowFirst, Go
<1>5. CASE Drop
  BY <1>5 DEF Drop, LeaveFrom, ShowFirst, Go
<1>6. CASE FlushAll
  BY <1>6 DEF FlushAll, Go
<1>7. CASE Enter
  BY <1>7 DEF Enter, Go
<1>8. CASE Clear
  BY <1>8 DEF Clear, Go
<1>9. CASE ClearFails
  BY <1>9 DEF ClearFails, Go
<1>10. CASE Wait
  BY <1>10 DEF Wait
<1>11. CASE Clock
  BY <1>11 DEF Clock
<1>12. CASE Ack
  BY <1>12 DEF Ack, Acknowledge, Go, InBlank
<1>13. CASE Spin
  BY <1>13 DEF Spin
<1>14. CASE Look
  BY <1>14 DEF Look
<1>15. CASE Count
  BY <1>15 DEF Count, Go
<1>16. CASE Draw
  BY <1>16 DEF Draw, Go
<1>17. CASE DrawFails
  BY <1>17 DEF DrawFails, Go
<1>18. CASE SetFlag
  BY <1>18 DEF SetFlag, Hidden, Go
<1>19. CASE SetOffset
  BY <1>19 DEF SetOffset, Hidden, Go
<1>20. CASE ClearLatch
  BY <1>20 DEF ClearLatch, Acknowledge, Go, InBlank
<1>21. CASE NoteBlank
  BY <1>21 DEF NoteBlank, Go
<1>22. CASE Stamp
  BY <1>22 DEF Stamp, Go
<1>23. CASE GdiBegin
  BY <1>23 DEF GdiBegin, GdiStep
<1>24. CASE GdiTest
  BY <1>24 DEF GdiTest, GdiStep
<1>25. CASE GdiShow
  BY <1>25 DEF GdiShow, GdiStep
<1>26. CASE GdiEnd
  BY <1>26 DEF GdiEnd, GdiStep
<1>28. CASE GdiClear
  BY <1>28 DEF GdiClear, GdiStep
<1>27. CASE UNCHANGED vars
  BY <1>27 DEF vars
<1> QED BY <1>1, <1>2, <1>3, <1>4, <1>5, <1>6, <1>7, <1>8, <1>9, <1>10, <1>11,
      <1>12, <1>13, <1>14, <1>15, <1>16, <1>17, <1>18, <1>19, <1>20, <1>21,
      <1>22, <1>23, <1>24, <1>25, <1>26, <1>27, <1>28 DEF Next, FlipSteps, GdiSteps

(* A flag that GDI took down, GDI counted (fb16.c:764-771).                 *)
LEMMA HeardStep ==
  ASSUME TypeOK, Shape, Heard, [Next]_vars
  PROVE  Heard'
<1> USE TimeAssumption DEF TypeOK, Shape, OnPages, Waiting, Showing, Heard, cardVars, waitVars, gdiVars, pageVars
<1>1. CASE Tick
  BY <1>1 DEF Tick, After, InBlank
<1>2. CASE Flip
  BY <1>2 DEF Flip
<1>3. CASE ContextEnds
  BY <1>3 DEF ContextEnds, Go
<1>4. CASE Leave
  BY <1>4 DEF Leave, LeaveFrom, ShowFirst, Go
<1>5. CASE Drop
  BY <1>5 DEF Drop, LeaveFrom, ShowFirst, Go
<1>6. CASE FlushAll
  BY <1>6 DEF FlushAll, Go
<1>7. CASE Enter
  BY <1>7 DEF Enter, Go
<1>8. CASE Clear
  BY <1>8 DEF Clear, Go
<1>9. CASE ClearFails
  BY <1>9 DEF ClearFails, Go
<1>10. CASE Wait
  BY <1>10 DEF Wait
<1>11. CASE Clock
  BY <1>11 DEF Clock
<1>12. CASE Ack
  BY <1>12 DEF Ack, Acknowledge, Go, InBlank
<1>13. CASE Spin
  BY <1>13 DEF Spin
<1>14. CASE Look
  BY <1>14 DEF Look
<1>15. CASE Count
  BY <1>15 DEF Count, Go
<1>16. CASE Draw
  BY <1>16 DEF Draw, Go
<1>17. CASE DrawFails
  BY <1>17 DEF DrawFails, Go
<1>18. CASE SetFlag
  <2>1. CASE page = 0
    <3>1. Hidden = 1
      BY <2>1 DEF Hidden
    <3>2. flag' = (Hidden = 1)
      BY <1>18 DEF SetFlag
    <3>3. flag'
      BY <3>1, <3>2, Zenon
    <3> QED BY <1>18, <2>1, <3>3 DEF SetFlag, Go
  <2>2. CASE page = 1
    BY <1>18, <2>2 DEF SetFlag, Go
  <2> QED BY <2>1, <2>2
<1>19. CASE SetOffset
  BY <1>19 DEF SetOffset, Hidden, Go
<1>20. CASE ClearLatch
  BY <1>20 DEF ClearLatch, Acknowledge, Go, InBlank
<1>21. CASE NoteBlank
  BY <1>21 DEF NoteBlank, Go
<1>22. CASE Stamp
  BY <1>22 DEF Stamp, Go
<1>23. CASE GdiBegin
  BY <1>23 DEF GdiBegin, GdiStep
<1>24. CASE GdiTest
  BY <1>24 DEF GdiTest, GdiStep
<1>25. CASE GdiShow
  BY <1>25 DEF GdiShow, GdiStep
<1>26. CASE GdiEnd
  BY <1>26 DEF GdiEnd, GdiStep
<1>28. CASE GdiClear
  BY <1>28 DEF GdiClear, GdiStep
<1>27. CASE UNCHANGED vars
  BY <1>27 DEF vars
<1> QED BY <1>1, <1>2, <1>3, <1>4, <1>5, <1>6, <1>7, <1>8, <1>9, <1>10, <1>11,
      <1>12, <1>13, <1>14, <1>15, <1>16, <1>17, <1>18, <1>19, <1>20, <1>21,
      <1>22, <1>23, <1>24, <1>25, <1>26, <1>27, <1>28 DEF Next, FlipSteps, GdiSteps

-----------------------------------------------------------------------------
(* What holds at the start and in every state (m8dd32.c:1376-1475).        *)
LEMMA Inductive == Spec => []IInv
<1>1. Init => IInv
  <2> SUFFICES ASSUME Init PROVE IInv
    OBVIOUS
  <2>1. TypeOK
    <3>1. latches \in BOOLEAN /\ latch \in BOOLEAN
      BY Zenon DEF Init
    <3>2. age \in 0 .. Wrap - 1 /\ n \in 0 .. Spins
      BY TimeAssumption DEF Init
    <3>3. phase \in 0 .. Frame - 1 /\ offset \in 0 .. 1 /\ shown \in 0 .. 1 /\ page \in 0 .. 1
      BY DEF Init
    <3>4. pc \in Steps /\ gpc \in {"out", "test", "clear", "show", "draw"} /\ by \in {"flip", "other"}
      BY DEF Init, Steps
    <3>5. /\ on \in BOOLEAN /\ known \in BOOLEAN /\ pending \in BOOLEAN
          /\ inBlank \in BOOLEAN /\ spun \in BOOLEAN /\ flag \in BOOLEAN /\ gdi \in BOOLEAN
      BY DEF Init
    <3> QED BY <3>1, <3>2, <3>3, <3>4, <3>5 DEF TypeOK
  <2>2. Shape /\ Beam /\ Heard
    BY DEF Init, Shape, Beam, Heard, Untaken, OnPages, Waiting, Showing
  <2> QED BY <2>1, <2>2 DEF IInv
<1>2. IInv /\ [Next]_vars => IInv'
  BY TypeStep, ShapeStep, BeamStep, HeardStep DEF IInv
<1> QED BY <1>1, <1>2, PTL DEF Spec

(* Page, count and clock keep their ranges; n never passes zero            *)
(* (m8dd32.c:1431, 1434).                                                  *)
THEOREM PagesTyped == Spec => []TypeOK
<1>1. IInv => TypeOK
  BY DEF IInv
<1> QED BY <1>1, Inductive, PTL

(* No frame is drawn on the page the beam reads, whatever the length of a  *)
(* frame and its blank and wherever in them the write landed               *)
(* (m8dd32.c:1362-1366, 1406-1439).                                        *)
THEOREM BeamNeverMet == Spec => []DrawnUnseen
<1>1. IInv => DrawnUnseen
  BY DEF IInv, TypeOK, Shape, Beam, Untaken, Waiting, Showing, OnPages, DrawnUnseen, Hidden
<1> QED BY <1>1, Inductive, PTL

(* Page 1 shown with its flag down means a GDI call the next Flip hears of *)
(* (m8dd32.c:1524-1529).                                                   *)
THEOREM LostFlagHeard == Spec => []LostFlagNoticed
<1>1. IInv => LostFlagNoticed
  BY DEF IInv, Heard, LostFlagNoticed
<1> QED BY <1>1, Inductive, PTL

=============================================================================
