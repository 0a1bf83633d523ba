----------------------------- MODULE DdBuffers -----------------------------
(***************************************************************************)
(* What DirectDraw promises a program that flips between two buffers: it   *)
(* draws on the hidden one unseen, Flip shows it, and what it draws on the *)
(* shown one is on the screen when the call, or Unlock, returns.           *)
(* `loose' says where that promise is suspended: the screen may be         *)
(* anything until the next Flip.                                           *)
(***************************************************************************)
EXTENDS Integers

CONSTANTS Points, Colours, Look(_, _)   \* Look(p, c): colour c at p on the screen

VARIABLES
  content,   \* what each buffer holds, 0 and 1
  front,     \* the buffer on the screen
  screen,    \* what is seen
  open,      \* the shown buffer is locked for writing
  loose

vars == <<content, front, screen, open, loose>>

Image(b) == [p \in Points |-> Look(p, b[p])]

Shows(b) == screen' = Image(b) \/ loose'

Init ==
  /\ \A k \in 0 .. 1, p \in Points : content[k][p] \in Colours
  /\ front = 0 /\ ~open
  /\ screen = Image(content[0]) \/ loose

(* Nothing drawn on the hidden buffer is seen.                             *)
DrawHidden ==
  /\ content'[front] = content[front]
  /\ UNCHANGED <<front, screen, open, loose>>

(* Nor does it change with what is drawn on the shown one.                 *)
DrawShown ==
  /\ ~open /\ content'[1 - front] = content[1 - front]
  /\ Shows(content'[front]) /\ (loose => loose')
  /\ UNCHANGED <<front, open>>

Lock == open' = TRUE /\ (loose => loose') /\ UNCHANGED <<content, front, screen>>

WriteLocked ==
  /\ open /\ content'[1 - front] = content[1 - front]
  /\ UNCHANGED <<front, screen, open, loose>>

Unlock ==
  /\ open /\ open' = FALSE
  /\ Shows(content[front]) /\ (loose => loose')
  /\ UNCHANGED <<content, front>>

Flip ==
  /\ ~open /\ front' = 1 - front
  /\ screen' = Image(content[front']) /\ loose' = FALSE
  /\ UNCHANGED <<content, open>>

(* The buffers are made, black, or given up, and buffer 0 is the desktop's.*)
Create == front' = 0 /\ loose' = TRUE /\ UNCHANGED <<screen, open>>

Destroy ==
  /\ front' = 0 /\ content'[0] = content[0]
  /\ screen' = Image(content'[0]) /\ loose' = FALSE
  /\ UNCHANGED open

Next == DrawHidden \/ DrawShown \/ Lock \/ WriteLocked \/ Unlock \/ Flip
          \/ Create \/ Destroy

Spec == Init /\ [][Next]_vars

=============================================================================
