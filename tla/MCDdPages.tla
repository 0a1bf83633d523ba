----------------------------- MODULE MCDdPages -----------------------------
(***************************************************************************)
(* TLC instances of DdPages.  The constants are small numbers that keep    *)
(* the code's order: Blank < Frame <= PageTicks < Wrap and Frame <= Spins. *)
(* Init starts the beam anywhere in a frame, and a thread may stand still  *)
(* for any number of ticks, so a write lands at every phase and the next   *)
(* look at it comes at every age, around Wrap too.                         *)
(***************************************************************************)
EXTENDS DdPages
=============================================================================
