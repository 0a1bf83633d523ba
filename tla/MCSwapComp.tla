----------------------------- MODULE MCSwapComp -----------------------------
(* Small instances of SwapComp for TLC. *)
EXTENDS SwapComp, TLC

CONSTANTS t1, t2, zero, short, long, noise

(* Sectors LZ4 needs: "noise" it cannot shrink, the others it can. *)
LzOfPage == [c \in Contents |->
  CASE c = long -> 2 [] c = noise -> PAGE_SECTORS + 1 [] OTHER -> 1]

=============================================================================
