------------------------------- MODULE MCShadRam -------------------------------
(* A small instance of ShadRam: three pages in each half; page 1 is cassette *)
(* BASIC's, page 2 is always kept.                                           *)
EXTENDS ShadRam
CONSTANTS vm1
=============================================================================
