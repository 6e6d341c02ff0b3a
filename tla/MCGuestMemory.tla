--------------------------- MODULE MCGuestMemory ----------------------------
(***************************************************************************)
(* GuestMemory for TLC.  Of four pages of four bytes one is taken, Python's*)
(* heap has another and the arena six bytes, which leaves two.  A request  *)
(* of 1 or 3 goes through the arena until it is full; one of 7 never fits  *)
(* and grows the memory by two pages.  Pointers are negative from the ninth*)
(* page on.                                                                *)
(***************************************************************************)
EXTENDS GuestMemory
=============================================================================
