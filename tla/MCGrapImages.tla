----------------------------- MODULE MCGrapImages -----------------------------
(***************************************************************************)
(* Two pictures that differ, two rows, and addresses enough for a list     *)
(* that is cleared, filled again and scrolled.                             *)
(***************************************************************************)
EXTENDS GrapImages

CONSTANTS img1, img2
=============================================================================
