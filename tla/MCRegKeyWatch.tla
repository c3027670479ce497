----------------------------- MODULE MCRegKeyWatch -----------------------------
(***************************************************************************)
(* Handles for the object and for the rest of the program: one of its   *)
(* handles may be attached, one that was closed may be reused.             *)
(***************************************************************************)
EXTENDS RegKeyWatch

CONSTANTS hkey1, hkey2, hkey3
=============================================================================
