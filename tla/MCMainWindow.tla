----------------------------- MODULE MCMainWindow -----------------------------
(* One card and a face that does not match it: after a grab by hand there  *)
(* is a further face to compare.                                           *)
EXTENDS MainWindow

CONSTANTS anna, face1

WindowMatch == {}
=============================================================================
