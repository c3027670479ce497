---------------------------- MODULE MCOpenCVCamera ----------------------------
(* Two people, each with a card and a face, and a face nobody's card has.  *)
EXTENDS OpenCVCamera

CONSTANTS anna, bela, face1, face2

MCMatch == {<<anna, face1>>, <<bela, face2>>}
=============================================================================
