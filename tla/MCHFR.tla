-------------------------------- MODULE MCHFR --------------------------------
(* Two cards with two values each: the photo, which decides the            *)
(* comparison, and the name.                                               *)
EXTENDS HFR

CONSTANTS anna, bela, face1, name, photoPath

MCMatch == {<<anna, face1>>}
MCReadOrder == <<name, photoPath>>
MCShowOrder == <<photoPath, name>>
MCPassOrder == <<name, photoPath>>
=============================================================================
