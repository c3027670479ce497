---------------------------- MODULE MCIDCardReader ----------------------------
(* Two cards with two of the seven values, in the relative orders in which *)
(* run() reads, and onNewIdCard shows and passes them on.                  *)
EXTENDS IDCardReader

CONSTANTS anna, bela, name, photoPath

MCReadOrder == <<name, photoPath>>
MCShowOrder == <<photoPath, name>>
MCPassOrder == <<name, photoPath>>
=============================================================================
