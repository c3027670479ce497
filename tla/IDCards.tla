------------------------------- MODULE IDCards -------------------------------
(***************************************************************************)
(* ID cards, as the card reader passes them on and a session verifies      *)
(* them.  A card stands for whatever belongs to it: the values read from   *)
(* it, its photo, the face in the photo.                                   *)
(***************************************************************************)
CONSTANTS Cards,  \* ID cards whose photo shows exactly one face
          NoCard  \* none of them: an empty member, value, or file

ASSUME CardsAssumption == NoCard \notin Cards
=============================================================================
