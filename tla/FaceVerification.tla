--------------------------- MODULE FaceVerification ---------------------------
(***************************************************************************)
(* What the program promises to whoever lays an ID card on the reader: one *)
(* session per accepted card, and a verdict about that card which is       *)
(* positive exactly if one of the faces captured for it matches.  A        *)
(* session may be excused from this promise; what excuses it is for the    *)
(* implementation to say.                                                  *)
(***************************************************************************)
CONSTANTS Cards, Faces, Match, NoCard

VARIABLES open,      \* a session is open
          card,      \* the card of the last session
          faces,     \* the faces captured for the open session
          verdict,   \* the verdict on display
          excused    \* the open session need not keep the promise

vars == <<open, card, faces, verdict, excused>>

NoVerdict == [card |-> NoCard, pass |-> FALSE]

Init ==
    /\ ~open
    /\ card = NoCard
    /\ faces = {}
    /\ verdict = NoVerdict
    /\ ~excused

(* A card is accepted only between sessions; a verdict on display goes.    *)
Accept ==
    /\ ~open
    /\ open'
    /\ card' \in Cards
    /\ faces' = {}
    /\ verdict' = NoVerdict
    /\ excused' => excused

(* The faces of one frame: a session captures once.                        *)
Capture ==
    /\ open /\ faces = {}
    /\ faces' \in (SUBSET Faces) \ {{}}
    /\ verdict' \in {verdict, NoVerdict}
    /\ UNCHANGED <<open, card, excused>>

(* The verdict closes the session.                                         *)
Decide ==
    /\ open /\ ~excused
    /\ faces # {}
    /\ ~open'
    /\ faces' = {}
    /\ verdict' = [card |-> card, pass |-> \E face \in faces : <<card, face>> \in Match]
    /\ UNCHANGED <<card, excused>>

Hide ==
    /\ verdict' = NoVerdict
    /\ UNCHANGED <<open, card, faces, excused>>

(* Once it is excused a session captures what it likes, says what it likes *)
(* about its card, and may leave results behind that arrive after its end; *)
(* but it is no way to open a session or to change its card.               *)
Excused ==
    /\ excused'
    /\ open' => open
    /\ UNCHANGED card

Next == Accept \/ Capture \/ Decide \/ Hide \/ Excused

Spec == Init /\ [][Next]_vars
=============================================================================
