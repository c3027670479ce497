------------------------------ MODULE GrapImages ------------------------------
(***************************************************************************)
(* The list of grabbed pictures: GrapImageListModel keeps the pictures,    *)
(* the delegates of main_high.qml's ListView ask it for the address of the *)
(* picture in their row, and GrapImageProvider keeps what an address       *)
(* stands for.  A delegate asks once, when it is made; it is made and      *)
(* destroyed as its row is scrolled in and out of view.  The enlarged      *)
(* picture takes its address from the delegate under the pointer, and      *)
(* keeps it.                                                               *)
(***************************************************************************)
EXTENDS Naturals, Sequences

CONSTANTS Pictures,
          MaxRows, \* bound on the pictures grabbed for one card
          MaxIndex \* bound on the addresses handed out

ASSUME GrapAssumption == MaxRows \in Nat /\ MaxIndex \in Nat

VARIABLES m_vGrapImages, \* the pictures, one per row
          m_iIndex,      \* the number in the last address handed out
          m_mapImages,   \* the provider's pictures, by that number
          delegates,     \* a set of delegates, see Delegates
          imgBigGrap     \* the one the enlarged picture is from, or none

vars == <<m_vGrapImages, m_iIndex, m_mapImages, delegates, imgBigGrap>>

(* A delegate with the address it was given; "img" is the picture that     *)
(* was in its row then.                                                    *)
Delegates == [row : Nat, id : Nat, img : Pictures]

TypeOK ==
    /\ m_vGrapImages \in Seq(Pictures)
    /\ m_iIndex \in Nat
    /\ DOMAIN m_mapImages = 1..m_iIndex
    /\ \A id \in 1..m_iIndex : m_mapImages[id] \in Pictures
    /\ delegates \subseteq Delegates
    /\ imgBigGrap \subseteq Delegates

-----------------------------------------------------------------------------
Init ==
    /\ m_vGrapImages = <<>>
    /\ m_iIndex = 0
    /\ m_mapImages = <<>>
    /\ delegates = {}
    /\ imgBigGrap = {}

(* addGrapImage() tells the view of one row behind the last.               *)
AddGrapImage(img) ==
    /\ Len(m_vGrapImages) < MaxRows
    /\ m_vGrapImages' = Append(m_vGrapImages, img)
    /\ UNCHANGED <<m_iIndex, m_mapImages, delegates, imgBigGrap>>

(* The provider keeps a copy.                                              *)
AddImage(id, img) ==
    m_mapImages' = [i \in DOMAIN m_mapImages \cup {id} |-> IF i = id THEN img ELSE m_mapImages[i]]

(* data() for the picture of a row: the next number, and the picture under *)
(* it, are the provider's for good.                                        *)
Data(row) ==
    /\ m_iIndex' = m_iIndex + 1
    /\ AddImage(m_iIndex', m_vGrapImages[row])

(* A row comes into view.                                                  *)
MakeDelegate(row) ==
    /\ m_iIndex < MaxIndex
    /\ \A d \in delegates : d.row # row
    /\ Data(row)
    /\ delegates' = delegates \cup {[row |-> row, id |-> m_iIndex', img |-> m_vGrapImages[row]]}
    /\ UNCHANGED <<m_vGrapImages, imgBigGrap>>

(* It is scrolled out of view.                                             *)
DestroyDelegate ==
    /\ \E d \in delegates : delegates' = delegates \ {d}
    /\ UNCHANGED <<m_vGrapImages, m_iIndex, m_mapImages, imgBigGrap>>

(* The pointer enters a picture.                                           *)
Entered ==
    /\ \E d \in delegates : imgBigGrap' = {d}
    /\ UNCHANGED <<m_vGrapImages, m_iIndex, m_mapImages, delegates>>

Clear_NotAnnounced ==
    /\ m_vGrapImages' = <<>>
    /\ UNCHANGED <<m_iIndex, m_mapImages, delegates, imgBigGrap>>
Clear_StartsOver ==
    /\ m_vGrapImages' = <<>>
    /\ delegates' = {}
    /\ m_iIndex' = 0
    /\ m_mapImages' = <<>>
    /\ UNCHANGED imgBigGrap
(* clearGrapImage() when a card is accepted: the reset of the model        *)
(* destroys the delegates, and nothing else.                               *)
ClearGrapImage ==
    /\ m_vGrapImages' = <<>>
    /\ delegates' = {}
    /\ UNCHANGED <<m_iIndex, m_mapImages, imgBigGrap>>

Next ==
    \/ \E img \in Pictures : AddGrapImage(img)
    \/ \E row \in 1..Len(m_vGrapImages) : MakeDelegate(row)
    \/ DestroyDelegate \/ Entered \/ ClearGrapImage

Spec == Init /\ [][Next]_vars

-----------------------------------------------------------------------------
(* Every picture in view is that of its row: a delegate asks only once, so *)
(* its row must not move or go, nor its number be given to another         *)
(* picture, while the delegate lives.                                      *)
RowsShown ==
    \A d \in delegates :
        d.row <= Len(m_vGrapImages) /\ m_mapImages[d.id] = m_vGrapImages[d.row]

(* The enlarged picture is the one that was under the pointer, whatever    *)
(* became of its row: the image is fetched under its own size, so it is    *)
(* asked for again, under an address that may be older than the list.      *)
EnlargedShown ==
    \A d \in imgBigGrap : d.id \in DOMAIN m_mapImages /\ m_mapImages[d.id] = d.img

(* An address stands for one picture for good, because the view may have   *)
(* cached it.                                                              *)
AddressesLast ==
    [][\A id \in DOMAIN m_mapImages :
          id \in DOMAIN m_mapImages' /\ m_mapImages'[id] = m_mapImages[id]]_vars
=============================================================================
