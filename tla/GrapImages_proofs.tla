-------------------------- MODULE GrapImages_proofs --------------------------
(***************************************************************************)
(* Proofs about the list of grabbed pictures, for any pictures and bounds. *)
(***************************************************************************)
EXTENDS GrapImages, SequenceTheorems, TLAPS

(* Every delegate shows the picture it was made for, which still is in its *)
(* row.                                                                    *)
RowsKept ==
    \A d \in delegates : d.row \in 1..Len(m_vGrapImages) /\ d.img = m_vGrapImages[d.row]

(* So does the enlarged picture, whatever became of the row.               *)
NumbersKept ==
    \A d \in delegates \cup imgBigGrap : d.id \in 1..m_iIndex /\ m_mapImages[d.id] = d.img

IInv == TypeOK /\ RowsKept /\ NumbersKept

-----------------------------------------------------------------------------
LEMMA InitInv == Init => IInv
BY DEF Init, IInv, TypeOK, RowsKept, NumbersKept, Delegates

LEMMA AddStep ==
    ASSUME IInv, NEW img \in Pictures, AddGrapImage(img)
    PROVE  IInv'
<1>1. /\ m_vGrapImages \in Seq(Pictures) /\ m_vGrapImages' = Append(m_vGrapImages, img)
      /\ UNCHANGED <<m_iIndex, m_mapImages, delegates, imgBigGrap>>
  BY DEF AddGrapImage, IInv, TypeOK
<1>2. /\ m_vGrapImages' \in Seq(Pictures)
      /\ Len(m_vGrapImages') = Len(m_vGrapImages) + 1
      /\ \A i \in 1..Len(m_vGrapImages) : m_vGrapImages'[i] = m_vGrapImages[i]
  BY <1>1, AppendProperties
<1>3. Len(m_vGrapImages) \in Nat
  BY <1>1, LenProperties
<1>4. TypeOK'
  BY <1>1, <1>2 DEF IInv, TypeOK
<1>5. RowsKept'
  BY <1>1, <1>2, <1>3 DEF IInv, RowsKept
<1>6. NumbersKept'
  BY <1>1 DEF IInv, NumbersKept
<1> QED
  BY <1>4, <1>5, <1>6 DEF IInv

(* A new number leaves the pictures under the others alone.                *)
LEMMA DataFacts ==
    ASSUME TypeOK, NEW row \in 1..Len(m_vGrapImages), Data(row)
    PROVE  /\ m_iIndex' = m_iIndex + 1 /\ m_iIndex \in Nat
           /\ m_vGrapImages[row] \in Pictures
           /\ DOMAIN m_mapImages' = 1..m_iIndex'
           /\ m_mapImages'[m_iIndex'] = m_vGrapImages[row]
           /\ \A id \in 1..m_iIndex : m_mapImages'[id] = m_mapImages[id]
<1>1. m_iIndex' = m_iIndex + 1 /\ m_iIndex \in Nat /\ DOMAIN m_mapImages = 1..m_iIndex
  BY DEF Data, TypeOK
<1>2. m_mapImages' = [i \in 1..m_iIndex \cup {m_iIndex + 1} |->
                         IF i = m_iIndex + 1 THEN m_vGrapImages[row] ELSE m_mapImages[i]]
  BY <1>1 DEF Data, AddImage
<1>3. 1..m_iIndex \cup {m_iIndex + 1} = 1..(m_iIndex + 1)
  BY <1>1
<1>4. m_vGrapImages[row] \in Pictures
  BY ElementOfSeq DEF TypeOK
<1> QED
  BY <1>1, <1>2, <1>3, <1>4

LEMMA MakeStep ==
    ASSUME IInv, NEW row \in 1..Len(m_vGrapImages), MakeDelegate(row)
    PROVE  IInv'
<1> DEFINE new == [row |-> row, id |-> m_iIndex', img |-> m_vGrapImages[row]]
<1>1. /\ Data(row) /\ delegates' = delegates \cup {new}
      /\ UNCHANGED <<m_vGrapImages, imgBigGrap>>
  BY DEF MakeDelegate
<1>2. /\ m_iIndex' = m_iIndex + 1 /\ m_iIndex \in Nat
      /\ m_vGrapImages[row] \in Pictures
      /\ DOMAIN m_mapImages' = 1..m_iIndex'
      /\ m_mapImages'[m_iIndex'] = m_vGrapImages[row]
      /\ \A id \in 1..m_iIndex : m_mapImages'[id] = m_mapImages[id]
  BY <1>1, DataFacts DEF IInv
<1>3. row \in Nat
  BY LenProperties DEF IInv, TypeOK
<1>4. TypeOK'
  BY <1>1, <1>2, <1>3 DEF IInv, TypeOK, Delegates
<1>5. RowsKept'
  BY <1>1 DEF IInv, RowsKept
<1>6. NumbersKept'
  <2> SUFFICES ASSUME NEW d \in delegates' \cup imgBigGrap'
               PROVE  d.id \in 1..m_iIndex' /\ m_mapImages'[d.id] = d.img
    BY DEF NumbersKept
  <2>1. CASE d = new
    BY <1>2, <2>1
  <2>2. CASE d \in delegates \cup imgBigGrap
    BY <1>2, <2>2 DEF IInv, NumbersKept
  <2> QED
    BY <1>1, <2>1, <2>2
<1> QED
  BY <1>4, <1>5, <1>6 DEF IInv

LEMMA Inductive == Spec => []IInv
<1>1. IInv /\ [Next]_vars => IInv'
  <2> SUFFICES ASSUME IInv, [Next]_vars PROVE IInv'
    OBVIOUS
  <2>1. CASE DestroyDelegate \/ Entered
    BY <2>1 DEF DestroyDelegate, Entered, IInv, TypeOK, RowsKept, NumbersKept
  <2>2. CASE ClearGrapImage
    BY <2>2 DEF ClearGrapImage, IInv, TypeOK, RowsKept, NumbersKept
  <2>3. CASE UNCHANGED vars
    BY <2>3 DEF vars, IInv, TypeOK, RowsKept, NumbersKept
  <2> QED
    BY <2>1, <2>2, <2>3, AddStep, MakeStep DEF Next
<1> QED
  BY <1>1, InitInv, PTL DEF Spec

-----------------------------------------------------------------------------
(* The model, the provider and the view keep their types.                  *)
THEOREM TypeCorrect == Spec => []TypeOK
<1>1. IInv => TypeOK
  BY DEF IInv
<1> QED
  BY <1>1, Inductive, PTL

(* Every picture in view is that of its row.                               *)
THEOREM RowsShownAlways == Spec => []RowsShown
<1>1. IInv => RowsShown
  <2> SUFFICES ASSUME IInv, NEW d \in delegates
               PROVE  d.row <= Len(m_vGrapImages) /\ m_mapImages[d.id] = m_vGrapImages[d.row]
    BY DEF RowsShown
  <2>1. d.row \in 1..Len(m_vGrapImages) /\ d.img = m_vGrapImages[d.row]
    BY DEF IInv, RowsKept
  <2>2. m_mapImages[d.id] = d.img
    BY DEF IInv, NumbersKept
  <2>3. Len(m_vGrapImages) \in Nat
    BY LenProperties DEF IInv, TypeOK
  <2> QED
    BY <2>1, <2>2, <2>3
<1> QED
  BY <1>1, Inductive, PTL

(* The enlarged picture is the one that was under the pointer.             *)
THEOREM EnlargedShownAlways == Spec => []EnlargedShown
<1>1. IInv => EnlargedShown
  BY DEF IInv, TypeOK, NumbersKept, EnlargedShown
<1> QED
  BY <1>1, Inductive, PTL

(* An address never changes its picture.                                   *)
THEOREM AddressesLastAlways == Spec => AddressesLast
<1> DEFINE Last == \A id \in DOMAIN m_mapImages :
                      id \in DOMAIN m_mapImages' /\ m_mapImages'[id] = m_mapImages[id]
<1>1. IInv /\ [Next]_vars => [Last]_vars
  <2> SUFFICES ASSUME IInv, [Next]_vars PROVE Last \/ UNCHANGED vars
    OBVIOUS
  <2>1. ASSUME NEW row \in 1..Len(m_vGrapImages), MakeDelegate(row) PROVE Last
    <3>1. Data(row) /\ TypeOK
      BY <2>1 DEF MakeDelegate, IInv
    <3> QED
      BY <3>1, DataFacts DEF TypeOK
  <2>2. CASE DestroyDelegate \/ Entered \/ ClearGrapImage
    BY <2>2 DEF DestroyDelegate, Entered, ClearGrapImage
  <2>3. ASSUME NEW img \in Pictures, AddGrapImage(img) PROVE Last
    BY <2>3 DEF AddGrapImage
  <2> QED
    BY <2>1, <2>2, <2>3 DEF Next
<1> QED
  BY <1>1, Inductive, PTL DEF Spec, AddressesLast
=============================================================================
