------------------------- MODULE OpenCVCamera_proofs -------------------------
(***************************************************************************)
(* Proofs about the verification session, for any cards, faces and         *)
(* matching relation and any value of the bounds.                          *)
(***************************************************************************)
EXTENDS OpenCVCamera, SequenceTheorems, TLAPS

(* The face that is being compared, or would be next.                      *)
Current == m_vGrapPerson[m_iPersonIndex + 1].face

(* An open session whose faces are still to be grabbed.                    *)
Grabbing ==
    m_bInRecongnizing /\ timer =>
        m_vGrapPerson = <<>> /\ m_iGrapTimes = 0 /\ m_iGrapTotalTimes = 1

(* An open session that compares: the job handed to the worker, the files  *)
(* it wrote and the result it posted are those of the current face, and    *)
(* the faces before it do not match.                                       *)
ComparingCurrent ==
    m_bInRecongnizing /\ ~timer =>
        /\ m_iPersonIndex < Len(m_vGrapPerson)
        /\ \E frame \in Frames : m_vGrapPerson = FaceMatsOf(frame)
        /\ thread = "running" => m_Face1 = m_IDCardInfo /\ m_Face2 = Current
        /\ "writeFailed" \notin mishaps =>
              /\ thread = "saved" => jpg1 = m_IDCardInfo /\ jpg2 = Current
              /\ results # <<>> =>
                    (Head(results).pass <=> <<m_IDCardInfo, Current>> \in Match)
              /\ \A i \in 1..m_iPersonIndex :
                    <<m_IDCardInfo, m_vGrapPerson[i].face>> \notin Match

Exclusive ==
    /\ Len(results) <= 1
    /\ Comparing => results = <<>>
    /\ ~Quiet => m_bInRecongnizing /\ ~timer

IInv ==
    /\ TypeOK
    /\ btnGrapFaceImage <=> ~timer
    /\ RaceNeedsRegrab
    /\ NoSilentStall
    /\ DiesOnlyOf
    /\ Undisturbed => Exclusive /\ Grabbing /\ ComparingCurrent

-----------------------------------------------------------------------------
(* A frame is a nonempty sequence of faces.                                *)
LEMMA FrameFacts ==
    ASSUME NEW frame \in Frames
    PROVE  /\ frame \in Seq(Faces)
           /\ Len(frame) \in Nat \ {0}
           /\ frame \in [1..Len(frame) -> Faces]
<1>1. PICK n \in 1..MaxFaces : frame \in [1..n -> Faces]
  BY DEF Frames
<1>2. n \in Nat \ {0}
  BY <1>1, CameraAssumption
<1>3. frame \in Seq(Faces)
  BY <1>1, <1>2, SeqDef
<1>4. DOMAIN frame = 1..n /\ DOMAIN frame = 1..Len(frame) /\ Len(frame) \in Nat
  BY <1>1, <1>3, LenProperties
<1>5. Len(frame) = n
  BY <1>2, <1>4
<1> QED
  BY <1>1, <1>2, <1>3, <1>5

(* A frame becomes one captured face per face it shows.                    *)
LEMMA FaceMatsFacts ==
    ASSUME NEW frame \in Frames
    PROVE  /\ FaceMatsOf(frame) \in Seq(FaceMats)
           /\ Len(FaceMatsOf(frame)) = Len(frame)
           /\ FaceMatsOf(frame) # <<>>
           /\ \A i \in 1..Len(frame) :
                 FaceMatsOf(frame)[i] = [mat |-> frame, face |-> frame[i]]
<1> DEFINE fm == FaceMatsOf(frame)
<1>1. /\ Len(frame) \in Nat \ {0}
      /\ frame \in [1..Len(frame) -> Faces]
  BY FrameFacts
<1>2. fm \in [1..Len(frame) -> FaceMats]
  BY <1>1 DEF FaceMatsOf, FaceMats
<1>3. fm \in Seq(FaceMats)
  BY <1>1, <1>2, SeqDef
<1>4. DOMAIN fm = 1..Len(frame) /\ DOMAIN fm = 1..Len(fm) /\ Len(fm) \in Nat
  <2>1. DOMAIN fm = 1..Len(fm) /\ Len(fm) \in Nat
    BY <1>3, LenProperties
  <2>2. DOMAIN fm = 1..Len(frame)
    BY <1>2
  <2> QED
    BY <2>1, <2>2
<1>5. Len(fm) = Len(frame)
  BY <1>1, <1>4
<1>6. fm # <<>>
  BY <1>1, <1>5, EmptySeq
<1>7. \A i \in 1..Len(frame) : fm[i] = [mat |-> frame, face |-> frame[i]]
  BY DEF FaceMatsOf
<1> QED
  BY <1>3, <1>5, <1>6, <1>7

(* Handing a pair to the worker keeps its state well typed.                *)
LEMMA CompareType ==
    ASSUME TypeOK, NEW c \in Cards \cup {NoCard}, NEW f \in Faces, Compare(c, f)
    PROVE  /\ process' \in {"up", "terminated"}
           /\ m_bInit' \in BOOLEAN
           /\ thread' \in Thread
           /\ m_Face1' \in Cards \cup {NoCard}
           /\ m_Face2' \in Faces \cup {NoFace}
           /\ jpg1' \in Cards \cup {NoCard}
           /\ jpg2' \in Faces \cup {NoFace}
           /\ mishaps' \subseteq Mishaps
BY DEF TypeOK, DlibTypeOK, Compare, AssignFaces, Thread, Mishaps

-----------------------------------------------------------------------------
(* The members keep their types, whatever the two threads do.              *)
LEMMA TypeStep == TypeOK /\ [Next]_vars => TypeOK'
<1> SUFFICES ASSUME TypeOK, [Next]_vars PROVE TypeOK'
  OBVIOUS
<1>1. CASE Run /\ UNCHANGED cameraVars
  <2>1. CASE RunNoNetwork
    BY <1>1, <2>1 DEF cameraVars, RunNoNetwork, Thread, TypeOK, DlibTypeOK
  <2>2. CASE RunSave
    BY <1>1, <2>2 DEF cameraVars, RunSave, Thread, Mishaps, TypeOK, DlibTypeOK
  <2>3. CASE RunCompare
    <3>1. [pass |-> <<jpg1, jpg2>> \in Match, card |-> jpg1, face |-> jpg2] \in Results
      BY <1>1, <2>3 DEF cameraVars, RunCompare, Results, TypeOK, DlibTypeOK
    <3> QED
      BY <1>1, <2>3, <3>1 DEF cameraVars, RunCompare, Thread, TypeOK, DlibTypeOK
  <2>4. CASE RunLoadFails
    BY <1>1, <2>4 DEF cameraVars, RunLoadFails, TypeOK, DlibTypeOK
  <2>5. CASE RunReturn
    BY <1>1, <2>5 DEF cameraVars, RunReturn, Thread, TypeOK, DlibTypeOK
  <2> QED
    BY <1>1, <2>1, <2>2, <2>3, <2>4, <2>5 DEF Run
<1>2. CASE RecognizeResultNotify
  <2>1. /\ results' \in Seq(Results) /\ m_iPersonIndex' \in Nat
        /\ Head(results).pass \in BOOLEAN
    <3>1. results \in Seq(Results) /\ results # <<>> /\ results' = Tail(results)
          /\ m_iPersonIndex' = m_iPersonIndex + 1
      BY <1>2 DEF RecognizeResultNotify, TypeOK, DlibTypeOK
    <3>2. Head(results) \in Results /\ Tail(results) \in Seq(Results)
      BY <3>1, HeadTailProperties
    <3> QED
      BY <3>1, <3>2 DEF Results, TypeOK
  <2>2. UNCHANGED <<m_IDCardInfo, timer, m_iGrapTimes, m_iGrapTotalTimes, m_vGrapPerson,
                    btnGrapFaceImage>>
    BY <1>2 DEF RecognizeResultNotify, TypeOK, DlibTypeOK
  <2>3. CASE ~Head(results).pass /\ MoreFaces
    <3>1. Compare(m_IDCardInfo, m_vGrapPerson[m_iPersonIndex' + 1].face)
          /\ UNCHANGED <<m_bInRecongnizing, hfResult>>
      BY <1>2, <2>3 DEF RecognizeResultNotify, TypeOK, DlibTypeOK
    <3>2. m_iPersonIndex' + 1 \in 1..Len(m_vGrapPerson)
      BY <1>2, <2>3, LenProperties DEF RecognizeResultNotify, MoreFaces, TypeOK, DlibTypeOK
    <3>3. m_vGrapPerson[m_iPersonIndex' + 1] \in FaceMats
      BY <3>2, ElementOfSeq DEF TypeOK
    <3>4. m_vGrapPerson[m_iPersonIndex' + 1].face \in Faces
      BY <3>3 DEF FaceMats
    <3> QED
      BY <2>1, <2>2, <3>1, <3>4, CompareType DEF TypeOK, DlibTypeOK
  <2>4. CASE ~(~Head(results).pass /\ MoreFaces)
    <3>1. Conclude(Head(results).pass)
      BY <1>2, <2>4 DEF RecognizeResultNotify, TypeOK, DlibTypeOK
    <3>2. hfResult' \in HFResults \cup {NoResult}
      <4>1. CASE m_vGrapPerson # <<>>
        <5>1. Head(m_vGrapPerson).mat \in Frames
          <6>1. Head(m_vGrapPerson) \in FaceMats
            BY <4>1, HeadTailProperties DEF TypeOK
          <6> QED
            BY <6>1 DEF FaceMats
        <5> QED
          BY <2>1, <3>1, <4>1, <5>1 DEF Conclude, HFResults, TypeOK, DlibTypeOK
      <4>2. CASE m_vGrapPerson = <<>>
        BY <2>1, <3>1, <4>2 DEF Conclude, HFResults, NoFrame, TypeOK, DlibTypeOK
      <4> QED
        BY <4>1, <4>2
    <3> QED
      BY <2>1, <2>2, <3>1, <3>2 DEF Conclude, TypeOK, DlibTypeOK
  <2> QED
    BY <2>3, <2>4
<1>3. ASSUME NEW frame \in Frames, GrapFaceFrameTimeProc(frame) PROVE TypeOK'
  <2>1. /\ m_vGrapPerson' \in Seq(FaceMats)
        /\ m_vGrapPerson' # <<>>
    BY <1>3, FaceMatsFacts, ConcatProperties, EmptySeq DEF GrapFaceFrameTimeProc, TypeOK, DlibTypeOK
  <2>2. UNCHANGED <<m_bInRecongnizing, m_IDCardInfo, m_iGrapTotalTimes>>
        /\ m_iGrapTimes' \in Nat
    BY <1>3 DEF GrapFaceFrameTimeProc, TypeOK, DlibTypeOK
  <2>3. CASE m_iGrapTimes' >= m_iGrapTotalTimes
    <3> EndGrap
      BY <1>3, <2>3 DEF GrapFaceFrameTimeProc
    <3>1. CASE m_bInRecongnizing
      <4>1. Head(m_vGrapPerson').face \in Faces
        <5>1. Head(m_vGrapPerson') \in FaceMats
          BY <2>1, HeadTailProperties
        <5> QED
          BY <5>1 DEF FaceMats
      <4>2. /\ Compare(m_IDCardInfo, Head(m_vGrapPerson').face)
            /\ UNCHANGED results /\ m_iPersonIndex' = 0
        BY <2>3, <3>1 DEF EndGrap, DoRecognize, TypeOK, DlibTypeOK
      <4> QED
        BY <2>1, <2>2, <2>3, <4>1, <4>2, CompareType DEF EndGrap, TypeOK, DlibTypeOK
    <3>2. CASE ~m_bInRecongnizing
      BY <2>1, <2>2, <2>3, <3>2 DEF EndGrap, dlibVars, TypeOK, DlibTypeOK
    <3> QED
      BY <3>1, <3>2
  <2>4. CASE ~(m_iGrapTimes' >= m_iGrapTotalTimes)
    BY <1>3, <2>1, <2>2, <2>4 DEF GrapFaceFrameTimeProc, dlibVars, TypeOK, DlibTypeOK
  <2> QED
    BY <2>3, <2>4
<1>4. CASE ManualGrab
  BY <1>4, CameraAssumption, EmptySeq DEF ManualGrab, GrapImage, Mishaps, TypeOK, DlibTypeOK
<1>5. CASE HideResult
  BY <1>5 DEF HideResult, dlibVars, TypeOK, DlibTypeOK
<1>6. ASSUME NEW card \in Cards, Recognize(card) PROVE TypeOK'
  BY <1>6, EmptySeq DEF Recognize, GrapImage, Mishaps, TypeOK, DlibTypeOK
<1>7. CASE UNCHANGED vars
  BY <1>7 DEF vars, dlibVars, cameraVars, TypeOK, DlibTypeOK
<1> QED
  BY <1>1, <1>2, <1>3, <1>4, <1>5, <1>6, <1>7 DEF Next, Work, Terminated

(* The members of OpenCVCamera and DlibRecognize keep their types.         *)
THEOREM TypeCorrect == Spec => []TypeOK
<1>1. Init => TypeOK
  <2> SUFFICES ASSUME Init PROVE TypeOK
    OBVIOUS
  <2>1. <<>> \in Seq(Results) /\ <<>> \in Seq(FaceMats)
    BY EmptySeq
  <2>2. DlibTypeOK
    BY <2>1 DEF Init, DlibInit, DlibTypeOK, Thread
  <2> QED
    BY <2>1, <2>2 DEF Init, TypeOK
<1> QED
  BY <1>1, TypeStep, PTL DEF Spec

-----------------------------------------------------------------------------
(* What handing a pair to the worker does to the parts of the invariant    *)
(* that hold even after a manual grab.                                     *)
LEMMA CompareSafe ==
    ASSUME TypeOK, NEW c, NEW f, Compare(c, f),
           thread = "running" => "regrab" \in mishaps,
           RaceNeedsRegrab
    PROVE  /\ RaceNeedsRegrab'
           /\ mishaps \subseteq mishaps'
           /\ "regrab" \in mishaps' => "regrab" \in mishaps
           /\ thread = "running" \/ UNCHANGED process
           /\ Comparing' \/ "lostStart" \in mishaps'
BY DEF TypeOK, DlibTypeOK, Compare, AssignFaces, RaceNeedsRegrab, Thread, Comparing

(* ... and while nothing is being compared.                                *)
LEMMA CompareQuiet ==
    ASSUME TypeOK, NEW c, NEW f, Compare(c, f), ~Comparing
    PROVE  /\ m_Face1' = c /\ m_Face2' = f
           /\ thread' \in {"running", "emitted"}
           /\ "writeFailed" \in mishaps' <=> "writeFailed" \in mishaps
BY DEF TypeOK, DlibTypeOK, Compare, AssignFaces, Thread, Comparing

(* Steps of the worker thread.                                             *)
LEMMA RunStep == IInv /\ TypeOK' /\ Run /\ UNCHANGED cameraVars => IInv'
<1> SUFFICES ASSUME IInv, TypeOK', Run, UNCHANGED cameraVars PROVE IInv'
  OBVIOUS
<1> USE DEF cameraVars, Up, Undisturbed
<1>1. (btnGrapFaceImage <=> ~timer)'
  BY DEF IInv
<1>2. /\ RaceNeedsRegrab'
      /\ (Undisturbed <=> Undisturbed')
  BY DEF IInv, RaceNeedsRegrab, Run, RunNoNetwork, RunSave, RunCompare, RunLoadFails, RunReturn
<1>3. NoSilentStall'
  <2>1. CASE RunCompare
    <3>1. results' # <<>>
      BY <2>1, EmptySeq DEF IInv, TypeOK, DlibTypeOK, RunCompare
    <3> QED
      BY <3>1 DEF NoSilentStall, Quiet
  <2>2. CASE RunNoNetwork \/ RunSave \/ RunLoadFails \/ RunReturn
    BY <2>2 DEF IInv, NoSilentStall, Quiet, Comparing, RunNoNetwork, RunSave, RunLoadFails,
                RunReturn
  <2> QED
    BY <2>1, <2>2 DEF Run
<1>4. DiesOnlyOf'
  <2>1. CASE RunLoadFails
    <3>1. ASSUME Undisturbed, "writeFailed" \notin mishaps PROVE FALSE
      <4>1. m_bInRecongnizing /\ ~timer /\ jpg1 = m_IDCardInfo /\ jpg2 = Current
            /\ m_iPersonIndex < Len(m_vGrapPerson)
        BY <2>1, <3>1 DEF IInv, RunLoadFails, Exclusive, Quiet, Comparing, ComparingCurrent
      <4>2. m_vGrapPerson[m_iPersonIndex + 1] \in FaceMats
        BY <4>1, LenProperties, ElementOfSeq DEF IInv, TypeOK
      <4>3. jpg1 \in Cards /\ jpg2 \in Faces
        BY <4>1, <4>2 DEF IInv, TypeOK, Current, FaceMats
      <4> QED
        BY <2>1, <4>3, CardsAssumption, DlibAssumption DEF RunLoadFails
    <3> QED
      BY <2>1, <3>1 DEF DiesOnlyOf, RunLoadFails
  <2>2. CASE RunNoNetwork \/ RunSave \/ RunCompare \/ RunReturn
    BY <2>2 DEF IInv, DiesOnlyOf, RunNoNetwork, RunSave, RunCompare, RunReturn
  <2> QED
    BY <2>1, <2>2 DEF Run
<1>5. ASSUME Undisturbed' PROVE (Exclusive /\ Grabbing /\ ComparingCurrent)'
  <2>0. Exclusive /\ Grabbing /\ ComparingCurrent
    BY <1>2, <1>5 DEF IInv
  <2>1. Grabbing'
    BY <2>0 DEF Grabbing
  <2>2. CASE RunNoNetwork
    BY <2>0, <2>1, <2>2 DEF RunNoNetwork, Exclusive, ComparingCurrent, Current, Quiet,
                            Comparing
  <2>3. CASE RunSave
    <3>1. Exclusive'
      BY <2>0, <2>3 DEF RunSave, Exclusive, Quiet, Comparing
    <3>2. ComparingCurrent'
      BY <2>0, <2>3 DEF RunSave, Exclusive, ComparingCurrent, Current, Quiet, Comparing
    <3> QED
      BY <2>1, <3>1, <3>2
  <2>4. CASE RunCompare
    <3> DEFINE r == [pass |-> <<jpg1, jpg2>> \in Match, card |-> jpg1, face |-> jpg2]
    <3>1. results = <<>> /\ m_bInRecongnizing /\ ~timer /\ thread = "saved"
      BY <2>0, <2>4 DEF RunCompare, Exclusive, Quiet, Comparing
    <3>2. results' = <<r>> /\ thread' = "emitted"
      BY <2>4, <3>1 DEF RunCompare
    <3>3. Len(results') = 1 /\ Head(results') = r
      BY <3>2
    <3>4. Exclusive'
      BY <3>1, <3>2, <3>3 DEF Exclusive, Quiet, Comparing
    <3>5. UNCHANGED Current /\ UNCHANGED mishaps
      BY <2>4 DEF RunCompare, Current
    <3>6. "writeFailed" \notin mishaps =>
              (Head(results').pass <=> <<m_IDCardInfo, Current>> \in Match)
      <4> SUFFICES ASSUME "writeFailed" \notin mishaps
                   PROVE  Head(results').pass <=> <<m_IDCardInfo, Current>> \in Match
        OBVIOUS
      <4>1. jpg1 = m_IDCardInfo /\ jpg2 = Current
        BY <2>0, <3>1 DEF ComparingCurrent
      <4>2. Head(results').pass = (<<jpg1, jpg2>> \in Match)
        BY <3>3
      <4> QED
        BY <4>1, <4>2
    <3>7. ComparingCurrent'
      BY <2>0, <3>1, <3>2, <3>5, <3>6 DEF ComparingCurrent
    <3> QED
      BY <2>1, <3>4, <3>7
  <2>5. CASE RunLoadFails
    BY <2>0, <2>1, <2>5 DEF RunLoadFails, Exclusive, ComparingCurrent, Current, Quiet,
                            Comparing
  <2>6. CASE RunReturn
    BY <2>0, <2>1, <2>6 DEF RunReturn, Exclusive, ComparingCurrent, Current, Quiet, Comparing
  <2> QED
    BY <2>2, <2>3, <2>4, <2>5, <2>6 DEF Run
<1> QED
  BY <1>1, <1>2, <1>3, <1>4, <1>5 DEF IInv

(* The slot that receives a result.                                        *)
LEMMA NotifiedStep == IInv /\ TypeOK' /\ RecognizeResultNotify => IInv'
<1> SUFFICES ASSUME IInv, TypeOK', RecognizeResultNotify PROVE IInv'
  OBVIOUS
<1> DEFINE next == m_vGrapPerson[m_iPersonIndex' + 1].face
           more == ~Head(results).pass /\ MoreFaces
<1>1. /\ Up /\ results # <<>> /\ results' = Tail(results)
      /\ m_iPersonIndex' = m_iPersonIndex + 1
      /\ UNCHANGED <<m_IDCardInfo, timer, m_iGrapTimes, m_iGrapTotalTimes, m_vGrapPerson,
                     btnGrapFaceImage>>
  BY DEF RecognizeResultNotify
<1>2. /\ more => Compare(m_IDCardInfo, next) /\ UNCHANGED <<m_bInRecongnizing, hfResult>>
      /\ ~more => Conclude(Head(results).pass)
  BY DEF RecognizeResultNotify
<1>3. TypeOK /\ RaceNeedsRegrab /\ NoSilentStall /\ DiesOnlyOf
  BY DEF IInv
<1>4. ASSUME Undisturbed
      PROVE  /\ Exclusive /\ Grabbing /\ ComparingCurrent
             /\ ~Comparing /\ Len(results) = 1 /\ results' = <<>>
             /\ m_bInRecongnizing /\ ~timer
             /\ m_iPersonIndex < Len(m_vGrapPerson) /\ m_vGrapPerson # <<>>
  <2>1. Exclusive /\ Grabbing /\ ComparingCurrent
    BY <1>4 DEF IInv
  <2>2. ~Comparing /\ m_bInRecongnizing /\ ~timer
    BY <1>1, <2>1 DEF Exclusive, Quiet
  <2>3. Len(results) = 1 /\ results' = <<>>
    <3>1. results \in Seq(Results)
      BY <1>3 DEF TypeOK, DlibTypeOK
    <3>2. Len(results) = 1
      <4>1. Len(results) \in Nat \ {0}
        BY <1>1, <3>1, EmptySeq
      <4>2. Len(results) <= 1
        BY <2>1 DEF Exclusive
      <4>3. \A n \in Nat \ {0} : n <= 1 => n = 1
        OBVIOUS
      <4> QED
        BY <4>1, <4>2, <4>3
    <3>3. Tail(results) \in Seq(Results) /\ Len(Tail(results)) = 0
      BY <1>1, <3>1, <3>2, HeadTailProperties
    <3> QED
      BY <1>1, <3>2, <3>3, EmptySeq
  <2>4. m_iPersonIndex < Len(m_vGrapPerson)
    BY <2>1, <2>2 DEF ComparingCurrent
  <2>5. m_vGrapPerson # <<>>
    BY <1>3, <2>4 DEF TypeOK
  <2> QED
    BY <2>1, <2>2, <2>3, <2>4, <2>5
<1>5. thread = "running" => "regrab" \in mishaps
  BY <1>4 DEF Undisturbed, Comparing
<1>6. CASE more
  <2>1. Compare(m_IDCardInfo, next) /\ UNCHANGED <<m_bInRecongnizing, hfResult>>
    BY <1>2, <1>6
  <2>2. /\ RaceNeedsRegrab' /\ mishaps \subseteq mishaps'
        /\ Undisturbed' => Undisturbed
        /\ thread = "running" \/ UNCHANGED process
        /\ Comparing' \/ "lostStart" \in mishaps'
    BY <1>3, <1>5, <2>1, CompareSafe DEF Undisturbed
  <2>3. NoSilentStall'
    BY <2>2 DEF NoSilentStall, Quiet
  <2>4. DiesOnlyOf'
    BY <1>1, <1>5, <2>2 DEF DiesOnlyOf, Up
  <2>5. ASSUME Undisturbed' PROVE (Exclusive /\ Grabbing /\ ComparingCurrent)'
    <3>1. /\ ComparingCurrent /\ ~Comparing /\ results' = <<>>
          /\ m_bInRecongnizing /\ ~timer
      BY <1>4, <2>2, <2>5
    <3>2. /\ m_Face1' = m_IDCardInfo /\ m_Face2' = next
          /\ thread' \in {"running", "emitted"}
          /\ "writeFailed" \in mishaps' <=> "writeFailed" \in mishaps
      BY <1>3, <2>1, <3>1, CompareQuiet
    <3>3. Exclusive' /\ Grabbing'
      <4>1. Len(results') = 0
        BY <3>1, EmptySeq
      <4>2. m_bInRecongnizing' /\ ~timer'
        BY <1>1, <2>1, <3>1
      <4> QED
        BY <3>1, <4>1, <4>2 DEF Exclusive, Grabbing
    <3>4. /\ m_iPersonIndex' < Len(m_vGrapPerson')
          /\ \E frame \in Frames : m_vGrapPerson' = FaceMatsOf(frame)
      BY <1>1, <1>6, <3>1 DEF MoreFaces, ComparingCurrent
    <3>5. m_Face1' = m_IDCardInfo' /\ m_Face2' = Current' /\ thread' # "saved"
      BY <1>1, <3>2 DEF Current
    <3>6. ASSUME "writeFailed" \notin mishaps', NEW i \in 1..m_iPersonIndex'
          PROVE  <<m_IDCardInfo', m_vGrapPerson'[i].face>> \notin Match
      <4>1. CASE i \in 1..m_iPersonIndex
        BY <1>1, <3>1, <3>2, <3>6, <4>1 DEF ComparingCurrent
      <4>2. CASE i = m_iPersonIndex + 1
        BY <1>1, <1>6, <3>1, <3>2, <3>6, <4>2 DEF ComparingCurrent, Current
      <4> QED
        BY <1>1, <1>3, <3>6, <4>1, <4>2 DEF TypeOK
    <3>7. ComparingCurrent'
      BY <3>1, <3>4, <3>5, <3>6 DEF ComparingCurrent
    <3> QED
      BY <3>3, <3>7
  <2> QED
    BY <1>1, <2>2, <2>3, <2>4, <2>5 DEF IInv
<1>7. CASE ~more
  <2>1. Conclude(Head(results).pass)
    BY <1>2, <1>7
  <2>2. ~m_bInRecongnizing' /\ UNCHANGED <<mishaps, thread>>
    BY <2>1 DEF Conclude
  <2>3. DiesOnlyOf'
    <3>1. Undisturbed => UNCHANGED process
      BY <1>4, <2>1 DEF Conclude
    <3> QED
      BY <1>1, <2>2, <3>1 DEF DiesOnlyOf, Up, Undisturbed
  <2>4. ASSUME Undisturbed' PROVE (Exclusive /\ Grabbing /\ ComparingCurrent)'
    <3>1. ~Comparing /\ results' = <<>>
      BY <1>4, <2>2, <2>4 DEF Undisturbed
    <3> QED
      BY <2>2, <3>1 DEF Exclusive, Grabbing, ComparingCurrent, Quiet, Comparing
  <2> QED
    BY <1>1, <1>3, <2>2, <2>3, <2>4 DEF IInv, RaceNeedsRegrab, NoSilentStall
<1> QED
  BY <1>6, <1>7

(* The timer's slot.                                                       *)
LEMMA GrapStep ==
    ASSUME IInv, TypeOK', NEW frame \in Frames, GrapFaceFrameTimeProc(frame)
    PROVE  IInv'
<1>1. /\ Up /\ timer
      /\ m_vGrapPerson' = m_vGrapPerson \o FaceMatsOf(frame)
      /\ m_iGrapTimes' = m_iGrapTimes + 1
      /\ UNCHANGED <<m_bInRecongnizing, m_IDCardInfo, m_iGrapTotalTimes>>
  BY DEF GrapFaceFrameTimeProc
<1>2. TypeOK /\ RaceNeedsRegrab /\ NoSilentStall /\ DiesOnlyOf
  BY DEF IInv
<1>3. ASSUME Undisturbed
      PROVE  Exclusive /\ Quiet /\ Grabbing
  BY <1>1, <1>3 DEF IInv, Exclusive
<1>4. CASE ~(m_iGrapTimes' >= m_iGrapTotalTimes)
  <2>1. UNCHANGED <<dlibVars, timer, m_iPersonIndex, btnGrapFaceImage, hfResult>>
    BY <1>4 DEF GrapFaceFrameTimeProc
  <2>2. ASSUME Undisturbed PROVE ~m_bInRecongnizing
    BY <1>1, <1>3, <1>4, <2>2 DEF Grabbing
  <2>3. ASSUME Undisturbed' PROVE (Exclusive /\ Grabbing /\ ComparingCurrent)'
    BY <1>1, <1>3, <2>1, <2>2, <2>3
       DEF dlibVars, Undisturbed, Exclusive, Grabbing, ComparingCurrent, Quiet, Comparing
  <2> QED
    BY <1>1, <1>2, <2>1, <2>3 DEF IInv, dlibVars, RaceNeedsRegrab, NoSilentStall, DiesOnlyOf, Up
<1>5. CASE m_iGrapTimes' >= m_iGrapTotalTimes
  <2>1. /\ EndGrap
        /\ ~timer' /\ btnGrapFaceImage'
    BY <1>5 DEF GrapFaceFrameTimeProc, EndGrap
  <2>2. CASE ~m_bInRecongnizing
    <3>1. UNCHANGED <<dlibVars, m_iPersonIndex>>
      BY <2>1, <2>2 DEF EndGrap
    <3>2. ASSUME Undisturbed' PROVE (Exclusive /\ Grabbing /\ ComparingCurrent)'
      BY <1>1, <1>3, <2>2, <3>1, <3>2
         DEF dlibVars, Undisturbed, Exclusive, Grabbing, ComparingCurrent, Quiet, Comparing
    <3> QED
      BY <1>1, <1>2, <2>1, <2>2, <3>1, <3>2
         DEF IInv, dlibVars, RaceNeedsRegrab, NoSilentStall, DiesOnlyOf, Up
  <2>3. CASE m_bInRecongnizing
    <3> DEFINE first == Head(m_vGrapPerson').face
    <3>1. Compare(m_IDCardInfo, first) /\ UNCHANGED results /\ m_iPersonIndex' = 0
      BY <2>1, <2>3 DEF EndGrap, DoRecognize
    <3>2. thread = "running" => "regrab" \in mishaps
      BY <1>3 DEF Undisturbed, Quiet, Comparing
    <3>3. /\ RaceNeedsRegrab' /\ mishaps \subseteq mishaps'
          /\ Undisturbed' => Undisturbed
          /\ thread = "running" \/ UNCHANGED process
          /\ Comparing' \/ "lostStart" \in mishaps'
      BY <1>2, <3>1, <3>2, CompareSafe DEF Undisturbed
    <3>4. NoSilentStall' /\ DiesOnlyOf'
      BY <1>1, <3>2, <3>3 DEF NoSilentStall, DiesOnlyOf, Quiet, Up
    <3>5. ASSUME Undisturbed' PROVE (Exclusive /\ Grabbing /\ ComparingCurrent)'
      <4>1. Quiet /\ results' = <<>> /\ m_vGrapPerson = <<>>
        BY <1>1, <1>3, <2>3, <3>1, <3>3, <3>5 DEF Quiet, Grabbing
      <4>2. Len(results') = 0
        BY <4>1, EmptySeq
      <4>3. m_vGrapPerson' = FaceMatsOf(frame)
        BY <1>1, <4>1, FaceMatsFacts, ConcatEmptySeq
      <4>4. Len(m_vGrapPerson') \in Nat \ {0} /\ first = m_vGrapPerson'[0 + 1].face
        BY <4>3, FaceMatsFacts, FrameFacts
      <4>5. m_Face1' = m_IDCardInfo' /\ m_Face2' = Current' /\ thread' # "saved"
        BY <1>1, <1>2, <3>1, <4>1, <4>4, CompareQuiet DEF Quiet, Current
      <4>6. Exclusive' /\ Grabbing'
        BY <1>1, <2>1, <2>3, <4>1, <4>2 DEF Exclusive, Grabbing
      <4>7. ComparingCurrent'
        BY <3>1, <4>1, <4>3, <4>4, <4>5 DEF ComparingCurrent
      <4> QED
        BY <4>6, <4>7
    <3> QED
      BY <2>1, <3>3, <3>4, <3>5 DEF IInv
  <2> QED
    BY <2>2, <2>3
<1> QED
  BY <1>4, <1>5

(* The grab button.                                                        *)
LEMMA ManualStep == IInv /\ TypeOK' /\ ManualGrab => IInv'
<1> SUFFICES ASSUME IInv, TypeOK', ManualGrab PROVE IInv'
  OBVIOUS
<1>1. /\ timer' /\ ~btnGrapFaceImage'
      /\ mishaps' = mishaps \cup (IF m_bInRecongnizing THEN {"regrab"} ELSE {})
      /\ UNCHANGED <<process, m_bInit, thread, results, m_bInRecongnizing>>
  BY DEF ManualGrab, GrapImage
<1>2. RaceNeedsRegrab' /\ NoSilentStall' /\ DiesOnlyOf'
  BY <1>1 DEF IInv, RaceNeedsRegrab, NoSilentStall, DiesOnlyOf, Up
<1>3. ASSUME Undisturbed' PROVE (Exclusive /\ Grabbing /\ ComparingCurrent)'
  <2>1. ~m_bInRecongnizing /\ Undisturbed
    BY <1>1, <1>3 DEF Undisturbed
  <2>2. Exclusive /\ Quiet
    BY <2>1 DEF IInv, Exclusive
  <2> QED
    BY <1>1, <2>1, <2>2 DEF Exclusive, Grabbing, ComparingCurrent, Quiet, Comparing
<1> QED
  BY <1>1, <1>2, <1>3 DEF IInv

(* A card.                                                                 *)
LEMMA RecognizeStep ==
    ASSUME IInv, TypeOK', NEW card \in Cards, Recognize(card)
    PROVE  IInv'
<1>1. /\ ~m_bInRecongnizing
      /\ timer' /\ ~btnGrapFaceImage'
      /\ m_vGrapPerson' = <<>> /\ m_iGrapTimes' = 0 /\ m_iGrapTotalTimes' = 1
      /\ mishaps' = IF Quiet THEN {} ELSE mishaps
      /\ UNCHANGED <<process, m_bInit, thread, results>>
      /\ Up
  BY DEF Recognize, AcceptsCard, GrapImage
<1>2. RaceNeedsRegrab' /\ NoSilentStall' /\ DiesOnlyOf'
  BY <1>1 DEF IInv, RaceNeedsRegrab, NoSilentStall, DiesOnlyOf, Up
<1>3. ASSUME Undisturbed' PROVE (Exclusive /\ Grabbing /\ ComparingCurrent)'
  <2>1. Quiet
    BY <1>1, <1>3 DEF IInv, Undisturbed, Exclusive
  <2>2. Len(results') = 0 /\ Quiet'
    BY <1>1, <2>1, EmptySeq DEF Quiet, Comparing
  <2> QED
    BY <1>1, <2>2 DEF Exclusive, Grabbing, ComparingCurrent, Quiet
<1> QED
  BY <1>1, <1>2, <1>3 DEF IInv

(* The invariant is inductive.                                             *)
LEMMA InvStep == IInv /\ [Next]_vars => IInv'
<1> SUFFICES ASSUME IInv, [Next]_vars PROVE IInv'
  OBVIOUS
<1>1. TypeOK'
  BY TypeStep DEF IInv
<1>2. CASE Run /\ UNCHANGED cameraVars
  BY <1>1, <1>2, RunStep
<1>3. CASE RecognizeResultNotify
  BY <1>1, <1>3, NotifiedStep
<1>4. ASSUME NEW frame \in Frames, GrapFaceFrameTimeProc(frame) PROVE IInv'
  BY <1>1, <1>4, GrapStep
<1>5. CASE ManualGrab
  BY <1>1, <1>5, ManualStep
<1>6. CASE HideResult \/ UNCHANGED vars
  <2>1. UNCHANGED <<dlibVars, m_bInRecongnizing, m_IDCardInfo, timer, m_iGrapTimes,
                    m_iGrapTotalTimes, m_vGrapPerson, m_iPersonIndex, btnGrapFaceImage>>
    BY <1>6 DEF HideResult, vars, cameraVars
  <2>2. (Undisturbed => Exclusive /\ Grabbing /\ ComparingCurrent)'
    BY <2>1 DEF IInv, dlibVars, Undisturbed, Exclusive, Grabbing, ComparingCurrent, Current,
                Quiet, Comparing
  <2> QED
    BY <1>1, <2>1, <2>2
       DEF IInv, dlibVars, RaceNeedsRegrab, NoSilentStall, DiesOnlyOf, Up, Quiet, Comparing
<1>7. ASSUME NEW card \in Cards, Recognize(card) PROVE IInv'
  BY <1>1, <1>7, RecognizeStep
<1> QED
  BY <1>2, <1>3, <1>4, <1>5, <1>6, <1>7 DEF Next, Work, Terminated

LEMMA InitInv == Init => IInv
<1> SUFFICES ASSUME Init PROVE IInv
  OBVIOUS
<1>1. <<>> \in Seq(Results) /\ <<>> \in Seq(FaceMats) /\ Len(results) = 0
  BY EmptySeq DEF Init, DlibInit
<1>2. TypeOK
  <2>1. DlibTypeOK
    BY <1>1 DEF Init, DlibInit, DlibTypeOK, Thread
  <2> QED
    BY <1>1, <2>1 DEF Init, TypeOK
<1>3. Exclusive /\ Grabbing /\ ComparingCurrent
  BY <1>1 DEF Init, DlibInit, Exclusive, Grabbing, ComparingCurrent, Quiet, Comparing
<1> QED
  BY <1>2, <1>3 DEF Init, DlibInit, IInv, RaceNeedsRegrab, NoSilentStall, DiesOnlyOf, Up

LEMMA Inductive == Spec => []IInv
BY InitInv, InvStep, PTL DEF Spec

-----------------------------------------------------------------------------
(* At most one comparison is under way or waiting, and it is the open      *)
(* session's, until somebody grabs by hand in an open session.             *)
THEOREM OneComparisonAlways == Spec => []OneComparison
<1>1. IInv => OneComparison
  BY DEF IInv, OneComparison, Exclusive
<1> QED
  BY <1>1, Inductive, PTL

(* The worker's members are raced for only after such a grab.              *)
THEOREM RaceNeedsRegrabAlways == Spec => []RaceNeedsRegrab
<1>1. IInv => RaceNeedsRegrab
  BY DEF IInv
<1> QED
  BY <1>1, Inductive, PTL

(* A session stalls only without a network or after a lost start.          *)
THEOREM NoSilentStallAlways == Spec => []NoSilentStall
<1>1. IInv => NoSilentStall
  BY DEF IInv
<1> QED
  BY <1>1, Inductive, PTL

(* The program dies only of an unwritten picture or such a grab.           *)
THEOREM DiesOnlyOfAlways == Spec => []DiesOnlyOf
<1>1. IInv => DiesOnlyOf
  BY DEF IInv
<1> QED
  BY <1>1, Inductive, PTL

-----------------------------------------------------------------------------
(* Only the slot that receives a result closes a session.                  *)
LEMMA ClosedByResult ==
    ASSUME TypeOK, [Next]_vars, Closes
    PROVE  RecognizeResultNotify /\ Conclude(Head(results).pass)
<1>1. CASE Run /\ UNCHANGED cameraVars
  BY <1>1 DEF cameraVars, Closes
<1>2. CASE RecognizeResultNotify
  BY <1>2 DEF RecognizeResultNotify, Closes
<1>3. ASSUME NEW frame \in Frames, GrapFaceFrameTimeProc(frame) PROVE FALSE
  BY <1>3 DEF GrapFaceFrameTimeProc, Closes
<1>4. CASE ManualGrab \/ HideResult \/ UNCHANGED vars
  BY <1>4 DEF ManualGrab, HideResult, vars, cameraVars, Closes
<1>5. ASSUME NEW card \in Cards, Recognize(card) PROVE FALSE
  BY <1>5 DEF Recognize, Closes
<1> QED
  BY <1>1, <1>2, <1>3, <1>4, <1>5 DEF Next, Work, Terminated

(* The state in which an undisturbed session closes: one of the captured   *)
(* faces was compared, the last one if the verdict is a refusal.           *)
LEMMA ClosingState ==
    ASSUME IInv, RecognizeResultNotify, Conclude(Head(results).pass), Undisturbed
    PROVE  /\ m_bInRecongnizing /\ ~timer /\ results # <<>> /\ ComparingCurrent
           /\ m_iPersonIndex \in Nat /\ Len(m_vGrapPerson) \in Nat
           /\ m_iPersonIndex < Len(m_vGrapPerson)
           /\ m_vGrapPerson # <<>>
           /\ Head(results).pass \in BOOLEAN
           /\ DOMAIN m_vGrapPerson = 1..Len(m_vGrapPerson)
           /\ ~Head(results).pass => m_iPersonIndex + 1 = Len(m_vGrapPerson)
<1>1. TypeOK /\ Exclusive /\ ComparingCurrent
  BY DEF IInv
<1>2. results # <<>> /\ m_bInRecongnizing /\ ~timer
  BY <1>1 DEF RecognizeResultNotify, Exclusive, Quiet
<1>3. /\ m_iPersonIndex \in Nat /\ m_vGrapPerson \in Seq(FaceMats)
      /\ results \in Seq(Results)
  BY <1>1 DEF TypeOK, DlibTypeOK
<1>4. Len(m_vGrapPerson) \in Nat /\ DOMAIN m_vGrapPerson = 1..Len(m_vGrapPerson)
  BY <1>3, LenProperties
<1>5. m_iPersonIndex < Len(m_vGrapPerson)
  BY <1>1, <1>2 DEF ComparingCurrent
<1>6. m_vGrapPerson # <<>>
  BY <1>3, <1>5, EmptySeq
<1>7. Head(results).pass \in BOOLEAN
  <2>1. Head(results) \in Results
    BY <1>2, <1>3, HeadTailProperties
  <2> QED
    BY <2>1 DEF Results
<1>8. ~Head(results).pass => ~MoreFaces
  BY <1>2 DEF RecognizeResultNotify, Conclude
<1>9. ~Head(results).pass => m_iPersonIndex + 1 = Len(m_vGrapPerson)
  <2>1. \A m, n \in Nat : m < n /\ ~(m + 1 < n) => m + 1 = n
    OBVIOUS
  <2> QED
    BY <1>3, <1>4, <1>5, <1>8, <2>1 DEF MoreFaces
<1> QED
  BY <1>1, <1>2, <1>3, <1>4, <1>5, <1>6, <1>7, <1>9

(* What that verdict says.                                                 *)
LEMMA ClosingVerdict ==
    ASSUME IInv, RecognizeResultNotify, Conclude(Head(results).pass),
           Undisturbed, "writeFailed" \notin mishaps
    PROVE  /\ hfResult'.card = m_IDCardInfo
           /\ hfResult'.pass \in BOOLEAN
           /\ hfResult'.pass <=> MatchingFaces # {}
<1>0. Current \in Captured
  BY ClosingState DEF Current, Captured
<1>1. /\ hfResult' = [card |-> m_IDCardInfo, pass |-> Head(results).pass,
                      imgCapture |-> Head(m_vGrapPerson).mat]
      /\ Head(results).pass \in BOOLEAN
  BY ClosingState DEF Conclude
<1>2. /\ Head(results).pass <=> <<m_IDCardInfo, Current>> \in Match
      /\ \A i \in 1..m_iPersonIndex : <<m_IDCardInfo, m_vGrapPerson[i].face>> \notin Match
  BY ClosingState DEF ComparingCurrent
<1>3. CASE Head(results).pass
  BY <1>0, <1>1, <1>2, <1>3 DEF MatchingFaces
<1>4. CASE ~Head(results).pass
  <2>1. ASSUME NEW i \in DOMAIN m_vGrapPerson
        PROVE  <<m_IDCardInfo, m_vGrapPerson[i].face>> \notin Match
    <3>1. i \in 1..m_iPersonIndex \/ i = m_iPersonIndex + 1
      BY <1>4, ClosingState
    <3> QED
      BY <1>2, <1>4, <3>1 DEF Current
  <2> QED
    BY <1>1, <1>4, <2>1 DEF MatchingFaces, Captured
<1> QED
  BY <1>1, <1>3, <1>4

(* The verdict of an undisturbed session is right.                         *)
THEOREM VerdictCorrectAlways == Spec => VerdictCorrect
<1>1. IInv /\ [Next]_vars
        => [Closes /\ Undisturbed /\ "writeFailed" \notin mishaps
              => /\ hfResult'.card = m_IDCardInfo
                 /\ hfResult'.pass <=> MatchingFaces # {}]_vars
  <2> SUFFICES ASSUME IInv, [Next]_vars, Closes, Undisturbed, "writeFailed" \notin mishaps
               PROVE  /\ hfResult'.card = m_IDCardInfo
                      /\ hfResult'.pass <=> MatchingFaces # {}
    OBVIOUS
  <2>1. RecognizeResultNotify /\ Conclude(Head(results).pass)
    BY ClosedByResult DEF IInv
  <2> QED
    BY <2>1, ClosingVerdict
<1> QED
  BY <1>1, Inductive, PTL DEF Spec, VerdictCorrect

(* The archived picture shows every captured face.                         *)
THEOREM CaptureArchivedAlways == Spec => CaptureArchived
<1>1. IInv /\ [Next]_vars
        => [Closes /\ Undisturbed
              => /\ Up'
                 /\ Captured = {hfResult'.imgCapture[i] : i \in DOMAIN hfResult'.imgCapture}
                 /\ hfResult'.pass \/ m_iPersonIndex' = Len(m_vGrapPerson)]_vars
  <2> SUFFICES ASSUME IInv, [Next]_vars, Closes, Undisturbed
               PROVE  /\ Up'
                      /\ Captured = {hfResult'.imgCapture[i] : i \in DOMAIN hfResult'.imgCapture}
                      /\ hfResult'.pass \/ m_iPersonIndex' = Len(m_vGrapPerson)
    OBVIOUS
  <2>1. RecognizeResultNotify /\ Conclude(Head(results).pass)
    BY ClosedByResult DEF IInv
  <2>2. /\ hfResult' = [card |-> m_IDCardInfo, pass |-> Head(results).pass,
                        imgCapture |-> Head(m_vGrapPerson).mat]
        /\ UNCHANGED process
    BY <2>1, ClosingState DEF Conclude
  <2>3. Up'
    BY <2>1, <2>2 DEF RecognizeResultNotify, Up
  <2>4. PICK frame \in Frames : m_vGrapPerson = FaceMatsOf(frame)
    BY <2>1, ClosingState DEF ComparingCurrent
  <2>5. /\ Len(frame) \in Nat \ {0} /\ DOMAIN frame = 1..Len(frame)
        /\ DOMAIN m_vGrapPerson = 1..Len(frame)
        /\ \A i \in 1..Len(frame) : m_vGrapPerson[i] = [mat |-> frame, face |-> frame[i]]
    BY <2>4, FrameFacts, FaceMatsFacts DEF FaceMatsOf
  <2>6. hfResult'.imgCapture = frame
    BY <2>2, <2>5
  <2>7. Captured = {frame[i] : i \in DOMAIN frame}
    BY <2>5 DEF Captured
  <2>8. hfResult'.pass \/ m_iPersonIndex' = Len(m_vGrapPerson)
    BY <2>1, <2>2, ClosingState DEF RecognizeResultNotify
  <2> QED
    BY <2>3, <2>6, <2>7, <2>8
<1> QED
  BY <1>1, Inductive, PTL DEF Spec, CaptureArchived

-----------------------------------------------------------------------------
(* A result is about the card of the open session and the face that is its *)
(* turn: what the worker reads back from the two files is never a picture  *)
(* of an earlier comparison, as long as they can be written.               *)
ResultIsCurrent ==
    [][Len(results') > Len(results) /\ Undisturbed /\ "writeFailed" \notin mishaps
        => /\ m_bInRecongnizing
           /\ results'[Len(results')].card = m_IDCardInfo
           /\ results'[Len(results')].face = m_vGrapPerson[m_iPersonIndex + 1].face]_vars

(* Only the worker adds a result.                                          *)
LEMMA AddedByWorker ==
    ASSUME TypeOK, [Next]_vars, Len(results') > Len(results)
    PROVE  RunCompare
<1>0. results \in Seq(Results) /\ Len(results) \in Nat
  BY LenProperties DEF TypeOK, DlibTypeOK
<1>1. results' # results
  BY <1>0
<1>2. CASE Run /\ UNCHANGED cameraVars
  BY <1>1, <1>2 DEF Run, RunNoNetwork, RunSave, RunLoadFails, RunReturn
<1>3. CASE RecognizeResultNotify
  <2>1. results # <<>> /\ results' = Tail(results)
    BY <1>3 DEF RecognizeResultNotify
  <2>2. Len(Tail(results)) = Len(results) - 1
    BY <1>0, <2>1, HeadTailProperties
  <2> QED
    BY <1>0, <2>1, <2>2
<1>4. ASSUME NEW frame \in Frames, GrapFaceFrameTimeProc(frame) PROVE FALSE
  BY <1>1, <1>4 DEF GrapFaceFrameTimeProc, EndGrap, DoRecognize, dlibVars
<1>5. CASE ManualGrab \/ HideResult \/ UNCHANGED vars
  BY <1>1, <1>5 DEF ManualGrab, HideResult, vars, dlibVars
<1>6. ASSUME NEW card \in Cards, Recognize(card) PROVE FALSE
  BY <1>1, <1>6 DEF Recognize
<1> QED
  BY <1>2, <1>3, <1>4, <1>5, <1>6 DEF Next, Work, Terminated

(* A queued result is that of the face at m_iPersonIndex.                  *)
THEOREM ResultIsCurrentAlways == Spec => ResultIsCurrent
<1>1. ASSUME IInv, [Next]_vars, Len(results') > Len(results), Undisturbed,
             "writeFailed" \notin mishaps
      PROVE  /\ m_bInRecongnizing
             /\ results'[Len(results')].card = m_IDCardInfo
             /\ results'[Len(results')].face = Current
  <2>1. RunCompare
    BY <1>1, AddedByWorker DEF IInv
  <2>2. m_bInRecongnizing /\ ~timer /\ jpg1 = m_IDCardInfo /\ jpg2 = Current
    BY <1>1, <2>1 DEF IInv, RunCompare, Exclusive, Quiet, Comparing, ComparingCurrent
  <2> DEFINE result == [pass |-> <<jpg1, jpg2>> \in Match, card |-> jpg1, face |-> jpg2]
  <2>3. result \in Results
    BY <1>1, <2>1 DEF IInv, TypeOK, DlibTypeOK, RunCompare, Results
  <2>4. results'[Len(results')] = result
    <3>1. results \in Seq(Results) /\ results' = Append(results, result)
      BY <1>1, <2>1 DEF IInv, TypeOK, DlibTypeOK, RunCompare
    <3> HIDE DEF result
    <3> QED
      BY <2>3, <3>1, AppendProperties
  <2> QED
    BY <2>2, <2>4
<1> QED
  BY <1>1, Inductive, PTL DEF Spec, ResultIsCurrent, Current

(* The grab button is disabled exactly while the grab timer runs, so it is *)
(* not left disabled by any order of sessions, clicks and results; that    *)
(* the timer stops is for the runs to show.                                *)
ButtonFollowsTimer == btnGrapFaceImage <=> ~timer

(* The grab button is available exactly while the grab timer is not running. *)
THEOREM ButtonFollowsTimerAlways == Spec => []ButtonFollowsTimer
<1>1. IInv => ButtonFollowsTimer
  BY DEF IInv, ButtonFollowsTimer
<1> QED
  BY <1>1, Inductive, PTL

-----------------------------------------------------------------------------
(* The refinement: the values the mapping gives the abstract variables.    *)
AbsFaces == IF m_bInRecongnizing THEN Captured ELSE {}
AbsVerdict == [card |-> hfResult.card, pass |-> hfResult.pass]
AbsExcused == mishaps \cap {"regrab", "writeFailed"} # {}

(* A step that touches nothing the abstract session sees, except that it   *)
(* may excuse it.                                                          *)
LEMMA InvisibleStep ==
    ASSUME UNCHANGED <<m_bInRecongnizing, m_IDCardInfo, hfResult>>,
           m_bInRecongnizing => UNCHANGED m_vGrapPerson,
           AbsExcused => AbsExcused'
    PROVE  [Verification!Next]_(Verification!vars)
<1>1. CASE AbsExcused'
  BY <1>1 DEF AbsExcused, Verification!Next, Verification!Excused
<1>2. CASE ~AbsExcused'
  <2>1. AbsExcused = AbsExcused'
    BY <1>2 DEF AbsExcused
  <2>2. AbsFaces' = AbsFaces
    BY DEF AbsFaces, Captured
  <2> QED
    BY <2>1, <2>2 DEF Verification!vars, AbsExcused, AbsFaces
<1> QED
  BY <1>1, <1>2

(* Handing a pair to the worker excuses nothing.                           *)
LEMMA CompareExcuses ==
    ASSUME NEW c, NEW f, Compare(c, f)
    PROVE  AbsExcused' = AbsExcused
BY DEF Compare, AbsExcused

LEMMA RefineResult ==
    ASSUME IInv, RecognizeResultNotify
    PROVE  [Verification!Next]_(Verification!vars)
<1> DEFINE more == ~Head(results).pass /\ MoreFaces
<1>1. UNCHANGED <<m_IDCardInfo, m_vGrapPerson>>
  BY DEF RecognizeResultNotify
<1>2. CASE more
  <2>1. /\ Compare(m_IDCardInfo, m_vGrapPerson[m_iPersonIndex' + 1].face)
        /\ UNCHANGED <<m_bInRecongnizing, hfResult>>
    BY <1>2 DEF RecognizeResultNotify
  <2> QED
    BY <1>1, <2>1, CompareExcuses, InvisibleStep
<1>3. CASE ~more
  <2>1. Conclude(Head(results).pass)
    BY <1>3 DEF RecognizeResultNotify
  <2>2. ~m_bInRecongnizing' /\ UNCHANGED mishaps
    BY <2>1 DEF Conclude
  <2>3. CASE AbsExcused
    BY <1>1, <2>2, <2>3 DEF AbsExcused, Verification!Next, Verification!Excused
  <2>4. CASE ~AbsExcused
    <3>1. Undisturbed /\ "writeFailed" \notin mishaps
      BY <2>4 DEF AbsExcused, Undisturbed
    <3>2. /\ hfResult'.card = m_IDCardInfo
          /\ hfResult'.pass \in BOOLEAN
          /\ hfResult'.pass <=> MatchingFaces # {}
      BY <2>1, <3>1, ClosingVerdict
    <3>3. hfResult'.pass = (\E face \in Captured : <<m_IDCardInfo, face>> \in Match)
      BY <3>2 DEF MatchingFaces
    <3>4. m_bInRecongnizing /\ Captured # {}
      <4>1. Current \in Captured
        BY <2>1, <3>1, ClosingState DEF Current, Captured
      <4> QED
        BY <2>1, <3>1, <4>1, ClosingState
    <3>5. Verification!Decide
      BY <1>1, <2>2, <2>4, <3>2, <3>3, <3>4 DEF Verification!Decide, AbsExcused
    <3> QED
      BY <3>5 DEF Verification!Next
  <2> QED
    BY <2>3, <2>4
<1> QED
  BY <1>2, <1>3

LEMMA RefineGrap ==
    ASSUME IInv, TypeOK', NEW frame \in Frames, GrapFaceFrameTimeProc(frame)
    PROVE  [Verification!Next]_(Verification!vars)
<1>1. /\ timer
      /\ m_vGrapPerson' = m_vGrapPerson \o FaceMatsOf(frame)
      /\ m_iGrapTimes' = m_iGrapTimes + 1
      /\ UNCHANGED <<m_bInRecongnizing, m_IDCardInfo, m_iGrapTotalTimes>>
  BY DEF GrapFaceFrameTimeProc
<1>2. AbsExcused' = AbsExcused
  <2>1. CASE m_iGrapTimes' >= m_iGrapTotalTimes /\ m_bInRecongnizing
    BY <2>1, CompareExcuses DEF GrapFaceFrameTimeProc, EndGrap, DoRecognize
  <2>2. CASE ~(m_iGrapTimes' >= m_iGrapTotalTimes /\ m_bInRecongnizing)
    BY <2>2 DEF GrapFaceFrameTimeProc, EndGrap, dlibVars, AbsExcused
  <2> QED
    BY <2>1, <2>2
<1>3. hfResult' = hfResult \/ hfResult' = NoResult
  BY DEF GrapFaceFrameTimeProc, EndGrap
<1>4. CASE AbsExcused
  BY <1>1, <1>2, <1>4 DEF AbsExcused, Verification!Next, Verification!Excused
<1>5. CASE ~AbsExcused /\ ~m_bInRecongnizing
  <2>1. AbsFaces' = {} /\ AbsFaces = {}
    BY <1>1, <1>5 DEF AbsFaces
  <2>2. CASE hfResult' = NoResult
    BY <1>1, <1>2, <1>5, <2>1, <2>2
       DEF AbsExcused, NoResult, Verification!Next, Verification!Hide, Verification!NoVerdict
  <2>3. CASE hfResult' = hfResult
    BY <1>1, <1>2, <1>5, <2>3, InvisibleStep
  <2> QED
    BY <1>3, <2>2, <2>3
<1>6. CASE ~AbsExcused /\ m_bInRecongnizing
  <2>1. m_vGrapPerson = <<>>
    BY <1>1, <1>6 DEF IInv, AbsExcused, Undisturbed, Grabbing
  <2>2. Captured = {}
    BY <2>1 DEF Captured
  <2>3. m_vGrapPerson' = FaceMatsOf(frame)
    BY <1>1, <2>1, FaceMatsFacts, ConcatEmptySeq
  <2>4. /\ DOMAIN m_vGrapPerson' = 1..Len(frame)
        /\ \A i \in 1..Len(frame) : m_vGrapPerson'[i].face \in Faces
        /\ Len(frame) \in Nat \ {0}
    BY <2>3, FaceMatsFacts, FrameFacts DEF FaceMatsOf
  <2>5. Captured' \in (SUBSET Faces) \ {{}}
    <3>1. Captured' \subseteq Faces
      BY <2>4 DEF Captured
    <3>2. m_vGrapPerson'[1].face \in Captured'
      BY <2>4 DEF Captured
    <3> QED
      BY <3>1, <3>2
  <2>6. AbsFaces = {} /\ AbsFaces' = Captured'
    BY <1>1, <1>6, <2>2 DEF AbsFaces
  <2>7. AbsVerdict' \in {AbsVerdict, Verification!NoVerdict}
    <3>1. CASE hfResult' = hfResult
      BY <3>1 DEF AbsVerdict
    <3>2. CASE hfResult' = NoResult
      <4>1. AbsVerdict' = Verification!NoVerdict
        BY <3>2 DEF AbsVerdict, NoResult, Verification!NoVerdict
      <4> QED
        BY <4>1
    <3> QED
      BY <1>3, <3>1, <3>2
  <2>8. Verification!Capture
    BY <1>1, <1>2, <1>6, <2>5, <2>6, <2>7
       DEF AbsFaces, AbsVerdict, AbsExcused, Verification!Capture, Verification!NoVerdict
  <2> QED
    BY <2>8 DEF Verification!Next
<1> QED
  BY <1>4, <1>5, <1>6

LEMMA RefineStep ==
    ASSUME IInv, TypeOK', [Next]_vars
    PROVE  [Verification!Next]_(Verification!vars)
<1>1. CASE Run /\ UNCHANGED cameraVars
  <2>1. AbsExcused => AbsExcused'
    BY <1>1 DEF AbsExcused, Run, RunNoNetwork, RunSave, RunCompare, RunLoadFails, RunReturn
  <2> QED
    BY <1>1, <2>1, InvisibleStep DEF cameraVars
<1>2. CASE RecognizeResultNotify
  BY <1>2, RefineResult
<1>3. ASSUME NEW frame \in Frames, GrapFaceFrameTimeProc(frame)
      PROVE  [Verification!Next]_(Verification!vars)
  BY <1>3, RefineGrap
<1>4. CASE ManualGrab
  <2>1. CASE m_bInRecongnizing
    BY <1>4, <2>1 DEF ManualGrab, Verification!Next, Verification!Excused
  <2>2. CASE ~m_bInRecongnizing
    <3>1. /\ UNCHANGED <<m_bInRecongnizing, m_IDCardInfo, mishaps>>
          /\ hfResult' = NoResult
      BY <1>4, <2>2 DEF ManualGrab, GrapImage
    <3> QED
      BY <2>2, <3>1 DEF NoResult, Verification!Next, Verification!Hide, Verification!NoVerdict
  <2> QED
    BY <2>1, <2>2
<1>5. CASE HideResult
  BY <1>5 DEF HideResult, dlibVars, Captured, NoResult, Verification!Next, Verification!Hide,
              Verification!NoVerdict
<1>6. ASSUME NEW card \in Cards, Recognize(card)
      PROVE  [Verification!Next]_(Verification!vars)
  <2>1. Captured' = {}
    BY <1>6 DEF Recognize, GrapImage, Captured
  <2> QED
    BY <1>6, <2>1 DEF Recognize, AcceptsCard, GrapImage, NoResult, Verification!Next,
                      Verification!Accept, Verification!NoVerdict
<1>7. CASE UNCHANGED vars
  BY <1>7, InvisibleStep DEF vars, dlibVars, cameraVars, AbsExcused
<1> QED
  BY <1>1, <1>2, <1>3, <1>4, <1>5, <1>6, <1>7 DEF Next, Work, Terminated

(* The slots, the worker and the button implement a verification.          *)
THEOREM Refinement == Spec => Implements
<1>1. Init => Verification!Init
  BY DEF Init, DlibInit, NoResult, Verification!Init, Verification!NoVerdict
<1>2. IInv /\ IInv' /\ [Next]_vars => [Verification!Next]_(Verification!vars)
  BY RefineStep DEF IInv
<1> QED
  BY <1>1, <1>2, Inductive, PTL DEF Spec, Implements, Verification!Spec
=============================================================================
