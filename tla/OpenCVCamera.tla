----------------------------- MODULE OpenCVCamera -----------------------------
(***************************************************************************)
(* A face verification session: OpenCVCamera's slots on the GUI thread     *)
(* (OpenCVCamera.cpp), the grab button of main_high.qml, and the worker    *)
(* thread of DlibRecognize.  A card opens a session; a timer grabs one     *)
(* frame with faces; the faces of that frame are compared one by one with  *)
(* the card's photo until one matches or none is left.                     *)
(*                                                                         *)
(* A timer tick whose frame cannot be read or shows no face changes        *)
(* nothing here: it is a stuttering step.  grapImage(false, n) only fills  *)
(* the picture list and is not part of a session.                          *)
(***************************************************************************)
EXTENDS DlibRecognize

CONSTANTS MaxFaces,    \* bound: the most faces the detector finds in a frame
          ManualTimes, \* frames one click grabs (5 in main_high.qml)
          MaxResults   \* bound: no manual grab with this many results pending

ASSUME CameraAssumption ==
    /\ MaxFaces \in Nat \ {0}
    /\ ManualTimes \in Nat \ {0}
    /\ MaxResults \in Nat

VARIABLES m_bInRecongnizing, \* a session is open
          m_IDCardInfo,      \* its card (m_RecognizeFaceMat is that card's face)
          timer,             \* m_pGrapFaceTimer is active
          m_iGrapTimes, m_iGrapTotalTimes,
          m_vGrapPerson,     \* captured faces, each with the frame it is in
          m_iPersonIndex,    \* the captured face that is being compared
          btnGrapFaceImage,  \* the grab button is enabled
          hfResult           \* the verdict on display, see NoResult

cameraVars == <<m_bInRecongnizing, m_IDCardInfo, timer, m_iGrapTimes, m_iGrapTotalTimes,
                m_vGrapPerson, m_iPersonIndex, btnGrapFaceImage, hfResult>>
vars == <<dlibVars, cameraVars>>

-----------------------------------------------------------------------------
(* A frame is the sequence of the faces the detector finds in it, in the   *)
(* detector's order.                                                       *)
Frames == UNION {[1..n -> Faces] : n \in 1..MaxFaces}

FaceMats == [mat : Frames, face : Faces]

NoFrame == <<>>
HFResults == [card : Cards \cup {NoCard}, pass : BOOLEAN, imgCapture : Frames \cup {NoFrame}]

(* No verdict is on display: none was given yet, or allHide() took it away.*)
NoResult == [card |-> NoCard, pass |-> FALSE, imgCapture |-> NoFrame]

TypeOK ==
    /\ DlibTypeOK
    /\ m_bInRecongnizing \in BOOLEAN
    /\ m_IDCardInfo \in Cards \cup {NoCard}
    /\ m_bInRecongnizing => m_IDCardInfo \in Cards
    /\ timer \in BOOLEAN
    /\ m_iGrapTimes \in Nat
    /\ m_iGrapTotalTimes \in Nat
    /\ m_vGrapPerson \in Seq(FaceMats)
    /\ m_iPersonIndex \in Nat
    /\ btnGrapFaceImage \in BOOLEAN
    /\ hfResult \in HFResults \cup {NoResult}

-----------------------------------------------------------------------------
Init ==
    /\ DlibInit
    /\ m_bInRecongnizing = FALSE
    /\ m_IDCardInfo = NoCard
    /\ timer = FALSE
    /\ m_iGrapTimes = 0
    /\ m_iGrapTotalTimes = 0
    /\ m_vGrapPerson = <<>>
    /\ m_iPersonIndex = 0
    /\ btnGrapFaceImage = TRUE
    /\ hfResult = NoResult

(* grapImage(true, iNum): start over with an empty list; the handler of    *)
(* beginGrapFaceImage disables the button and hides a verdict.             *)
GrapImage(iNum) ==
    /\ m_iGrapTimes' = 0
    /\ m_iGrapTotalTimes' = iNum
    /\ m_vGrapPerson' = <<>>
    /\ timer' = TRUE
    /\ btnGrapFaceImage' = FALSE
    /\ hfResult' = NoResult

(* The grab button.  endGrapFaceImage enables it again while the session   *)
(* still compares; a verdict on display lies over it.                      *)
ManualGrab ==
    /\ Up /\ btnGrapFaceImage /\ hfResult = NoResult
    /\ Len(results) < MaxResults
    /\ GrapImage(ManualTimes)
    /\ mishaps' = mishaps \cup (IF m_bInRecongnizing THEN {"regrab"} ELSE {})
    /\ UNCHANGED <<process, m_bInit, thread, m_Face1, m_Face2, jpg1, jpg2, results,
                   m_bInRecongnizing, m_IDCardInfo, m_iPersonIndex>>

(* recognize() returns early, changing nothing, while a session is open.   *)
AcceptsCard_NoGuard == TRUE
AcceptsCard == ~m_bInRecongnizing

(* recognize() for a card whose photo shows one face; a card with another  *)
(* photo changes nothing.  The mishaps of the previous session are         *)
(* forgotten unless it left a comparison behind.                           *)
Recognize(card) ==
    /\ Up /\ AcceptsCard
    /\ m_IDCardInfo' = card
    /\ m_bInRecongnizing' = TRUE
    /\ GrapImage(1)
    /\ mishaps' = IF Quiet THEN {} ELSE mishaps
    /\ UNCHANGED <<process, m_bInit, thread, m_Face1, m_Face2, jpg1, jpg2, results,
                   m_iPersonIndex>>

(* Every face of the frame is queued together with a copy of the frame.    *)
FaceMatsOf(frame) == [i \in 1..Len(frame) |-> [mat |-> frame, face |-> frame[i]]]

(* doRecognize(): the first captured face.  Its emptiness test compares    *)
(* size() < 0 and never returns.                                           *)
DoRecognize_NoReset ==
    /\ UNCHANGED <<m_iPersonIndex, results>>
    /\ Compare(m_IDCardInfo, Head(m_vGrapPerson').face)
DoRecognize ==
    /\ m_iPersonIndex' = 0
    /\ Compare(m_IDCardInfo, Head(m_vGrapPerson').face)
    /\ UNCHANGED results

(* After the last frame: stop the timer, emit endGrapFaceImage (its        *)
(* handler enables the button and hides a verdict), compare if a session   *)
(* is open.                                                                *)
EndGrap_TimerRuns ==
    /\ UNCHANGED timer
    /\ btnGrapFaceImage' = TRUE
    /\ hfResult' = NoResult
    /\ IF m_bInRecongnizing THEN DoRecognize ELSE UNCHANGED <<dlibVars, m_iPersonIndex>>
EndGrap_ButtonLate ==
    /\ timer' = FALSE
    /\ btnGrapFaceImage' = ~m_bInRecongnizing
    /\ hfResult' = NoResult
    /\ IF m_bInRecongnizing THEN DoRecognize ELSE UNCHANGED <<dlibVars, m_iPersonIndex>>
EndGrap_AlwaysCompares ==
    /\ timer' = FALSE
    /\ btnGrapFaceImage' = TRUE
    /\ hfResult' = NoResult
    /\ DoRecognize
EndGrap ==
    /\ timer' = FALSE
    /\ btnGrapFaceImage' = TRUE
    /\ hfResult' = NoResult
    /\ IF m_bInRecongnizing THEN DoRecognize ELSE UNCHANGED <<dlibVars, m_iPersonIndex>>

(* grapFaceFrameTimeProc() with a frame that shows faces.                  *)
GrapFaceFrameTimeProc(frame) ==
    /\ Up /\ timer
    /\ m_vGrapPerson' = m_vGrapPerson \o FaceMatsOf(frame)
    /\ m_iGrapTimes' = m_iGrapTimes + 1
    /\ IF m_iGrapTimes' >= m_iGrapTotalTimes
       THEN EndGrap
       ELSE UNCHANGED <<dlibVars, timer, m_iPersonIndex, btnGrapFaceImage, hfResult>>
    /\ UNCHANGED <<m_bInRecongnizing, m_IDCardInfo, m_iGrapTotalTimes>>

(* The verdict of recognizeResultNotify().  The session is closed first;   *)
(* then the archived picture is taken from m_vGrapPerson[0] without a      *)
(* test: out of range, the program dies or carries on with garbage.        *)
Conclude_StaysOpen(pass) ==
    /\ m_bInRecongnizing' = ~pass
    /\ hfResult' = [card |-> m_IDCardInfo, pass |-> pass,
                    imgCapture |-> IF m_vGrapPerson = <<>> THEN NoFrame ELSE Head(m_vGrapPerson).mat]
    /\ UNCHANGED <<process, m_bInit, thread, m_Face1, m_Face2, jpg1, jpg2, mishaps>>
Conclude(pass) ==
    /\ m_bInRecongnizing' = FALSE
    /\ IF m_vGrapPerson # <<>>
       THEN /\ hfResult' = [card |-> m_IDCardInfo, pass |-> pass,
                            imgCapture |-> Head(m_vGrapPerson).mat]
            /\ UNCHANGED process
       ELSE \/ /\ hfResult' = [card |-> m_IDCardInfo, pass |-> pass, imgCapture |-> NoFrame]
               /\ UNCHANGED process
            \/ /\ process' = "terminated"
               /\ UNCHANGED hfResult
    /\ UNCHANGED <<m_bInit, thread, m_Face1, m_Face2, jpg1, jpg2, mishaps>>

(* There is a captured face after the one that was just compared.          *)
MoreFaces_SkipsLast == m_iPersonIndex + 2 < Len(m_vGrapPerson)
MoreFaces == m_iPersonIndex + 1 < Len(m_vGrapPerson)

(* recognizeResultNotify(bPass), the slot the queued signal runs: the next *)
(* captured face if this one failed and there is one, else the verdict.    *)
RecognizeResultNotify ==
    /\ Up /\ results # <<>>
    /\ m_iPersonIndex' = m_iPersonIndex + 1
    /\ IF ~Head(results).pass /\ MoreFaces
       THEN /\ Compare(m_IDCardInfo, m_vGrapPerson[m_iPersonIndex' + 1].face)
            /\ UNCHANGED <<m_bInRecongnizing, hfResult>>
       ELSE Conclude(Head(results).pass)
    /\ results' = Tail(results)
    /\ UNCHANGED <<m_IDCardInfo, timer, m_iGrapTimes, m_iGrapTotalTimes, m_vGrapPerson,
                   btnGrapFaceImage>>

(* The verdict disappears at a click or after five seconds.                *)
HideResult ==
    /\ Up /\ hfResult # NoResult
    /\ hfResult' = NoResult
    /\ UNCHANGED <<dlibVars, m_bInRecongnizing, m_IDCardInfo, timer, m_iGrapTimes,
                   m_iGrapTotalTimes, m_vGrapPerson, m_iPersonIndex, btnGrapFaceImage>>

(* A program that died takes no step.                                      *)
Terminated == ~Up /\ UNCHANGED vars

Work ==
    \/ Run /\ UNCHANGED cameraVars
    \/ RecognizeResultNotify
    \/ \E frame \in Frames : GrapFaceFrameTimeProc(frame)

Next ==
    \/ Work
    \/ ManualGrab
    \/ HideResult
    \/ \E card \in Cards : Recognize(card)
    \/ Terminated

(* The thread is scheduled, the event loop delivers what is queued, and    *)
(* somebody stands in front of the camera.  Cards and clicks may stop.     *)
Fairness ==
    /\ WF_vars(Run /\ UNCHANGED cameraVars)
    /\ WF_vars(RecognizeResultNotify)
    /\ WF_vars(\E frame \in Frames : GrapFaceFrameTimeProc(frame))

Spec == Init /\ [][Next]_vars
FairSpec == Spec /\ Fairness

-----------------------------------------------------------------------------
Undisturbed == "regrab" \notin mishaps

(* Captured faces that match the card of the session.                      *)
Captured == {m_vGrapPerson[i].face : i \in DOMAIN m_vGrapPerson}
MatchingFaces == {face \in Captured : <<m_IDCardInfo, face>> \in Match}

(* Until somebody grabs by hand in an open session, at most one comparison *)
(* is under way or waiting to be delivered, and it belongs to the open     *)
(* session: recognizeResultNotify has no test of its own for that.         *)
OneComparison ==
    Undisturbed =>
        /\ Len(results) <= 1
        /\ Comparing => results = <<>>
        /\ ~Quiet => m_bInRecongnizing /\ ~timer

(* m_Face1 and m_Face2 are unlocked; the GUI thread assigns them under the *)
(* worker's reads only when somebody grabbed by hand in an open session.   *)
RaceNeedsRegrab == "race" \in mishaps => "regrab" \in mishaps

(* A session that is open while nothing is grabbed, compared or delivered  *)
(* ignores every later card for good.  It comes about only when the        *)
(* network is missing or start() was called before run() had returned.     *)
NoSilentStall ==
    Up /\ m_bInRecongnizing /\ ~timer /\ Quiet
        => ~m_bInit \/ "lostStart" \in mishaps

(* The program dies only of a picture that could not be written or of a    *)
(* manual grab in an open session.                                         *)
DiesOnlyOf == ~Up => mishaps \cap {"regrab", "writeFailed"} # {}

Closes == m_bInRecongnizing /\ ~m_bInRecongnizing'

(* The verdict of an undisturbed session is about the card that opened it  *)
(* and says exactly whether one of the faces captured for it matches: a    *)
(* refusal means every one of them was compared.                           *)
VerdictCorrect ==
    [][Closes /\ Undisturbed /\ "writeFailed" \notin mishaps
        => /\ hfResult'.card = m_IDCardInfo
           /\ hfResult'.pass <=> MatchingFaces # {}]_vars

(* Even when a picture could not be written a refusal comes only after as  *)
(* many results as faces were captured, and the archived picture exists    *)
(* and shows every face that was captured.                                 *)
CaptureArchived ==
    [][Closes /\ Undisturbed
        => /\ Up'
           /\ Captured = {hfResult'.imgCapture[i] : i \in DOMAIN hfResult'.imgCapture}
           /\ hfResult'.pass \/ m_iPersonIndex' = Len(m_vGrapPerson)]_vars

(* An undisturbed session comes to a verdict, unless the network is        *)
(* missing, a start was lost or the program died.                          *)
SessionConcludes ==
    m_bInRecongnizing ~> \/ ~m_bInRecongnizing
                         \/ ~m_bInit \/ ~Up
                         \/ mishaps \cap {"regrab", "lostStart"} # {}

(* The button that grabs by hand never stays disabled.                     *)
ButtonComesBack == ~btnGrapFaceImage ~> btnGrapFaceImage \/ ~Up

-----------------------------------------------------------------------------
(* The session as an operator of the machine sees it, see FaceVerification.*)
Verification == INSTANCE FaceVerification WITH
    open    <- m_bInRecongnizing,
    card    <- m_IDCardInfo,
    faces   <- IF m_bInRecongnizing THEN Captured ELSE {},
    verdict <- [card |-> hfResult.card, pass |-> hfResult.pass],
    excused <- mishaps \cap {"regrab", "writeFailed"} # {}

(* What the slots, the worker and the button do together is a              *)
(* verification as FaceVerification promises it.                           *)
Implements == Verification!Spec
=============================================================================
