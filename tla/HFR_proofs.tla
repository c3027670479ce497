------------------------------ MODULE HFR_proofs ------------------------------
(***************************************************************************)
(* Proofs about the whole program, for any cards, values of a card, faces  *)
(* and matching relation and any value of the bounds.  Every step of the   *)
(* program is one of the session or none of its, and one of the card       *)
(* reader or none of its, so what is proved of the parts holds here.  What *)
(* is new is how the two agree about the card.                             *)
(***************************************************************************)
EXTENDS HFR, OpenCVCamera_proofs, IDCardReader_proofs

(* Between two handlers, what was shown and passed on is the card of the   *)
(* session.                                                                *)
SameCard ==
    ~overlap /\ misled = {} =>
        /\ accepted = Whole(m_IDCardInfo)
        /\ gui \notin {"show", "pass"} => \A f \in ShownFields : shown[f] = m_IDCardInfo

VerdictOfSession == hfResult # NoResult => hfResult.card = m_IDCardInfo

ProgramIInv ==
    /\ misled \subseteq Misled
    /\ aborted \in BOOLEAN
    /\ SameCard
    /\ VerdictOfSession
    /\ AbortsOnlyInSession

-----------------------------------------------------------------------------
(* A step of the program as the session sees it.                           *)
LEMMA ProgramSessionStep == [ProgramNext]_programVars => [Next]_vars
<1> SUFFICES ASSUME [ProgramNext]_programVars PROVE [Next]_vars
  OBVIOUS
<1>1. CASE ServiceStep \/ ReaderStep \/ HandlerStep \/ CloseWindow \/ JoinReader
  BY <1>1 DEF ServiceStep, ReaderStep, HandlerStep, CloseWindow, JoinReader
<1>2. CASE HandlerCalls
  <2>1. CASE Ignored \/ Unreadable
    BY <2>1 DEF Ignored, Unreadable
  <2>2. CASE Refused
    <3>1. Up
      BY <1>2 DEF HandlerCalls, Running
    <3>2. CASE hfResult = NoResult
      BY <2>2, <3>2 DEF Refused, vars, cameraVars
    <3>3. CASE hfResult # NoResult
      BY <2>2, <3>1, <3>3 DEF Refused, HideResult, Next
    <3> QED
      BY <3>2, <3>3
  <2>3. CASE accepted'[Photo] \in Cards /\ Accepted(accepted'[Photo])
    BY <2>3 DEF Accepted, Next
  <2> QED
    BY <1>2, <2>1, <2>2, <2>3 DEF HandlerCalls
<1>3. CASE WorkerStep
  BY <1>3 DEF WorkerStep, Next, Work
<1>4. CASE ResultStep
  BY <1>4 DEF ResultStep, Next, Work
<1>5. CASE GrabStep
  BY <1>5 DEF GrabStep, Next, Work
<1>6. CASE ClickStep
  BY <1>6 DEF ClickStep, Next
<1>7. CASE Stopped \/ UNCHANGED programVars
  BY <1>7 DEF Stopped, programVars
<1> QED
  BY <1>1, <1>2, <1>3, <1>4, <1>5, <1>6, <1>7 DEF ProgramNext

(* A step of the program as the card reader sees it.                       *)
LEMMA ProgramReaderStep == [ProgramNext]_programVars => [ReaderNext]_cardVars
<1> SUFFICES ASSUME [ProgramNext]_programVars PROVE [ReaderNext]_cardVars
  OBVIOUS
<1>1. CASE ServiceStep \/ ReaderStep
  BY <1>1 DEF ServiceStep, ReaderStep, ReaderNext
<1>2. CASE HandlerStep \/ HandlerCalls \/ JoinReader
  BY <1>2 DEF HandlerStep, HandlerCalls, JoinReader, Running, ReaderNext, GuiThread
<1>3. CASE WorkerStep \/ ResultStep \/ GrabStep \/ ClickStep
  BY <1>3 DEF WorkerStep, ResultStep, GrabStep, ClickStep
<1>4. CASE CloseWindow
  BY <1>4 DEF CloseWindow, ReaderNext
<1>5. CASE Stopped \/ UNCHANGED programVars
  BY <1>5 DEF Stopped, programVars
<1> QED
  BY <1>1, <1>2, <1>3, <1>4, <1>5 DEF ProgramNext

(* The session in the program is the one OpenCVCamera describes.           *)
THEOREM SessionInProgram == ProgramSpec => ImplementsSession
  BY ProgramSessionStep, PTL DEF ProgramSpec, ProgramInit, ImplementsSession, Spec

(* The card reader in the program is the one IDCardReader describes.       *)
THEOREM ReaderInProgram == ProgramSpec => ImplementsReader
  BY ProgramReaderStep, PTL DEF ProgramSpec, ProgramInit, ImplementsReader, ReaderSpec

-----------------------------------------------------------------------------
LEMMA ProgramInitIInv == ProgramInit => ProgramIInv
<1> SUFFICES ASSUME ProgramInit PROVE ProgramIInv
  OBVIOUS
<1>1. SameCard
  BY Orders, ShowsAll DEF ProgramInit, Init, ReaderInit, SameCard, Nothing, Whole
<1>2. VerdictOfSession
  BY DEF ProgramInit, Init, VerdictOfSession
<1> QED
  BY <1>1, <1>2 DEF ProgramInit, ProgramIInv, AbortsOnlyInSession, Misled

(* A verdict names the session's card because only recognize() changes the *)
(* card, and it takes the verdict away.                                    *)
LEMMA VerdictStep == VerdictOfSession /\ [Next]_vars => VerdictOfSession'
<1> SUFFICES ASSUME VerdictOfSession, [Next]_vars PROVE VerdictOfSession'
  OBVIOUS
<1>1. CASE hfResult' = NoResult
  BY <1>1 DEF VerdictOfSession
<1>2. CASE UNCHANGED <<m_IDCardInfo, hfResult>>
  BY <1>2 DEF VerdictOfSession, NoResult
<1>3. ASSUME NEW pass, Conclude(pass), UNCHANGED m_IDCardInfo PROVE VerdictOfSession'
  <2>1. hfResult' = hfResult \/ hfResult'.card = m_IDCardInfo
    BY <1>3 DEF Conclude
  <2> QED
    BY <1>3, <2>1 DEF VerdictOfSession, NoResult
<1>4. CASE RecognizeResultNotify
  <2>1. CASE ~Head(results).pass /\ MoreFaces
    BY <1>4, <2>1, <1>2 DEF RecognizeResultNotify
  <2>2. CASE ~(~Head(results).pass /\ MoreFaces)
    BY <1>4, <2>2, <1>3 DEF RecognizeResultNotify
  <2> QED
    BY <2>1, <2>2
<1>5. ASSUME NEW frame \in Frames, GrapFaceFrameTimeProc(frame) PROVE VerdictOfSession'
  BY <1>5, <1>1, <1>2 DEF GrapFaceFrameTimeProc, EndGrap
<1>6. CASE ManualGrab \/ HideResult
  BY <1>6, <1>1 DEF ManualGrab, GrapImage, HideResult
<1>7. ASSUME NEW card \in Cards, Recognize(card) PROVE VerdictOfSession'
  BY <1>7, <1>1 DEF Recognize, GrapImage
<1>8. CASE UNCHANGED cameraVars
  BY <1>8, <1>2 DEF cameraVars
<1> QED
  BY <1>4, <1>5, <1>6, <1>7, <1>8 DEF Next, Work, Terminated, vars

(* Steps that leave the handler, the session's card and the history of     *)
(* presentations alone.                                                    *)
LEMMA SameCardKept ==
    ASSUME SameCard, UNCHANGED <<accepted, shown, m_IDCardInfo, misled>>,
           ~overlap' => ~overlap, gui' \in {"show", "pass"} \/ gui' = gui
                                  \/ gui \notin {"show", "pass"}
    PROVE  SameCard'
  BY DEF SameCard, Whole

LEMMA SameCardStep ==
    ASSUME SameCard, ReaderIInv', ReaderTypeOK, [ProgramNext]_programVars
    PROVE  SameCard'
<1>1. CASE ServiceStep
  <2>1. UNCHANGED guiVars /\ (overlap' = overlap \/ overlap' = (overlap \/ ~Settled))
    BY <1>1 DEF ServiceStep, Service, Present, WriteValue, Notify, NotifyAgain
  <2>2. ~overlap' => ~overlap
    BY <2>1
  <2> QED
    BY <1>1, <2>1, <2>2, SameCardKept DEF ServiceStep, guiVars, vars, cameraVars
<1>2. CASE ReaderStep
  <2>1. UNCHANGED <<accepted, shown, gui, overlap>>
    BY <1>2 DEF ReaderStep, ReaderThread, ReaderLoop, ReaderWakes, ReaderResets, ReaderOpens,
       ReaderSize, ReaderValue, ReaderPosts, guiVars, serviceVars
  <2> QED
    BY <1>2, <2>1, SameCardKept DEF ReaderStep, vars, cameraVars
<1>3. CASE HandlerStep
  <2>1. CASE HandlerStarts
    BY <1>3, <2>1, SameCardKept DEF HandlerStep, HandlerStarts, serviceVars, vars, cameraVars
  <2>2. CASE HandlerShows \/ (~LastArgument /\ HandlerPasses)
    <3>1. gui' \in {"show", "pass"} /\ UNCHANGED <<accepted, overlap>>
      BY <2>2, Lengths DEF HandlerShows, HandlerPasses, LastArgument, serviceVars
    <3> QED
      BY <1>3, <3>1 DEF SameCard, Whole, HandlerStep, vars, cameraVars
  <2> QED
    BY <1>3, <2>1, <2>2 DEF HandlerStep
<1>4. CASE HandlerCalls
  <2>1. CASE Ignored \/ Unreadable \/ Refused
    BY <2>1 DEF Ignored, Unreadable, Refused, SameCard
  <2>2. ASSUME accepted'[Photo] \in Cards, Accepted(accepted'[Photo]), ~overlap'
        PROVE  SameCard'
    <3>1. gui' = "idle"
      BY <1>4 DEF HandlerCalls, HandlerPasses, LastArgument
    <3>2. alive'
      BY <2>2 DEF ReaderIInv
    <3>3. PICK card \in Values : Handled(card)'
      BY <2>2, <3>1, <3>2 DEF ReaderIInv, Sequential, Open
    <3>4. m_IDCardInfo' = card
      BY <2>2, <3>3, ProgramAssumption DEF Accepted, Recognize, Handled, Whole
    <3> QED
      BY <3>3, <3>4 DEF SameCard, Handled, Whole
  <2> QED
    BY <1>4, <2>1, <2>2 DEF HandlerCalls, SameCard
<1>5. CASE WorkerStep \/ ResultStep \/ GrabStep \/ ClickStep
  <2>1. UNCHANGED <<m_IDCardInfo, misled>> /\ UNCHANGED cardVars
    BY <1>5 DEF WorkerStep, ResultStep, GrabStep, ClickStep, cameraVars, RecognizeResultNotify,
       GrapFaceFrameTimeProc, ManualGrab, HideResult
  <2> QED
    BY <2>1, SameCardKept DEF cardVars, guiVars, serviceVars
<1>6. CASE CloseWindow \/ JoinReader
  <2>1. UNCHANGED <<accepted, shown, overlap>> /\ gui \notin {"show", "pass"}
    BY <1>6 DEF CloseWindow, JoinReader, GuiFree, Interrupt, Join, serviceVars, cardVars, guiVars
  <2> QED
    BY <1>6, <2>1, SameCardKept DEF CloseWindow, JoinReader, vars, cameraVars
<1>7. CASE Stopped \/ UNCHANGED programVars
  BY <1>7, SameCardKept DEF Stopped, programVars, vars, cameraVars, cardVars, guiVars, serviceVars
<1> QED
  BY <1>1, <1>2, <1>3, <1>4, <1>5, <1>6, <1>7 DEF ProgramNext

(* A comparison runs only in a session, so an abort means there is one.    *)
LEMMA AbortStep ==
    ASSUME IInv, aborted \in BOOLEAN, AbortsOnlyInSession, [ProgramNext]_programVars
    PROVE  AbortsOnlyInSession' /\ aborted' \in BOOLEAN
<1>1. CASE CloseWindow /\ aborted'
  <2>1. UNCHANGED vars /\ (aborted \/ thread # "idle")
    BY <1>1 DEF CloseWindow, GuiFree, Running
  <2>2. AbortsOnlyInSession'
    BY <2>1 DEF IInv, TypeOK, DlibTypeOK, Exclusive, Quiet, Comparing, Thread, Undisturbed,
       AbortsOnlyInSession, vars, dlibVars, cameraVars
  <2> QED
    BY <1>1, <2>2 DEF CloseWindow
<1>2. CASE ~aborted /\ UNCHANGED aborted
  BY <1>2 DEF AbortsOnlyInSession
<1>3. CASE UNCHANGED <<vars, aborted>>
  BY <1>3 DEF AbortsOnlyInSession, Undisturbed, vars, dlibVars, cameraVars
<1>4. CASE ProgramNext /\ Running /\ ~CloseWindow
  BY <1>2, <1>4 DEF ProgramNext, Running, ServiceStep, ReaderStep, HandlerStep, HandlerCalls,
     WorkerStep, ResultStep, GrabStep, ClickStep, JoinReader, Stopped, programVars
<1>5. CASE ~Running
  <2>1. UNCHANGED programVars
    BY <1>5 DEF ProgramNext, ServiceStep, ReaderStep, HandlerStep, HandlerCalls, WorkerStep,
       ResultStep, GrabStep, ClickStep, JoinReader, CloseWindow, GuiFree, Stopped
  <2> QED
    BY <2>1, <1>3 DEF programVars
<1>6. CASE CloseWindow /\ ~aborted'
  <2>1. ~aborted /\ UNCHANGED aborted
    BY <1>6 DEF CloseWindow, GuiFree, Running
  <2> QED
    BY <2>1, <1>2
<1>7. CASE UNCHANGED programVars
  BY <1>7, <1>3 DEF programVars
<1> QED
  BY <1>1, <1>4, <1>5, <1>6, <1>7

LEMMA MisledStep ==
    misled \subseteq Misled /\ [ProgramNext]_programVars => misled' \subseteq Misled
  BY DEF Misled, ProgramNext, ServiceStep, ReaderStep, HandlerStep, HandlerCalls, Ignored,
     Unreadable, Refused, Accepted, WorkerStep, ResultStep, GrabStep, ClickStep, CloseWindow,
     JoinReader, Stopped, programVars

LEMMA ProgramInductive == ProgramSpec => [](ProgramIInv /\ IInv /\ ReaderIInv)
<1>1. ProgramSpec => [](IInv /\ ReaderIInv)
  BY SessionInProgram, ReaderInProgram, Inductive, ReaderInductive, PTL
     DEF ImplementsSession, ImplementsReader
<1>2. ProgramIInv /\ IInv /\ ReaderIInv /\ ReaderIInv' /\ [ProgramNext]_programVars
        => ProgramIInv'
  <2> SUFFICES ASSUME ProgramIInv, IInv, ReaderIInv, ReaderIInv', [ProgramNext]_programVars
               PROVE  ProgramIInv'
    OBVIOUS
  <2>1. SameCard'
    BY SameCardStep DEF ProgramIInv, ReaderIInv
  <2>2. VerdictOfSession'
    BY VerdictStep, ProgramSessionStep DEF ProgramIInv
  <2>3. AbortsOnlyInSession' /\ aborted' \in BOOLEAN
    BY AbortStep DEF ProgramIInv
  <2>4. misled' \subseteq Misled
    BY MisledStep DEF ProgramIInv
  <2> QED
    BY <2>1, <2>2, <2>3, <2>4 DEF ProgramIInv
<1> QED
  BY <1>1, <1>2, ProgramInitIInv, PTL DEF ProgramSpec

-----------------------------------------------------------------------------
(* The parts and the two variables of the composition keep their types.    *)
THEOREM ProgramTypeCorrect == ProgramSpec => []ProgramTypeOK
<1>1. ProgramIInv /\ IInv /\ ReaderIInv => ProgramTypeOK
  BY DEF ProgramIInv, IInv, ReaderIInv, ProgramTypeOK
<1> QED
  BY <1>1, ProgramInductive, PTL

(* The card on the screen is the one being verified and the one of the     *)
(* verdict, unless presentations overlap or recognize() did not take the   *)
(* card last shown.                                                        *)
THEOREM ScreenAgreesAlways == ProgramSpec => []ScreenAgrees
<1>1. ProgramIInv => ScreenAgrees
  BY DEF ProgramIInv, SameCard, VerdictOfSession, ScreenAgrees
<1> QED
  BY <1>1, ProgramInductive, PTL

(* Likewise, all that was passed on for a session belongs to its card.     *)
THEOREM SessionOfOneCardAlways == ProgramSpec => []SessionOfOneCard
<1>1. ProgramIInv => SessionOfOneCard
  BY DEF ProgramIInv, SameCard, SessionOfOneCard
<1> QED
  BY <1>1, ProgramInductive, PTL

(* Closing the window at rest never aborts the program.                    *)
THEOREM AbortsOnlyInSessionAlways == ProgramSpec => []AbortsOnlyInSession
<1>1. ProgramIInv => AbortsOnlyInSession
  BY DEF ProgramIInv
<1> QED
  BY <1>1, ProgramInductive, PTL

-----------------------------------------------------------------------------
(* The whole program, with its card reader, keeps the promise that         *)
(* FaceVerification states.                                                *)
THEOREM ProgramVerifies == ProgramSpec => Implements
  BY SessionInProgram, Refinement, PTL DEF ImplementsSession

(* What the operator is told: an undisturbed session closes with a verdict *)
(* on the card that the screen shows, and the verdict says whether a face  *)
(* captured for that card matches it, unless presentations overlap,        *)
(* recognize() did not take the card last shown or a picture could not be  *)
(* written.                                                                *)
VerdictOnShown ==
    [][Closes /\ Undisturbed /\ "writeFailed" \notin mishaps /\ ~overlap /\ misled = {}
        => /\ \A f \in ShownFields : hfResult'.card = shown[f]
           /\ hfResult'.pass <=> MatchingFaces # {}]_programVars

(* The verdict of recognizeResultNotify is about the card on the screen.   *)
THEOREM VerdictOnShownAlways == ProgramSpec => VerdictOnShown
<1>1. ASSUME ProgramIInv, IInv, [ProgramNext]_programVars, Closes, Undisturbed,
             "writeFailed" \notin mishaps, ~overlap, misled = {}
      PROVE  /\ \A f \in ShownFields : hfResult'.card = shown[f]
             /\ hfResult'.pass <=> MatchingFaces # {}
  <2>1. RecognizeResultNotify /\ Conclude(Head(results).pass)
    BY <1>1, ProgramSessionStep, ClosedByResult DEF IInv
  <2>2. /\ hfResult'.card = m_IDCardInfo
        /\ hfResult'.pass <=> MatchingFaces # {}
    BY <1>1, <2>1, ClosingVerdict
  <2>3. gui = "idle"
    <3>1. m_bInRecongnizing # m_bInRecongnizing' /\ m_bInRecongnizing
      BY <1>1 DEF Closes
    <3> QED
      BY <1>1, <3>1 DEF ProgramNext, ServiceStep, ReaderStep, HandlerStep, HandlerCalls,
         Ignored, Unreadable, Refused, Accepted, Recognize, AcceptsCard, WorkerStep, ResultStep,
         GrabStep, ClickStep, CloseWindow, JoinReader, Stopped, GuiFree, programVars, vars,
         cameraVars
  <2>4. \A f \in ShownFields : shown[f] = m_IDCardInfo
    BY <1>1, <2>3 DEF ProgramIInv, SameCard
  <2> QED
    BY <2>2, <2>4
<1> QED
  BY <1>1, ProgramInductive, PTL DEF ProgramSpec, VerdictOnShown

-----------------------------------------------------------------------------
(* The card of the session is the one whose photo was passed on last, as   *)
(* long as recognize() takes every card, even when presentations overlap.  *)
PhotoTaken == misled = {} => m_IDCardInfo = accepted[Photo]

LEMMA PhotoTakenStep == PhotoTaken /\ [ProgramNext]_programVars => PhotoTaken'
<1> SUFFICES ASSUME PhotoTaken, [ProgramNext]_programVars PROVE PhotoTaken'
  OBVIOUS
<1>1. CASE UNCHANGED <<m_IDCardInfo, accepted, misled>>
  BY <1>1 DEF PhotoTaken
<1>2. CASE HandlerCalls
  BY <1>2 DEF HandlerCalls, Ignored, Unreadable, Refused, Accepted, Recognize, PhotoTaken
<1>3. CASE ServiceStep \/ ReaderStep
  <2>1. UNCHANGED accepted
    BY <1>3 DEF ServiceStep, Service, Present, WriteValue, Notify, NotifyAgain, ReaderStep,
       ReaderThread, ReaderLoop, ReaderWakes, ReaderResets, ReaderOpens, ReaderSize,
       ReaderValue, ReaderPosts, guiVars
  <2> QED
    BY <1>1, <1>3, <2>1 DEF ServiceStep, ReaderStep, vars, cameraVars
<1>4. CASE HandlerStep
  <2>1. UNCHANGED accepted
    BY <1>4 DEF HandlerStep, HandlerStarts, HandlerShows, HandlerPasses, LastArgument
  <2> QED
    BY <1>1, <1>4, <2>1 DEF HandlerStep, vars, cameraVars
<1>5. CASE WorkerStep \/ ResultStep \/ GrabStep \/ ClickStep
  BY <1>1, <1>5 DEF WorkerStep, ResultStep, GrabStep, ClickStep, RecognizeResultNotify,
     GrapFaceFrameTimeProc, ManualGrab, HideResult, cameraVars, cardVars, guiVars
<1>6. CASE CloseWindow \/ JoinReader
  BY <1>1, <1>6 DEF CloseWindow, JoinReader, Interrupt, Join, vars, cameraVars, cardVars, guiVars
<1>7. CASE Stopped \/ UNCHANGED programVars
  BY <1>1, <1>7 DEF Stopped, programVars, vars, cameraVars, cardVars, guiVars
<1> QED
  BY <1>2, <1>3, <1>4, <1>5, <1>6, <1>7 DEF ProgramNext

LEMMA PhotoTakenAlways == ProgramSpec => []PhotoTaken
<1>1. ProgramInit => PhotoTaken
  BY ProgramAssumption DEF ProgramInit, Init, ReaderInit, Nothing, PhotoTaken
<1> QED
  BY <1>1, PhotoTakenStep, PTL DEF ProgramSpec

(* No card is forgotten on its way through the three threads: when nothing *)
(* is under way any more, neither a presentation nor a grab nor a          *)
(* comparison, the card presented last has been verified, its session is   *)
(* over and it is the one on the screen; even of a service that does not   *)
(* wait, unless recognize() did not take a card, the registry could not be *)
(* opened, the network is missing or a start was lost.                     *)
VerifiedAtRest ==
    /\ Open /\ Settled /\ service = NoCard /\ latest # NoCard
    /\ Up /\ ~timer /\ Quiet
    /\ misled = {} /\ ~openFailed /\ m_bInit /\ "lostStart" \notin mishaps
    => /\ m_IDCardInfo = latest /\ ~m_bInRecongnizing
       /\ \A f \in ShownFields : shown[f] = latest

(* At rest, the program has dealt with the card presented last.            *)
THEOREM VerifiedAtRestAlways == ProgramSpec => []VerifiedAtRest
<1>1. ProgramSpec => [](NothingLost /\ NoSilentStall)
  BY SessionInProgram, ReaderInProgram, NothingLostAlways, NoSilentStallAlways, PTL
     DEF ImplementsSession, ImplementsReader
<1>2. NothingLost /\ NoSilentStall /\ PhotoTaken => VerifiedAtRest
  BY ProgramAssumption DEF NothingLost, NoSilentStall, PhotoTaken, VerifiedAtRest, Handled, Whole
<1> QED
  BY <1>1, <1>2, PhotoTakenAlways, PTL

(* What can end the program while its window is open: a card presented     *)
(* before the last one came to rest, a picture that could not be written,  *)
(* a grab by hand in an open session, or closing the window in a session   *)
(* or at the moment of its verdict.                                        *)
EndsOnlyOf ==
    ~Running =>
        \/ overlap
        \/ mishaps \cap {"regrab", "writeFailed"} # {}
        \/ aborted /\ (m_bInRecongnizing \/ thread = "emitted")

(* The program ends of itself for the listed reasons only.                 *)
THEOREM EndsOnlyOfAlways == ProgramSpec => []EndsOnlyOf
<1>1. ProgramIInv /\ IInv /\ ReaderIInv => EndsOnlyOf
  <2> SUFFICES ASSUME ProgramIInv, IInv, ReaderIInv, ~Running PROVE EndsOnlyOf
    BY DEF EndsOnlyOf
  <2>1. CASE ~Up
    BY <2>1 DEF IInv, DiesOnlyOf, EndsOnlyOf
  <2>2. CASE ~alive
    BY <2>2 DEF ReaderIInv, EndsOnlyOf
  <2>3. CASE aborted
    BY <2>3 DEF ProgramIInv, AbortsOnlyInSession, Undisturbed, EndsOnlyOf
  <2> QED
    BY <2>1, <2>2, <2>3 DEF Running
<1> QED
  BY <1>1, ProgramInductive, PTL
=============================================================================
