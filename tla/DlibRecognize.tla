---------------------------- MODULE DlibRecognize ----------------------------
(***************************************************************************)
(* The face comparison worker (DlibRecognize.cpp), a QThread.  The GUI     *)
(* thread hands it a pair of faces with recognize(), which copies them     *)
(* into the members m_Face1 and m_Face2 and calls QThread::start(); the    *)
(* thread runs run() once per effective start and reports through a        *)
(* signal that Qt queues to the GUI thread.                                *)
(*                                                                         *)
(* A card stands for the face cut out of its photo and a face for the      *)
(* image region of one captured face, so m_Face1 holds a card and m_Face2  *)
(* a face.  Match is what the network and g_Threshold decide about a pair. *)
(***************************************************************************)
EXTENDS IDCards, Naturals, Sequences

CONSTANTS Faces,    \* faces the camera can capture
          Match,    \* the pairs whose descriptors lie within g_Threshold
          NoFace    \* no face: an empty member, or a file that was never written

ASSUME DlibAssumption ==
    /\ Match \subseteq Cards \X Faces
    /\ NoFace \notin Faces

VARIABLES process,   \* "up" or "terminated": the whole program
          m_bInit,   \* the network file was read by the constructor
          thread,    \* where the worker is, see Thread
          m_Face1,   \* the pair the worker was last asked to compare ...
          m_Face2,   \* ... unprotected members both threads use
          jpg1,      \* contents of HFR_FACE1.jpg
          jpg2,      \* contents of HFR_FACE2.jpg
          results,   \* RecoginizeResultNotify events queued for the GUI thread
          mishaps    \* history: what went wrong since the session was accepted

dlibVars == <<process, m_bInit, thread, m_Face1, m_Face2, jpg1, jpg2, results, mishaps>>

-----------------------------------------------------------------------------
(* "running" and "saved" are inside run(), before and after the two        *)
(* imwrite calls; "emitted" is after the signal was posted while QThread   *)
(* still counts as running; "idle" is not started, or finished.            *)
Thread == {"idle", "running", "saved", "emitted"}

(* regrab       faces were grabbed by hand while a session was open        *)
(* lostStart    start() was called while the thread was still running      *)
(* race         m_Face1 and m_Face2 were assigned under the worker's reads *)
(* writeFailed  a picture was not written, so an older one is compared     *)
Mishaps == {"regrab", "lostStart", "race", "writeFailed"}

(* A posted result, with the pair that was really compared.                *)
Results == [pass : BOOLEAN, card : Cards, face : Faces]

(* The worker owes the GUI thread a result.                                *)
Comparing == thread \in {"running", "saved"}

(* No comparison is under way and none is waiting to be delivered.         *)
Quiet == ~Comparing /\ results = <<>>

Up == process = "up"

DlibTypeOK ==
    /\ process \in {"up", "terminated"}
    /\ m_bInit \in BOOLEAN
    /\ thread \in Thread
    /\ m_Face1 \in Cards \cup {NoCard}
    /\ m_Face2 \in Faces \cup {NoFace}
    /\ jpg1 \in Cards \cup {NoCard}
    /\ jpg2 \in Faces \cup {NoFace}
    /\ results \in Seq(Results)
    /\ mishaps \subseteq Mishaps

-----------------------------------------------------------------------------
(* The constructor: the network may fail to load, and the pictures an      *)
(* earlier run of the program wrote may still be on disk.                  *)
DlibInit ==
    /\ process = "up"
    /\ m_bInit \in BOOLEAN
    /\ thread = "idle"
    /\ m_Face1 = NoCard
    /\ m_Face2 = NoFace
    /\ jpg1 \in Cards \cup {NoCard}
    /\ jpg2 \in Faces \cup {NoFace}
    /\ results = <<>>
    /\ mishaps = {}

(* Assigning the two members while run() resizes and writes them is a data *)
(* race on their reference counts and pointers: either of the old and the  *)
(* new picture may survive, or the program dies.                           *)
AssignFaces(face1, face2) ==
    IF thread = "running"
    THEN /\ m_Face1' \in {m_Face1, face1}
         /\ m_Face2' \in {m_Face2, face2}
         /\ process' \in {process, "terminated"}
    ELSE /\ m_Face1' = face1
         /\ m_Face2' = face2
         /\ UNCHANGED process

(* recognize(), called by the GUI thread.  start() does nothing while the  *)
(* thread has not returned from run().  The caller says what becomes of    *)
(* the queued results.                                                     *)
Compare(face1, face2) ==
    /\ AssignFaces(face1, face2)
    /\ IF thread = "idle" THEN thread' = "running" ELSE UNCHANGED thread
    /\ mishaps' = mishaps \cup (IF thread = "idle" THEN {} ELSE {"lostStart"})
                          \cup (IF thread = "running" THEN {"race"} ELSE {})
    /\ UNCHANGED <<m_bInit, jpg1, jpg2>>

-----------------------------------------------------------------------------
(* run() without a network: a message on the screen and no result.         *)
RunNoNetwork ==
    /\ Up /\ thread = "running" /\ ~m_bInit
    /\ thread' = "idle"
    /\ UNCHANGED <<process, m_bInit, m_Face1, m_Face2, jpg1, jpg2, results, mishaps>>

RunSave_OnlyFirst ==
    /\ Up /\ thread = "running" /\ m_bInit
    /\ jpg1' = m_Face1
    /\ thread' = "saved"
    /\ UNCHANGED <<process, m_bInit, m_Face1, m_Face2, jpg2, results, mishaps>>

(* run() up to the second imwrite.  imwrite returns false and keeps the    *)
(* old file when it cannot write; run() does not look at the result.       *)
RunSave ==
    /\ Up /\ thread = "running" /\ m_bInit
    /\ \E written \in SUBSET {1, 2} :
          /\ jpg1' = IF 1 \in written THEN m_Face1 ELSE jpg1
          /\ jpg2' = IF 2 \in written THEN m_Face2 ELSE jpg2
          /\ mishaps' = mishaps \cup (IF written = {1, 2} THEN {} ELSE {"writeFailed"})
    /\ thread' = "saved"
    /\ UNCHANGED <<process, m_bInit, m_Face1, m_Face2, results>>

RunCompare_OnlyPasses ==
    /\ Up /\ thread = "saved"
    /\ jpg1 # NoCard /\ jpg2 # NoFace
    /\ results' = IF <<jpg1, jpg2>> \in Match
                  THEN Append(results, [pass |-> TRUE, card |-> jpg1, face |-> jpg2])
                  ELSE results
    /\ thread' = "emitted"
    /\ UNCHANGED <<process, m_bInit, m_Face1, m_Face2, jpg1, jpg2, mishaps>>

(* Both pictures exist: they are read back, compared, and the result is    *)
(* posted to the GUI thread.                                               *)
RunCompare ==
    /\ Up /\ thread = "saved"
    /\ jpg1 # NoCard /\ jpg2 # NoFace
    /\ results' = Append(results, [pass |-> <<jpg1, jpg2>> \in Match,
                                   card |-> jpg1, face |-> jpg2])
    /\ thread' = "emitted"
    /\ UNCHANGED <<process, m_bInit, m_Face1, m_Face2, jpg1, jpg2, mishaps>>

(* load_image throws for a picture that was never written; nothing in the  *)
(* thread catches it.                                                      *)
RunLoadFails ==
    /\ Up /\ thread = "saved"
    /\ jpg1 = NoCard \/ jpg2 = NoFace
    /\ process' = "terminated"
    /\ UNCHANGED <<m_bInit, thread, m_Face1, m_Face2, jpg1, jpg2, results, mishaps>>

(* run() returns: from now on start() is effective again.                  *)
RunReturn ==
    /\ Up /\ thread = "emitted"
    /\ thread' = "idle"
    /\ UNCHANGED <<process, m_bInit, m_Face1, m_Face2, jpg1, jpg2, results, mishaps>>

Run == RunNoNetwork \/ RunSave \/ RunCompare \/ RunLoadFails \/ RunReturn
=============================================================================
