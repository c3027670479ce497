-------------------------- MODULE VideoItem_proofs --------------------------
(***************************************************************************)
(* What the frame rate and the picture on the screen are worth, for every  *)
(* length of the second, every reading of the clock and any number of      *)
(* pictures, paints and set-backs of the clock.                            *)
(*                                                                         *)
(* The list of times is the last part of the history of paints.  What was  *)
(* dropped from it lies before the second that is counted; what is kept is *)
(* in order, but for times the clock was set back from.                    *)
(***************************************************************************)
EXTENDS VideoItem, FiniteSetTheorems, SequenceTheorems, WellFoundedInduction, TLAPS

(* How many paints are no longer in the list.                              *)
Dropped == Len(painted) - Len(times)

(* The list is the end of the history, and the last paint is in it.        *)
Suffix ==
    /\ fps = Len(times)
    /\ Len(times) <= Len(painted)
    /\ painted # <<>> => times # <<>>
    /\ \A j \in 1..Len(times) : times[j] = painted[Dropped + j]

(* Paints are in order but for readings the clock was set back from.       *)
Ordered ==
    /\ \A i, j \in 1..Len(painted) : i < j => painted[i] <= painted[j] \/ painted[i] <= rewound
    /\ \A i \in 1..Len(painted) : painted[i] <= clock \/ painted[i] <= rewound

(* The list begins within the second before the last paint, and ended      *)
(* before it what was dropped.                                             *)
Bounds ==
    painted # <<>> =>
        /\ times[1] >= painted[Len(painted)] - Window
        /\ \A i \in 1..Dropped : \/ painted[i] < painted[Len(painted)] - Window
                                 \/ painted[i] < rewound - Window

(* A texture is made only while the picture is not being copied.           *)
Copying ==
    /\ m_Img = Torn => gui = "copying"
    /\ render = "drawing" => gui # "copying"
    /\ texture # Torn

VideoIInv == TypeOK /\ Suffix /\ Ordered /\ Bounds /\ Copying

-----------------------------------------------------------------------------
LEMMA Smallest ==
    ASSUME NEW S \in SUBSET Nat, S # {}
    PROVE  \E m \in S : \A k \in S : m <= k
<1> DEFINE R == OpToRel(<, Nat)
<1>1. PICK m \in S : \A k \in S : ~ (<<k, m>> \in R)
  <2> HIDE DEF R
  <2>1. IsWellFoundedOn(R, Nat)
    BY NatLessThanWellFounded DEF R
  <2> QED BY <2>1, WFMin, S \subseteq Nat
<1>2. ASSUME NEW k \in S PROVE m <= k
  <2>1. ~ (k < m)
    BY <1>1 DEF OpToRel
  <2> QED BY <2>1
<1> QED BY <1>2

(* The front of the list is dropped up to the first time that is recent    *)
(* enough; that there is one follows from the time just added.             *)
LEMMA RecentDef ==
    ASSUME NEW s \in Seq(Int), NEW limit \in Int, s # <<>>, s[Len(s)] >= limit
    PROVE  \E first \in 1..Len(s) :
              /\ s[first] >= limit
              /\ \A j \in 1..first - 1 : s[j] < limit
              /\ Recent(s, limit) = SubSeq(s, first, Len(s))
<1> DEFINE IsFirst(i) == s[i] >= limit /\ \A j \in 1..i - 1 : s[j] < limit
           Good == {i \in 1..Len(s) : s[i] >= limit}
<1>1. Len(s) \in Nat /\ Len(s) > 0 /\ DOMAIN s = 1..Len(s) /\ \A i \in 1..Len(s) : s[i] \in Int
  OBVIOUS
<1>2. Good # {} /\ Good \in SUBSET Nat
  BY <1>1
<1>3. PICK m \in Good : \A k \in Good : m <= k
  BY <1>2, Smallest
<1>4. IsFirst(m)
  <2> SUFFICES ASSUME NEW j \in 1..m - 1 PROVE s[j] < limit
    OBVIOUS
  <2> QED BY <1>1, <1>3
<1>5. \E i \in DOMAIN s : IsFirst(i)
  BY <1>1, <1>4
<1> DEFINE first == CHOOSE i \in DOMAIN s : IsFirst(i)
<1>6. first \in DOMAIN s /\ IsFirst(first)
  BY <1>5
<1>7. Recent(s, limit) = SubSeq(s, first, Len(s))
  BY DEF Recent
<1> HIDE DEF first
<1> QED BY <1>1, <1>6, <1>7

-----------------------------------------------------------------------------
LEMMA VideoInit == Init => VideoIInv
<1> SUFFICES ASSUME Init PROVE VideoIInv
  OBVIOUS
<1>1. TypeOK
  <2>1. /\ times \in Seq(0..MaxClock) /\ painted \in Seq(0..MaxClock)
        /\ fps \in 0..Len(painted)
    BY VideoAssumption DEF Init
  <2>2. rewound \in -1..MaxClock /\ clock \in 0..MaxClock /\ setBacks \in 0..MaxSetBacks
    BY VideoAssumption DEF Init
  <2>3. m_Img \in Torn..emitted /\ texture \in Torn..emitted /\ emitted \in 0..MaxFrames /\ frame \in 0..emitted
    BY VideoAssumption DEF Init, Null, Torn
  <2>4. /\ gui \in {"idle", "locking", "copying", "updating"} /\ render \in {"idle", "locking", "drawing"}
        /\ sized \in BOOLEAN /\ dirty \in BOOLEAN
    BY DEF Init
  <2> QED BY <2>1, <2>2, <2>3, <2>4 DEF TypeOK
<1>2. Suffix /\ Ordered /\ Bounds /\ Copying
  BY DEF Init, Suffix, Ordered, Bounds, Copying, Null, Torn, Dropped
<1> QED BY <1>1, <1>2 DEF VideoIInv

(* A paint: the list stays the end of the history.                         *)
LEMMA CountStep ==
    ASSUME VideoIInv, CountPaint
    PROVE  VideoIInv'
<1> DEFINE s == Append(times, clock)
           limit == clock - Window
<1>0. /\ Window \in Nat /\ clock \in 0..MaxClock /\ MaxClock \in Nat /\ rewound \in Int
      /\ times \in Seq(0..MaxClock) /\ painted \in Seq(0..MaxClock)
      /\ Len(times) \in Nat /\ Len(painted) \in Nat /\ Len(times) <= Len(painted)
  BY VideoAssumption DEF VideoIInv, TypeOK, Suffix
<1>1. /\ s \in Seq(0..MaxClock) /\ s \in Seq(Int) /\ s # <<>> /\ Len(s) = Len(times) + 1
      /\ s[Len(s)] = clock
      /\ \A i \in 1..Len(times) : s[i] = times[i]
  BY <1>0
<1>2. PICK first \in 1..Len(s) :
          /\ s[first] >= limit
          /\ \A j \in 1..first - 1 : s[j] < limit
          /\ Recent(s, limit) = SubSeq(s, first, Len(s))
  <2>1. s[Len(s)] >= limit /\ limit \in Int
    BY <1>0, <1>1
  <2> HIDE DEF s, limit
  <2> QED BY <1>1, <2>1, RecentDef
<1>3. /\ times' = SubSeq(s, first, Len(s))
      /\ painted' = Append(painted, clock)
      /\ fps' = Len(times')
      /\ UNCHANGED <<guiVars, m_Img, texture, clockVars>>
      /\ render = "idle" /\ render' = "locking" /\ dirty' = FALSE
  BY <1>2 DEF CountPaint
<1>4. /\ times' \in Seq(0..MaxClock)
      /\ Len(times') = Len(s) - first + 1
      /\ \A j \in 1..Len(times') : times'[j] = s[first + j - 1]
  <2> HIDE DEF s
  <2>1. first \in 1..Len(s) /\ Len(s) \in Nat /\ s \in Seq(0..MaxClock) /\ times' = SubSeq(s, first, Len(s))
    BY <1>0, <1>1, <1>2, <1>3
  <2>2. Len(times') = Len(s) - first + 1
    BY <2>1
  <2>3. times' \in Seq(0..MaxClock)
    <3>1. first \in Int /\ Len(s) \in Int
      BY <2>1
    <3>2. \A i \in first..Len(s) : s[i] \in 0..MaxClock
      <4>1. \A i \in first..Len(s) : i \in 1..Len(s)
        BY <2>1
      <4> QED BY <2>1, <4>1, ElementOfSeq
    <3> QED BY <2>1, <3>1, <3>2, SubSeqProperties
  <2>4. \A j \in 1..Len(times') : times'[j] = s[first + j - 1]
    BY <2>1, <2>2
  <2> QED BY <2>2, <2>3, <2>4
<1>5. /\ painted' \in Seq(0..MaxClock)
      /\ Len(painted') = Len(painted) + 1
      /\ painted'[Len(painted')] = clock
      /\ \A i \in 1..Len(painted) : painted'[i] = painted[i] /\ painted[i] \in Int
  BY <1>0, <1>3
<1>6. /\ clock' = clock /\ rewound' = rewound
  BY <1>3 DEF clockVars
<1>7. /\ Dropped \in Nat /\ Dropped' = Dropped + first - 1
      /\ Dropped + Len(s) = Len(painted) + 1
  BY <1>0, <1>1, <1>2, <1>4, <1>5 DEF Dropped
<1>8. \A k \in 1..Len(s) : s[k] = painted'[Dropped + k]
  <2> SUFFICES ASSUME NEW k \in 1..Len(s) PROVE s[k] = painted'[Dropped + k]
    OBVIOUS
  <2>1. CASE k = Len(s)
    BY <2>1, <1>0, <1>1, <1>5, <1>7
  <2>2. CASE k \in 1..Len(times)
    <3>1. times[k] = painted[Dropped + k]
      BY <2>2 DEF VideoIInv, Suffix
    <3>2. Dropped + k \in 1..Len(painted)
      BY <2>2, <1>0, <1>1, <1>7
    <3> QED BY <2>2, <3>1, <3>2, <1>1, <1>5
  <2> HIDE DEF s
  <2> QED BY <2>1, <2>2, <1>0, <1>1
<1> HIDE DEF s, limit
<1>9. TypeOK'
  <2>1. fps' \in 0..Len(painted')
    BY <1>0, <1>1, <1>2, <1>3, <1>4, <1>5
  <2>2. /\ emitted' = emitted /\ frame' = frame /\ gui' = gui /\ sized' = sized
        /\ m_Img' = m_Img /\ texture' = texture /\ setBacks' = setBacks
    BY <1>3 DEF guiVars, clockVars
  <2> QED BY <1>3, <1>4, <1>5, <1>6, <2>1, <2>2 DEF VideoIInv, TypeOK
<1>10. Suffix'
  <2>1. Len(times') <= Len(painted') /\ times' # <<>>
    BY <1>0, <1>1, <1>2, <1>4, <1>5
  <2>2. ASSUME NEW j \in 1..Len(times') PROVE times'[j] = painted'[Dropped' + j]
    <3>1. first + j - 1 \in 1..Len(s) /\ Dropped' + j = Dropped + (first + j - 1)
      BY <1>0, <1>1, <1>2, <1>4, <1>7
    <3> QED BY <3>1, <1>4, <1>8
  <2> QED BY <1>3, <2>1, <2>2 DEF Suffix
<1>11. Ordered'
  <2>1. ASSUME NEW i \in 1..Len(painted') PROVE painted'[i] <= clock \/ painted'[i] <= rewound
    <3>1. CASE i = Len(painted')
      BY <3>1, <1>0, <1>5
    <3>2. CASE i \in 1..Len(painted)
      BY <3>2, <1>0, <1>5 DEF VideoIInv, Ordered
    <3> QED BY <3>1, <3>2, <1>0, <1>5
  <2>2. ASSUME NEW i \in 1..Len(painted'), NEW j \in 1..Len(painted'), i < j
        PROVE  painted'[i] <= painted'[j] \/ painted'[i] <= rewound
    <3>1. CASE j = Len(painted')
      BY <3>1, <2>1, <1>5
    <3>2. CASE j \in 1..Len(painted)
      <4>1. i \in 1..Len(painted) /\ i < j
        BY <3>2, <2>2, <1>0, <1>5
      <4>2. painted[i] <= painted[j] \/ painted[i] <= rewound
        BY <4>1, <3>2 DEF VideoIInv, Ordered
      <4> QED BY <4>1, <4>2, <3>2, <1>5
    <3> QED BY <3>1, <3>2, <1>0, <1>5
  <2> QED BY <2>1, <2>2, <1>6 DEF Ordered
<1>12. Bounds'
  <2>1. times'[1] >= clock - Window
    <3>1. 1 \in 1..Len(times') /\ first + 1 - 1 = first
      BY <1>0, <1>1, <1>2, <1>4
    <3> QED BY <3>1, <1>2, <1>4 DEF limit
  <2>2. ASSUME NEW i \in 1..Dropped' PROVE painted'[i] < clock - Window \/ painted'[i] < rewound - Window
    <3>1. CASE i \in 1..Dropped
      <4>1. i \in 1..Len(painted) /\ painted # <<>> /\ painted'[i] = painted[i] /\ painted[i] \in Int
        <5>1. Dropped \in Nat /\ Dropped <= Len(painted) /\ Len(painted) \in Nat
          BY <1>0, <1>7 DEF Dropped
        <5>2. i \in 1..Len(painted)
          BY <3>1, <5>1
        <5>3. Len(painted) > 0
          BY <5>1, <5>2
        <5>4. painted # <<>>
          BY <5>3
        <5> QED BY <5>2, <5>4, <1>5
      <4>2. painted[i] < painted[Len(painted)] - Window \/ painted[i] < rewound - Window
        BY <3>1, <4>1 DEF VideoIInv, Bounds
      <4>3. painted[Len(painted)] \in Int /\ (painted[Len(painted)] <= clock \/ painted[Len(painted)] <= rewound)
        BY <4>1, <1>0, <1>5 DEF VideoIInv, Ordered
      <4> QED BY <4>1, <4>2, <4>3, <1>0
    <3>2. CASE ~(i \in 1..Dropped)
      <4>1. i - Dropped \in 1..first - 1 /\ Dropped + (i - Dropped) = i /\ i - Dropped \in 1..Len(s)
        BY <3>2, <1>0, <1>1, <1>2, <1>7
      <4>2. s[i - Dropped] < limit /\ s[i - Dropped] = painted'[i]
        BY <4>1, <1>2, <1>8
      <4> QED BY <4>2 DEF limit
    <3> QED BY <3>1, <3>2
  <2> QED BY <2>1, <2>2, <1>5, <1>6 DEF Bounds
<1>13. Copying'
  BY <1>3 DEF VideoIInv, Copying, guiVars
<1> QED BY <1>9, <1>10, <1>11, <1>12, <1>13 DEF VideoIInv

(* Every other step leaves the list, the history and the report alone.     *)
LEMMA OtherStep ==
    ASSUME VideoIInv, [Next]_vars, ~CountPaint
    PROVE  VideoIInv'
<1>0. /\ Window \in Nat /\ clock \in 0..MaxClock /\ MaxClock \in Nat /\ rewound \in -1..MaxClock
      /\ painted \in Seq(0..MaxClock) /\ times \in Seq(0..MaxClock)
      /\ Len(painted) \in Nat /\ Dropped \in Nat /\ Dropped <= Len(painted)
      /\ \A i \in 1..Len(painted) : painted[i] \in 0..MaxClock
  BY VideoAssumption DEF VideoIInv, TypeOK, Suffix, Dropped
<1>1. UNCHANGED <<times, painted, fps>>
  BY DEF Next, NewVideoFrame, CopyBegins, CopyEnds, Update, Resized, LockImage, MakeTexture,
         ClockRuns, ClockSetBack, Quiet, vars, guiVars, paintVars, clockVars
<1>2. /\ clock' \in 0..MaxClock /\ rewound' \in -1..MaxClock /\ setBacks' \in 0..MaxSetBacks
      /\ rewound <= rewound'
      /\ clock <= clock' \/ clock <= rewound'
  <2>1. CASE ClockRuns
    BY <2>1, <1>0 DEF ClockRuns, VideoIInv, TypeOK
  <2>2. CASE ClockSetBack
    BY <2>2, <1>0, VideoAssumption DEF ClockSetBack, VideoIInv, TypeOK
  <2>3. CASE UNCHANGED clockVars
    BY <2>3, <1>0 DEF clockVars, VideoIInv, TypeOK
  <2> QED BY <2>1, <2>2, <2>3 DEF Next, NewVideoFrame, CopyBegins, CopyEnds, Update, Resized,
             LockImage, MakeTexture, Quiet, vars, clockVars
<1>3. /\ emitted' \in 0..MaxFrames /\ frame' \in 0..emitted' /\ m_Img' \in Torn..emitted'
      /\ texture' \in Torn..emitted'
      /\ gui' \in {"idle", "locking", "copying", "updating"} /\ sized' \in BOOLEAN
      /\ dirty' \in BOOLEAN /\ render' \in {"idle", "locking", "drawing"}
  <2> USE VideoAssumption DEF VideoIInv, TypeOK, Null, Torn
  <2>1. CASE NewVideoFrame
    BY <2>1 DEF NewVideoFrame, paintVars
  <2>2. CASE CopyBegins
    BY <2>2 DEF CopyBegins, paintVars
  <2>3. CASE CopyEnds
    BY <2>3 DEF CopyEnds, paintVars
  <2>4. CASE Update
    BY <2>4 DEF Update, paintVars
  <2>5. CASE Resized
    BY <2>5 DEF Resized, paintVars
  <2>6. CASE LockImage
    BY <2>6 DEF LockImage, guiVars
  <2>7. CASE MakeTexture
    BY <2>7 DEF MakeTexture, guiVars
  <2>8. CASE ClockRuns \/ ClockSetBack \/ UNCHANGED vars
    BY <2>8 DEF ClockRuns, ClockSetBack, guiVars, paintVars, vars
  <2> QED BY <2>1, <2>2, <2>3, <2>4, <2>5, <2>6, <2>7, <2>8 DEF Next, Quiet
<1>4. TypeOK'
  BY <1>1, <1>2, <1>3 DEF VideoIInv, TypeOK
<1>5. Suffix'
  BY <1>1 DEF VideoIInv, Suffix, Dropped
<1>6. Ordered'
  <2>1. ASSUME NEW i \in 1..Len(painted), NEW j \in 1..Len(painted), i < j
        PROVE  painted[i] <= painted[j] \/ painted[i] <= rewound'
    <3>1. painted[i] <= painted[j] \/ painted[i] <= rewound
      BY <2>1 DEF VideoIInv, Ordered
    <3> QED BY <3>1, <1>0, <1>2
  <2>2. ASSUME NEW i \in 1..Len(painted) PROVE painted[i] <= clock' \/ painted[i] <= rewound'
    <3>1. painted[i] <= clock \/ painted[i] <= rewound
      BY DEF VideoIInv, Ordered
    <3> QED BY <3>1, <1>0, <1>2
  <2> QED BY <1>1, <2>1, <2>2 DEF Ordered
<1>7. Bounds'
  <2>1. Dropped' = Dropped
    BY <1>1 DEF Dropped
  <2>2. ASSUME NEW i \in 1..Dropped, painted # <<>>
        PROVE  painted[i] < painted[Len(painted)] - Window \/ painted[i] < rewound' - Window
    <3>1. painted[i] < painted[Len(painted)] - Window \/ painted[i] < rewound - Window
      BY <2>2 DEF VideoIInv, Bounds
    <3>2. i \in 1..Len(painted) /\ Len(painted) \in 1..Len(painted)
      <4>1. Dropped \in Nat /\ Dropped <= Len(painted) /\ Len(painted) \in Nat
        BY <1>0
      <4> QED BY <2>2, <4>1
    <3>3. painted[i] \in Int /\ painted[Len(painted)] \in Int
      BY <3>2, <1>0
    <3>4. rewound \in Int /\ rewound' \in Int /\ rewound <= rewound' /\ Window \in Int
      BY <1>0, <1>2
    <3> QED BY <3>1, <3>3, <3>4
  <2> QED BY <1>1, <2>1, <2>2 DEF VideoIInv, Bounds
<1>8. Copying'
  <2> USE DEF VideoIInv, Copying, TypeOK, Torn, Null, Locked
  <2>1. CASE NewVideoFrame
    BY <2>1 DEF NewVideoFrame, paintVars
  <2>2. CASE CopyBegins
    BY <2>2 DEF CopyBegins, paintVars
  <2>3. CASE CopyEnds
    BY <2>3, VideoAssumption DEF CopyEnds, paintVars
  <2>4. CASE Update
    BY <2>4 DEF Update, paintVars
  <2>5. CASE Resized
    BY <2>5 DEF Resized, paintVars
  <2>6. CASE LockImage
    BY <2>6 DEF LockImage, guiVars
  <2>7. CASE MakeTexture
    BY <2>7 DEF MakeTexture, guiVars
  <2>8. CASE ClockRuns \/ ClockSetBack \/ UNCHANGED vars
    BY <2>8 DEF ClockRuns, ClockSetBack, guiVars, paintVars, vars
  <2> QED BY <2>1, <2>2, <2>3, <2>4, <2>5, <2>6, <2>7, <2>8 DEF Next, Quiet
<1> QED BY <1>4, <1>5, <1>6, <1>7, <1>8 DEF VideoIInv

LEMMA VideoInductive == Spec => []VideoIInv
<1>1. VideoIInv /\ [Next]_vars => VideoIInv'
  BY CountStep, OtherStep
<1> QED BY VideoInit, <1>1, PTL DEF Spec

-----------------------------------------------------------------------------
(* The members keep their types: the list of times never gets empty, and   *)
(* no picture is used or shown half copied.                                *)
THEOREM VideoTypeCorrect == Spec => [](TypeOK /\ TextureWhole)
<1>1. VideoIInv => TypeOK /\ TextureWhole
  BY DEF VideoIInv, Copying, TextureWhole
<1> QED BY VideoInductive, <1>1, PTL

(* The paints of the last window are among those in the list, and are all  *)
(* of it once no time in it is one the clock was set back from.            *)
LEMMA Counted ==
    ASSUME VideoIInv, painted # <<>>, painted[Len(painted)] >= rewound
    PROVE  /\ fps >= PaintsOfLastWindow
           /\ painted[Len(painted)] - Window > rewound => fps = PaintsOfLastWindow
<1> DEFINE n == Len(painted)
           last == painted[n]
           Counts == {i \in DOMAIN painted : painted[i] >= last - Window}
           Kept == Dropped + 1..n
<1>0. /\ Window \in Nat /\ rewound \in Int /\ MaxClock \in Nat
      /\ painted \in Seq(0..MaxClock) /\ n \in Nat \ {0} /\ DOMAIN painted = 1..n
      /\ Dropped \in Nat /\ Dropped < n /\ fps = n - Dropped
      /\ \A i \in 1..n : painted[i] \in Int
      /\ Len(times) \in Nat \ {0}
  BY VideoAssumption DEF VideoIInv, TypeOK, Suffix, Dropped
<1>1. Counts \subseteq Kept
  <2>1. ASSUME NEW i \in 1..Dropped PROVE painted[i] < last - Window
    <3>1. painted[i] < last - Window \/ painted[i] < rewound - Window
      BY DEF VideoIInv, Bounds
    <3>2. i \in 1..n
      BY <1>0
    <3> QED BY <3>1, <3>2, <1>0
  <2>2. ASSUME NEW i \in 1..n, painted[i] >= last - Window PROVE i \in Kept
    BY <1>0, <2>1, <2>2
  <2> QED BY <1>0, <2>2
<1>2. IsFiniteSet(Kept) /\ Cardinality(Kept) = fps
  BY <1>0, FS_Interval
<1>3. Cardinality(Counts) \in Nat /\ Cardinality(Counts) <= fps
  <2>1. IsFiniteSet(Counts) /\ Cardinality(Counts) <= Cardinality(Kept)
    BY <1>1, <1>2, FS_Subset
  <2> QED BY <1>2, <2>1, FS_CardinalityType
<1>4. fps \in Nat /\ PaintsOfLastWindow = Cardinality(Counts)
  BY <1>0 DEF PaintsOfLastWindow
<1>5. ASSUME last - Window > rewound PROVE Kept \subseteq Counts
  <2>1. times[1] = painted[Dropped + 1] /\ times[1] >= last - Window
    <3>1. 1 \in 1..Len(times)
      BY <1>0
    <3> QED BY <3>1 DEF VideoIInv, Suffix, Bounds
  <2>2. ASSUME NEW i \in Kept PROVE i \in Counts
    <3>1. i \in 1..n /\ Dropped + 1 \in 1..n /\ (i = Dropped + 1 \/ Dropped + 1 < i)
      BY <1>0
    <3>2. i = Dropped + 1 \/ painted[Dropped + 1] <= painted[i] \/ painted[Dropped + 1] <= rewound
      BY <3>1 DEF VideoIInv, Ordered
    <3>3. painted[Dropped + 1] \in Int /\ painted[i] \in Int /\ last \in Int
      BY <3>1, <1>0
    <3>4. painted[i] >= last - Window
      BY <3>2, <3>3, <2>1, <1>0, <1>5
    <3> QED BY <3>1, <3>4, <1>0
  <2> QED BY <2>2
<1>6. last - Window > rewound => fps = Cardinality(Counts)
  <2>1. ASSUME last - Window > rewound PROVE Counts = Kept
    BY <1>1, <1>5, <2>1
  <2> HIDE DEF Counts, Kept
  <2> QED BY <1>2, <2>1
<1> QED BY <1>3, <1>4, <1>6

(* The frame rate on the screen is the number of paints of the last        *)
(* second, whatever the clock did, once it has run for a second beyond any *)
(* reading it was set back from.                                           *)
THEOREM FpsOfLastSecondAlways == Spec => []FpsOfLastSecond
<1>1. VideoIInv => FpsOfLastSecond
  <2> SUFFICES ASSUME VideoIInv, painted # <<>>, painted[Len(painted)] - Window > rewound
               PROVE  fps = PaintsOfLastWindow
    BY DEF FpsOfLastSecond
  <2>1. painted[Len(painted)] >= rewound
    BY VideoAssumption DEF VideoIInv, TypeOK
  <2> QED BY <2>1, Counted
<1> QED BY VideoInductive, <1>1, PTL

(* A clock that was set back makes the frame rate too high, never too low. *)
THEOREM FpsNotTooLowAlways == Spec => []FpsNotTooLow
<1>1. VideoIInv => FpsNotTooLow
  BY Counted DEF FpsNotTooLow
<1> QED BY VideoInductive, <1>1, PTL

-----------------------------------------------------------------------------
(* The slot copies the picture that was emitted last, and what is copied   *)
(* is never older than what the node shows.                                *)
Emitted ==
    /\ frame \in {Null, emitted}
    /\ gui \in {"idle", "updating"} => m_Img = frame
    /\ m_Img \in {Null, Torn} \/ texture <= m_Img

(* A picture that the node does not show yet will be painted: Qt has been  *)
(* asked to, is at it, or is about to be asked.                            *)
RepaintPending ==
    m_Img \notin {Null, Torn} /\ sized /\ texture # m_Img =>
        dirty \/ render # "idle" \/ gui = "updating"

LEMMA PendingInit == Init => Emitted /\ RepaintPending
BY DEF Init, Emitted, RepaintPending, Null

LEMMA PendingStep ==
    ASSUME VideoIInv, Emitted, RepaintPending, [Next]_vars
    PROVE  Emitted' /\ RepaintPending'
<1>0. /\ MaxFrames \in Nat /\ emitted \in 0..MaxFrames /\ m_Img \in Torn..emitted
      /\ texture \in Torn..emitted /\ texture # Torn /\ sized \in BOOLEAN /\ dirty \in BOOLEAN
      /\ render = "drawing" => gui # "copying"
      /\ m_Img = Torn => gui = "copying"
  BY VideoAssumption DEF VideoIInv, TypeOK, Copying
<1>1. CASE NewVideoFrame
  BY <1>0, <1>1 DEF NewVideoFrame, paintVars, Emitted, RepaintPending, Null, Torn
<1>2. CASE CopyBegins
  BY <1>0, <1>2 DEF CopyBegins, paintVars, Emitted, RepaintPending, Null, Torn
<1>3. CASE CopyEnds
  BY <1>0, <1>3 DEF CopyEnds, paintVars, Emitted, RepaintPending, Null, Torn
<1>4. CASE Update \/ Resized
  BY <1>0, <1>4 DEF Update, Resized, paintVars, Emitted, RepaintPending, Null, Torn
<1>5. CASE CountPaint \/ LockImage
  BY <1>0, <1>5 DEF CountPaint, LockImage, guiVars, Emitted, RepaintPending, Null, Torn
<1>6. CASE MakeTexture
  BY <1>0, <1>6 DEF MakeTexture, guiVars, Emitted, RepaintPending, Null, Torn
<1>7. CASE ClockRuns \/ ClockSetBack \/ UNCHANGED vars
  BY <1>0, <1>7 DEF ClockRuns, ClockSetBack, vars, guiVars, paintVars, Emitted, RepaintPending
<1> QED BY <1>1, <1>2, <1>3, <1>4, <1>5, <1>6, <1>7 DEF Next, Quiet

LEMMA PendingAlways == Spec => [](Emitted /\ RepaintPending)
<1>1. VideoIInv /\ Emitted /\ RepaintPending /\ [Next]_vars => (Emitted /\ RepaintPending)'
  BY PendingStep
<1> QED BY PendingInit, <1>1, VideoInductive, PTL DEF Spec

(* A repaint is never lost: what the GUI thread copied while the other one *)
(* painted is painted afterwards.                                          *)
THEOREM RepaintPendingAlways == Spec => []RepaintPending
<1> QED BY PendingAlways, PTL

(* When both threads are done and no repaint is asked for, the screen has  *)
(* the picture that was emitted last, unless that was a null image, which  *)
(* leaves the picture of before.                                           *)
LastShownAtRest ==
    gui = "idle" /\ render = "idle" /\ ~dirty /\ sized /\ frame # Null => texture = emitted

(* At rest, the item shows the picture updateFrame took last.             *)
THEOREM LastShownAtRestAlways == Spec => []LastShownAtRest
<1>1. VideoIInv /\ Emitted /\ RepaintPending => LastShownAtRest
  BY VideoAssumption DEF VideoIInv, TypeOK, Copying, Emitted, RepaintPending, LastShownAtRest,
     Null, Torn
<1> QED BY <1>1, VideoInductive, PendingAlways, PTL

(* The pictures on the screen are in the order in which they were emitted: *)
(* none comes back after a later one.                                      *)
ShownInOrder == [][texture' # texture => texture' > texture]_vars

(* The render thread never goes back to an earlier picture.                *)
THEOREM ShownInOrderAlways == Spec => ShownInOrder
<1>1. ASSUME VideoIInv, Emitted, [Next]_vars, texture' # texture PROVE texture' > texture
  <2>1. MakeTexture
    BY <1>1 DEF Next, vars, NewVideoFrame, CopyBegins, CopyEnds, Update, Resized, CountPaint,
       LockImage, ClockRuns, ClockSetBack, Quiet, guiVars, paintVars
  <2>2. /\ m_Img \in Int /\ texture \in Int
        /\ m_Img = Torn => gui = "copying"
        /\ gui # "copying"
    BY <1>1, <2>1, VideoAssumption DEF VideoIInv, TypeOK, Copying, Torn, MakeTexture
  <2>3. texture' = m_Img /\ m_Img \notin {Null, Torn}
    BY <1>1, <2>1, <2>2 DEF MakeTexture
  <2> QED BY <1>1, <2>2, <2>3 DEF Emitted
<1> QED BY <1>1, VideoInductive, PendingAlways, PTL DEF Spec, ShownInOrder
=============================================================================
