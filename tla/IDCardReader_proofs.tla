------------------------- MODULE IDCardReader_proofs -------------------------
(***************************************************************************)
(* Proofs about IDCardReader.  The invariant has two parts.  Sequential    *)
(* says what a service that waits makes of the protocol: service, reader   *)
(* and handler never work at the same time, and each finds what the one    *)
(* before it left.  Fresh says, for any service, what the program knows of *)
(* the last card once no signal is outstanding.                            *)
(***************************************************************************)
EXTENDS IDCardReader, TLAPS

ReaderReads == reader \in {"signalled", "opening", "size", "value", "post"}
HandlerRuns == gui \in {"show", "pass"}

(* The values that were read belong to the registry's present contents.    *)
ReadSoFar ==
    /\ reader \in {"size", "value"} =>
          \A i \in 1..(index - 1) : members[ReadOrder[i]] = registry[ReadOrder[i]]
    /\ reader = "value" => sized = registry[ReadOrder[index]]
    /\ reader = "post" => members = registry

(* What the handler has shown and passed on so far is the registry's.      *)
HandledSoFar ==
    /\ gui = "show" =>
          \A i \in 1..(step - 1) : shown[ShowOrder[i]] = registry[ShowOrder[i]]
    /\ gui = "pass" =>
          /\ \A f \in ShownFields : shown[f] = registry[f]
          /\ \A i \in 1..(step - 1) : passed[PassOrder[i]] = registry[PassOrder[i]]

OneAtWork ==
    /\ event \/ ReaderReads => posted = 0 /\ ~HandlerRuns
    /\ event => reader \in {"loop", "waiting", "signalled", "done"}
    /\ service # NoCard => ~event /\ ~ReaderReads /\ posted = 0 /\ ~HandlerRuns

Sequential ==
    /\ OneAtWork
    /\ service = NoCard => \E card \in Values : registry = Whole(card)
    /\ ReadSoFar
    /\ posted > 0 \/ HandlerRuns => members = registry
    /\ HandledSoFar
    /\ Open /\ gui = "idle" => \E card \in Values : Handled(card)

Written == service # NoCard => \A f \in Fields \ unwritten : registry[f] = service
Presented == service = NoCard /\ latest # NoCard => registry = Whole(latest)

(* No signal is outstanding and the registry holds the last card.          *)
Quiescent == Open /\ ~event /\ service = NoCard /\ latest # NoCard /\ ~openFailed

Fresh ==
    Quiescent =>
        /\ ReadSoFar
        /\ reader \in {"loop", "waiting"} => members = registry
        /\ reader \in {"loop", "waiting"} /\ posted = 0 =>
              /\ HandledSoFar
              /\ gui = "idle" => Handled(latest)

ReaderIInv ==
    /\ ReaderTypeOK
    /\ ~alive => overlap
    /\ ~overlap => Sequential
    /\ Written /\ Presented
    /\ Fresh

-----------------------------------------------------------------------------
(* The reader's and the handler's indices stay within their orders.        *)
LEMMA Orders ==
    /\ ReadOrder \in Seq(Fields) /\ Len(ReadOrder) \in Nat \ {0}
    /\ ShowOrder \in Seq(Fields) /\ Len(ShowOrder) \in Nat \ {0}
    /\ PassOrder \in Seq(Fields) /\ Len(PassOrder) \in Nat \ {0}
    /\ \A i \in 1..Len(ReadOrder) : ReadOrder[i] \in Fields
    /\ \A i \in 1..Len(ShowOrder) : ShowOrder[i] \in Fields
    /\ \A i \in 1..Len(PassOrder) : PassOrder[i] \in Fields
    /\ \A f \in Fields : \E i \in 1..Len(ReadOrder) : f = ReadOrder[i]
    /\ \A f \in Fields : \E i \in 1..Len(PassOrder) : f = PassOrder[i]
    /\ \A f \in ShownFields : f \in Fields /\ \E i \in 1..Len(ShowOrder) : f = ShowOrder[i]
    /\ \A i \in 1..Len(ShowOrder) : ShowOrder[i] \in ShownFields
<1>1. /\ ReadOrder \in Seq(Fields) /\ ReadOrder # <<>>
      /\ ShowOrder \in Seq(Fields) /\ ShowOrder # <<>>
      /\ PassOrder \in Seq(Fields) /\ PassOrder # <<>>
  BY ReaderAssumption
<1>2. \A s \in Seq(Fields) : s # <<>> => Len(s) \in Nat \ {0} /\ DOMAIN s = 1..Len(s)
  OBVIOUS
<1>3. \A s \in Seq(Fields) : \A i \in 1..Len(s) : s[i] \in Fields
  OBVIOUS
<1> QED
  BY <1>1, <1>2, <1>3, ReaderAssumption DEF ShownFields

LEMMA Lengths == Len(ReadOrder) \in Nat \ {0} /\ Len(ShowOrder) \in Nat \ {0} /\ Len(PassOrder) \in Nat \ {0}
  BY Orders

LEMMA Entries ==
    /\ \A i \in 1..Len(ReadOrder) : ReadOrder[i] \in Fields
    /\ \A i \in 1..Len(ShowOrder) : ShowOrder[i] \in Fields
    /\ \A i \in 1..Len(PassOrder) : PassOrder[i] \in Fields
  BY Orders

LEMMA ReadsAll == \A f \in Fields : \E i \in 1..Len(ReadOrder) : f = ReadOrder[i]
  BY Orders

LEMMA PassesAll == \A f \in Fields : \E i \in 1..Len(PassOrder) : f = PassOrder[i]
  BY Orders

LEMMA ShowsAll == \A f \in ShownFields : f \in Fields /\ \E i \in 1..Len(ShowOrder) : f = ShowOrder[i]
  BY Orders

LEMMA NothingTyped ==
    Nothing \in [Fields -> Values] /\ \A card \in Values : Whole(card) \in [Fields -> Values]
  BY DEF Nothing, Whole, Values

LEMMA ReaderTypeInit == ReaderInit => ReaderTypeOK
<1> SUFFICES ASSUME ReaderInit PROVE ReaderTypeOK
  OBVIOUS
<1>1. registry \in [Fields -> Values]
  BY NothingTyped DEF ReaderInit, Values
<1>2. 1 \in 1..Len(ReadOrder)
  BY Lengths
<1>3. /\ members \in [Fields -> Values] /\ shown \in [Fields -> Values]
      /\ passed \in [Fields -> Values] /\ accepted \in [Fields -> Values]
  BY NothingTyped DEF ReaderInit
<1>4. service \in Values /\ latest \in Values /\ sized \in Values /\ unwritten \subseteq Fields
  BY DEF ReaderInit, Values
<1>5. event \in BOOLEAN /\ overlap \in BOOLEAN /\ openFailed \in BOOLEAN /\ alive \in BOOLEAN
  BY DEF ReaderInit
<1>6. signals \in Nat /\ posted \in Nat /\ step \in Nat \ {0} /\ index \in 1..Len(ReadOrder)
  BY <1>2 DEF ReaderInit
<1>7. reader \in Reader /\ gui \in Gui /\ gui # "show" /\ gui # "pass"
  BY DEF ReaderInit, Reader, Gui
<1> QED
  BY <1>1, <1>3, <1>4, <1>5, <1>6, <1>7 DEF ReaderTypeOK

LEMMA ReaderTypeStep == ReaderTypeOK /\ [ReaderNext]_cardVars => ReaderTypeOK'
<1> SUFFICES ASSUME ReaderTypeOK, [ReaderNext]_cardVars PROVE ReaderTypeOK'
  OBVIOUS
<1> USE DEF Values
<1>1. ASSUME NEW card \in Cards, Present(card) PROVE ReaderTypeOK'
  BY <1>1 DEF ReaderTypeOK, Present, readerVars, guiVars
<1>2. ASSUME NEW f \in Fields, WriteValue(f) PROVE ReaderTypeOK'
  BY <1>2 DEF ReaderTypeOK, WriteValue, readerVars, guiVars
<1>3. CASE Notify
  BY <1>3 DEF ReaderTypeOK, Notify, readerVars, guiVars
<1>4. CASE NotifyAgain
  BY <1>4 DEF ReaderTypeOK, NotifyAgain, readerVars, guiVars
<1>5. CASE ReaderLoop
  BY <1>5 DEF ReaderTypeOK, ReaderLoop, serviceVars, guiVars, Reader
<1>6. CASE ReaderWakes
  BY <1>6 DEF ReaderTypeOK, ReaderWakes, serviceVars, guiVars, Reader
<1>7. CASE ReaderResets
  BY <1>7 DEF ReaderTypeOK, ReaderResets, serviceVars, guiVars, Reader
<1>8. CASE ReaderOpens
  <2>1. 1 \in 1..Len(ReadOrder)
    BY Lengths
  <2> QED
    BY <1>8, <2>1 DEF ReaderTypeOK, ReaderOpens, serviceVars, guiVars, Reader
<1>9. CASE ReaderSize
  BY <1>9, Entries DEF ReaderTypeOK, ReaderSize, serviceVars, guiVars, Reader
<1>10. CASE ReaderValue
  <2>1. ReadOrder[index] \in Fields
    BY <1>10, Entries DEF ReaderTypeOK
  <2>2. [members EXCEPT ![ReadOrder[index]] = registry[ReadOrder[index]]] \in [Fields -> Values]
    BY <2>1 DEF ReaderTypeOK
  <2> QED
    BY <1>10, <2>2, Lengths DEF ReaderTypeOK, ReaderValue, serviceVars, guiVars, Reader
<1>11. CASE ReaderPosts
  BY <1>11 DEF ReaderTypeOK, ReaderPosts, serviceVars, guiVars, Reader
<1>12. CASE HandlerStarts
  BY <1>12, Lengths DEF ReaderTypeOK, HandlerStarts, serviceVars, readerVars, Gui
<1>13. CASE HandlerShows
  <2>1. ShowOrder[step] \in Fields
    BY <1>13, Entries DEF ReaderTypeOK, HandlerShows
  <2>2. Readable(ShowOrder[step]) \subseteq Values /\ Survives(ShowOrder[step]) \subseteq BOOLEAN
    BY <2>1 DEF ReaderTypeOK, Readable, Survives
  <2> QED
    BY <1>13, <2>1, <2>2, Lengths DEF ReaderTypeOK, HandlerShows, serviceVars, readerVars, Gui
<1>14. CASE HandlerPasses
  <2>1. PassOrder[step] \in Fields
    BY <1>14, Entries DEF ReaderTypeOK, HandlerPasses
  <2>2. Readable(PassOrder[step]) \subseteq Values /\ Survives(PassOrder[step]) \subseteq BOOLEAN
    BY <2>1 DEF ReaderTypeOK, Readable, Survives
  <2> QED
    BY <1>14, <2>1, <2>2, Lengths DEF ReaderTypeOK, HandlerPasses, serviceVars, readerVars, Gui
<1>15. CASE Interrupt
  BY <1>15 DEF ReaderTypeOK, Interrupt, serviceVars, readerVars, Gui
<1>16. CASE Join
  BY <1>16 DEF ReaderTypeOK, Join, serviceVars, readerVars, Gui
<1>17. CASE UNCHANGED cardVars
  BY <1>17 DEF ReaderTypeOK, cardVars, serviceVars, readerVars, guiVars
<1> QED
  BY <1>1, <1>2, <1>3, <1>4, <1>5, <1>6, <1>7, <1>8, <1>9, <1>10, <1>11, <1>12, <1>13,
     <1>14, <1>15, <1>16, <1>17 DEF ReaderNext, Service, ReaderThread, GuiThread, Ended

(* The service, the reader and the handler keep their types.               *)
THEOREM ReaderTypeCorrect == ReaderSpec => []ReaderTypeOK
  BY ReaderTypeInit, ReaderTypeStep, PTL DEF ReaderSpec

-----------------------------------------------------------------------------
LEMMA ReaderInitIInv == ReaderInit => ReaderIInv
<1> SUFFICES ASSUME ReaderInit PROVE ReaderIInv
  OBVIOUS
<1>1. ReaderTypeOK
  BY ReaderTypeInit
<1>2. OneAtWork
  BY DEF ReaderInit, OneAtWork, ReaderReads, HandlerRuns
<1>3. \E card \in Values : registry = Whole(card)
  BY DEF ReaderInit, Nothing, Whole, Values
<1>4. Handled(NoCard)
  BY Orders DEF ReaderInit, Handled, Nothing, Whole
<1>5. ReadSoFar /\ HandledSoFar /\ ~HandlerRuns /\ posted = 0
  BY DEF ReaderInit, ReadSoFar, HandledSoFar, HandlerRuns
<1>6. Sequential
  BY <1>2, <1>3, <1>4, <1>5 DEF Sequential, Values
<1> QED
  BY <1>1, <1>6 DEF ReaderInit, ReaderIInv, Written, Presented, Fresh, Quiescent

LEMMA PresentKeeps ==
    ASSUME ReaderIInv, NEW card \in Cards, Present(card), ReaderTypeOK'
    PROVE  ReaderIInv'
<1>0. UNCHANGED <<registry, latest, signals, readerVars, guiVars, event, posted, alive>>
  BY DEF Present
<1>1. service' # NoCard /\ unwritten' = Fields
  BY CardsAssumption DEF Present
<1>2. ~overlap' => ~overlap /\ Settled
  BY DEF Present
<1>3. ~alive' => overlap'
  BY <1>0, <1>2 DEF ReaderIInv
<1>4. ASSUME ~overlap' PROVE Sequential'
  <2>1. OneAtWork'
    BY <1>0, <1>1, <1>2, <1>4 DEF ReaderIInv, Sequential, OneAtWork, Settled, ReaderReads, HandlerRuns,
       readerVars, guiVars
  <2>2. ReadSoFar' /\ HandledSoFar' /\ (posted > 0 \/ HandlerRuns => members = registry)'
    BY <1>0, <1>2, <1>4 DEF ReaderIInv, Sequential, ReadSoFar, HandledSoFar, HandlerRuns,
       readerVars, guiVars, ShownFields
  <2>3. (Open /\ gui = "idle" => \E c \in Values : Handled(c))'
    BY <1>0, <1>2, <1>4 DEF ReaderIInv, Sequential, Open, Handled, readerVars, guiVars
  <2> QED
    BY <1>1, <2>1, <2>2, <2>3 DEF Sequential
<1> QED
  BY <1>1, <1>3, <1>4 DEF ReaderIInv, Written, Presented, Fresh, Quiescent

LEMMA WriteKeeps ==
    ASSUME ReaderIInv, NEW f \in Fields, WriteValue(f), ReaderTypeOK'
    PROVE  ReaderIInv'
<1>0. UNCHANGED <<service, latest, signals, overlap, readerVars, guiVars, event, posted, alive>>
  BY DEF WriteValue
<1>1. service # NoCard /\ service' # NoCard
  BY DEF WriteValue
<1>2. ~alive' => overlap'
  BY <1>0 DEF ReaderIInv
<1>3. ASSUME ~overlap' PROVE Sequential'
  <2>1. OneAtWork'
    BY <1>0, <1>3 DEF ReaderIInv, Sequential, OneAtWork, ReaderReads, HandlerRuns, readerVars, guiVars
  <2>2. ~ReaderReads' /\ posted' = 0 /\ ~HandlerRuns'
    BY <2>1, <1>1 DEF OneAtWork
  <2>3. ReadSoFar' /\ HandledSoFar'
    BY <2>2 DEF ReaderReads, HandlerRuns, ReadSoFar, HandledSoFar
  <2>4. (Open /\ gui = "idle" => \E c \in Values : Handled(c))'
    BY <1>0, <1>3 DEF ReaderIInv, Sequential, Open, Handled, readerVars, guiVars
  <2> QED
    BY <1>1, <2>1, <2>2, <2>3, <2>4 DEF Sequential
<1>4. Written'
  BY DEF ReaderIInv, Written, WriteValue, ReaderTypeOK
<1> QED
  BY <1>1, <1>2, <1>3, <1>4 DEF ReaderIInv, Presented, Fresh, Quiescent

LEMMA NotifyKeeps == ASSUME ReaderIInv, Notify, ReaderTypeOK' PROVE ReaderIInv'
<1>0. UNCHANGED <<registry, unwritten, overlap, readerVars, guiVars, posted, alive>>
  BY DEF Notify
<1>1. service # NoCard /\ service' = NoCard /\ event' /\ latest' = service
  BY DEF Notify
<1>2. registry = Whole(service)
  <2>1. \A f \in Fields : registry[f] = service
    BY DEF Notify, ReaderIInv, Written
  <2> QED
    BY <2>1 DEF ReaderIInv, ReaderTypeOK, Whole
<1>3. ~alive' => overlap'
  BY <1>0 DEF ReaderIInv
<1>4. ASSUME ~overlap' PROVE Sequential'
  <2>1. ~ReaderReads' /\ posted' = 0 /\ ~HandlerRuns'
    BY <1>0, <1>1, <1>4 DEF ReaderIInv, Sequential, OneAtWork, ReaderReads, HandlerRuns, readerVars, guiVars
  <2>2. OneAtWork'
    BY <1>1, <2>1 DEF OneAtWork, ReaderReads, ReaderTypeOK, Reader
  <2>3. ReadSoFar' /\ HandledSoFar'
    BY <2>1 DEF ReaderReads, HandlerRuns, ReadSoFar, HandledSoFar
  <2>4. (Open /\ gui = "idle" => \E c \in Values : Handled(c))'
    BY <1>0, <1>4 DEF ReaderIInv, Sequential, Open, Handled, readerVars, guiVars
  <2>5. \E card \in Values : registry' = Whole(card)
    BY <1>0, <1>2 DEF ReaderIInv, ReaderTypeOK
  <2> QED
    BY <2>1, <2>2, <2>3, <2>4, <2>5 DEF Sequential, Whole
<1>5. Presented'
  BY <1>0, <1>1, <1>2 DEF Presented, Whole
<1> QED
  BY <1>1, <1>3, <1>4, <1>5 DEF ReaderIInv, Written, Fresh, Quiescent

LEMMA NotifyAgainKeeps == ASSUME ReaderIInv, NotifyAgain, ReaderTypeOK' PROVE ReaderIInv'
<1>0. UNCHANGED <<registry, service, unwritten, latest, readerVars, guiVars, posted, alive>>
  BY DEF NotifyAgain
<1>1. service = NoCard /\ event'
  BY DEF NotifyAgain
<1>2. ~overlap' => ~overlap /\ Settled
  BY DEF NotifyAgain
<1>3. ~alive' => overlap'
  BY <1>0, <1>2 DEF ReaderIInv
<1>4. ASSUME ~overlap' PROVE Sequential'
  <2>1. OneAtWork'
    BY <1>0, <1>1, <1>2, <1>4 DEF OneAtWork, Settled, ReaderReads, HandlerRuns, readerVars, guiVars
  <2>2. ReadSoFar' /\ HandledSoFar' /\ (posted > 0 \/ HandlerRuns => members = registry)'
    BY <1>0, <1>2, <1>4 DEF ReaderIInv, Sequential, ReadSoFar, HandledSoFar, HandlerRuns,
       readerVars, guiVars, ShownFields
  <2>3. (Open /\ gui = "idle" => \E c \in Values : Handled(c))'
    BY <1>0, <1>2, <1>4 DEF ReaderIInv, Sequential, Open, Handled, readerVars, guiVars
  <2>4. (service = NoCard => \E card \in Values : registry = Whole(card))'
    BY <1>0, <1>2, <1>4 DEF ReaderIInv, Sequential, Whole
  <2> QED
    BY <2>1, <2>2, <2>3, <2>4 DEF Sequential
<1>5. Written' /\ Presented'
  BY <1>0 DEF ReaderIInv, Written, Presented, Whole
<1> QED
  BY <1>1, <1>3, <1>4, <1>5 DEF ReaderIInv, Fresh, Quiescent

-----------------------------------------------------------------------------
(* The reader between two readings.                                        *)
LEMMA RestingKeeps ==
    ASSUME ReaderIInv, ReaderTypeOK', reader \in {"loop", "waiting"},
           reader' \in {"loop", "waiting", "signalled", "done"},
           reader' = "signalled" => event,
           reader' = "done" => gui \in {"joining", "closed"},
           UNCHANGED <<serviceVars, index, sized, members, openFailed, guiVars, event, posted, alive>>
    PROVE  ReaderIInv'
<1>1. ASSUME ~overlap' PROVE Sequential'
  <2>1. OneAtWork'
    BY <1>1 DEF ReaderIInv, Sequential, OneAtWork, ReaderReads, HandlerRuns, serviceVars, guiVars
  <2>2. ReadSoFar' /\ HandledSoFar' /\ (posted > 0 \/ HandlerRuns => members = registry)'
    BY <1>1 DEF ReaderIInv, Sequential, ReadSoFar, HandledSoFar, HandlerRuns,
       serviceVars, guiVars, ShownFields
  <2>3. (Open /\ gui = "idle" => \E c \in Values : Handled(c))'
    BY <1>1 DEF ReaderIInv, Sequential, Open, Handled, serviceVars, guiVars
  <2>4. (service = NoCard => \E card \in Values : registry = Whole(card))'
    BY <1>1 DEF ReaderIInv, Sequential, Whole, serviceVars
  <2> QED
    BY <2>1, <2>2, <2>3, <2>4 DEF Sequential
<1>2. Written' /\ Presented'
  BY DEF ReaderIInv, Written, Presented, Whole, serviceVars
<1>3. ASSUME Quiescent' PROVE Fresh'
  <2>1. Quiescent
    BY <1>3 DEF Quiescent, Open, serviceVars, guiVars
  <2>2. ReadSoFar' /\ members' = registry'
    BY <2>1 DEF ReaderIInv, Fresh, ReadSoFar, Quiescent, Open, serviceVars, guiVars
  <2>3. posted' = 0 => HandledSoFar' /\ (gui = "idle" => Handled(latest))'
    BY <2>1 DEF ReaderIInv, Fresh, HandledSoFar, Handled, serviceVars, guiVars, ShownFields
  <2> QED
    BY <2>2, <2>3 DEF Fresh
<1> QED
  BY <1>1, <1>2, <1>3 DEF ReaderIInv, Fresh, serviceVars

(* What a step of the reader that begins a reading, or reads without       *)
(* posting, has in common: in Sequential nobody else is at work, and in    *)
(* Fresh only ReadSoFar is asked of it.                                    *)
LEMMA ReadingKeeps ==
    ASSUME ReaderIInv, ReaderTypeOK', ReaderReads, ReaderReads' \/ reader' = "loop",
           UNCHANGED <<serviceVars, guiVars, posted, alive>>,
           ~overlap => ~event' /\ ReadSoFar',
           Quiescent' => ReadSoFar' /\ reader' # "loop"
    PROVE  ReaderIInv'
<1>1. ~overlap' => ~overlap
  BY DEF serviceVars
<1>2. ASSUME ~overlap' PROVE Sequential'
  <2>1. posted' = 0 /\ ~HandlerRuns' /\ service' = NoCard
    BY <1>1, <1>2 DEF ReaderIInv, Sequential, OneAtWork, HandlerRuns, serviceVars, guiVars
  <2>2. OneAtWork'
    BY <1>1, <1>2, <2>1 DEF OneAtWork
  <2>3. HandledSoFar'
    BY <2>1 DEF HandledSoFar, HandlerRuns
  <2>4. (Open /\ gui = "idle" => \E c \in Values : Handled(c))'
    BY <1>1, <1>2 DEF ReaderIInv, Sequential, Open, Handled, serviceVars, guiVars
  <2>5. (service = NoCard => \E card \in Values : registry = Whole(card))'
    BY <1>1, <1>2 DEF ReaderIInv, Sequential, Whole, serviceVars
  <2> QED
    BY <1>1, <1>2, <2>1, <2>2, <2>3, <2>4, <2>5 DEF Sequential
<1>3. Written' /\ Presented'
  BY DEF ReaderIInv, Written, Presented, Whole, serviceVars
<1>4. Fresh'
  BY DEF Fresh, ReaderReads
<1> QED
  BY <1>1, <1>2, <1>3, <1>4 DEF ReaderIInv

LEMMA ResetsKeeps == ASSUME ReaderIInv, ReaderResets, ReaderTypeOK' PROVE ReaderIInv'
<1>1. ReaderReads /\ ReaderReads' /\ ReadSoFar' /\ ~event' /\ reader' # "loop"
  BY DEF ReaderResets, ReaderReads, ReadSoFar
<1> QED
  BY <1>1, ReadingKeeps DEF ReaderResets

LEMMA OpensKeeps == ASSUME ReaderIInv, ReaderOpens, ReaderTypeOK' PROVE ReaderIInv'
<1>1. ReaderReads /\ (ReaderReads' \/ reader' = "loop")
  BY DEF ReaderOpens, ReaderReads
<1>2. ReadSoFar'
  BY DEF ReaderOpens, ReadSoFar
<1>3. ~overlap => ~event'
  BY DEF ReaderOpens, ReaderIInv, Sequential, OneAtWork
<1>4. Quiescent' => reader' # "loop"
  BY DEF ReaderOpens, Quiescent
<1> QED
  BY <1>1, <1>2, <1>3, <1>4, ReadingKeeps DEF ReaderOpens

LEMMA SizeKeeps == ASSUME ReaderIInv, ReaderSize, ReaderTypeOK' PROVE ReaderIInv'
<1>0. UNCHANGED <<serviceVars, index, members, openFailed, guiVars, event, posted, alive>>
  BY DEF ReaderSize
<1>1. ReaderReads /\ (ReaderReads' \/ reader' = "loop")
  BY DEF ReaderSize, ReaderReads
<1>2. ReadSoFar => ReadSoFar'
  BY DEF ReaderSize, ReadSoFar, serviceVars
<1>3. ~overlap => ~event' /\ ReadSoFar'
  BY <1>2 DEF ReaderSize, ReaderIInv, Sequential, OneAtWork
<1>4. Quiescent' => Quiescent
  BY <1>0 DEF Quiescent, Open, serviceVars, guiVars
<1>5. ASSUME Quiescent PROVE reader' # "loop"
  <2>1. ReadOrder[index] \in Fields
    BY Entries DEF ReaderIInv, ReaderTypeOK
  <2>2. registry[ReadOrder[index]] \in Cards
    BY <1>5, <2>1 DEF ReaderIInv, Presented, Quiescent, Whole, ReaderTypeOK, Values
  <2> QED
    BY <2>2, CardsAssumption DEF ReaderSize
<1> QED
  BY <1>0, <1>1, <1>2, <1>3, <1>4, <1>5, ReadingKeeps DEF ReaderIInv, Fresh

(* Assigning the value that was asked for extends what was read; after the *)
(* last one the members are the registry's contents.                       *)
LEMMA AssignKeeps ==
    ASSUME ReaderTypeOK, ReaderTypeOK', ReadSoFar, reader = "value",
           members' = [members EXCEPT ![ReadOrder[index]] = registry[ReadOrder[index]]],
           registry' = registry,
           \/ index = Len(ReadOrder) /\ reader' = "post" /\ index' = index
           \/ index # Len(ReadOrder) /\ reader' = "size" /\ index' = index + 1
    PROVE  ReadSoFar'
<1>1. index \in 1..Len(ReadOrder) /\ Len(ReadOrder) \in Nat /\ ReadOrder[index] \in Fields
  BY Lengths, Entries DEF ReaderTypeOK
<1>2. \A i \in 1..index : members'[ReadOrder[i]] = registry[ReadOrder[i]]
  <2> TAKE i \in 1..index
  <2>1. ReadOrder[i] \in Fields
    BY <1>1, Entries
  <2>2. CASE ReadOrder[i] = ReadOrder[index]
    BY <2>1, <2>2 DEF ReaderTypeOK
  <2>3. CASE ReadOrder[i] # ReadOrder[index]
    <3>1. i \in 1..(index - 1)
      BY <1>1, <2>3
    <3> QED
      BY <2>1, <2>3, <3>1 DEF ReaderTypeOK, ReadSoFar
  <2> QED
    BY <2>2, <2>3
<1>3. CASE index = Len(ReadOrder)
  <2>1. \A f \in Fields : members'[f] = registry[f]
    BY <1>2, <1>3, ReadsAll
  <2>2. members' = registry'
    BY <2>1 DEF ReaderTypeOK
  <2> QED
    BY <1>3, <2>2 DEF ReadSoFar
<1>4. CASE index # Len(ReadOrder)
  <2>1. reader' = "size" /\ index' - 1 = index
    BY <1>1, <1>4
  <2> QED
    BY <1>2, <2>1 DEF ReadSoFar
<1> QED
  BY <1>3, <1>4

LEMMA ValueKeeps == ASSUME ReaderIInv, ReaderValue, ReaderTypeOK' PROVE ReaderIInv'
<1>0. UNCHANGED <<serviceVars, openFailed, guiVars, event, posted, alive>>
  BY DEF ReaderValue
<1>1. ReaderReads /\ (ReaderReads' \/ reader' = "loop")
  BY DEF ReaderValue, ReaderReads
<1>2. ReadSoFar => ReadSoFar' /\ reader' # "loop"
  <2> SUFFICES ASSUME ReadSoFar PROVE ReadSoFar' /\ reader' # "loop"
    OBVIOUS
  <2>1. sized = registry[ReadOrder[index]]
    BY DEF ReaderValue, ReadSoFar
  <2>2. /\ members' = [members EXCEPT ![ReadOrder[index]] = registry[ReadOrder[index]]]
        /\ \/ index = Len(ReadOrder) /\ reader' = "post" /\ index' = index
           \/ index # Len(ReadOrder) /\ reader' = "size" /\ index' = index + 1
    BY <2>1 DEF ReaderValue
  <2> QED
    BY <1>0, <2>2, AssignKeeps DEF ReaderValue, ReaderIInv, serviceVars
<1>3. ~overlap => ~event' /\ ReadSoFar'
  BY <1>2 DEF ReaderValue, ReaderIInv, Sequential, OneAtWork
<1>4. Quiescent' => Quiescent
  BY <1>0 DEF Quiescent, Open, serviceVars, guiVars
<1> QED
  BY <1>0, <1>1, <1>2, <1>3, <1>4, ReadingKeeps DEF ReaderIInv, Fresh

LEMMA PostsKeeps == ASSUME ReaderIInv, ReaderPosts, ReaderTypeOK' PROVE ReaderIInv'
<1>0. UNCHANGED <<serviceVars, index, sized, members, openFailed, guiVars, event, alive>>
  BY DEF ReaderPosts
<1>1. reader = "post" /\ reader' = "loop" /\ posted' = posted + 1 /\ posted' # 0
  BY DEF ReaderPosts, ReaderIInv, ReaderTypeOK
<1>2. ReadSoFar => members' = registry'
  BY <1>0, <1>1 DEF ReadSoFar, serviceVars
<1>3. ASSUME ~overlap' PROVE Sequential'
  <2>1. ~event /\ ~HandlerRuns /\ service = NoCard
    BY <1>0, <1>1, <1>3 DEF ReaderIInv, Sequential, OneAtWork, ReaderReads, serviceVars
  <2>2. OneAtWork'
    BY <1>0, <1>1, <2>1 DEF OneAtWork, ReaderReads, HandlerRuns, serviceVars, guiVars
  <2>3. ReadSoFar' /\ HandledSoFar' /\ members' = registry'
    BY <1>0, <1>1, <1>2, <1>3, <2>1 DEF ReaderIInv, Sequential, ReadSoFar, HandledSoFar, HandlerRuns,
       serviceVars, guiVars
  <2>4. (Open /\ gui = "idle" => \E c \in Values : Handled(c))'
    BY <1>0, <1>3 DEF ReaderIInv, Sequential, Open, Handled, serviceVars, guiVars
  <2>5. (service = NoCard => \E card \in Values : registry = Whole(card))'
    BY <1>0, <1>3 DEF ReaderIInv, Sequential, Whole, serviceVars
  <2> QED
    BY <2>2, <2>3, <2>4, <2>5 DEF Sequential
<1>4. Written' /\ Presented'
  BY <1>0 DEF ReaderIInv, Written, Presented, Whole, serviceVars
<1>5. Quiescent' => Quiescent
  BY <1>0 DEF Quiescent, Open, serviceVars, guiVars
<1>6. Fresh'
  BY <1>1, <1>2, <1>5 DEF ReaderIInv, Fresh, ReadSoFar
<1> QED
  BY <1>0, <1>3, <1>4, <1>6 DEF ReaderIInv, serviceVars

-----------------------------------------------------------------------------
LEMMA StartsKeeps == ASSUME ReaderIInv, HandlerStarts, ReaderTypeOK' PROVE ReaderIInv'
<1>0. UNCHANGED <<serviceVars, readerVars, shown, passed, accepted, event, alive>>
  BY DEF HandlerStarts
<1>1. gui' = "show" /\ step' = 1 /\ posted > 0
  BY DEF HandlerStarts
<1>2. HandledSoFar'
  BY <1>1 DEF HandledSoFar
<1>3. ReadSoFar => ReadSoFar'
  BY <1>0 DEF ReadSoFar, serviceVars, readerVars
<1>4. ASSUME ~overlap' PROVE Sequential'
  <2>1. ~event /\ ~ReaderReads /\ service = NoCard /\ members = registry /\ ReadSoFar
    BY <1>0, <1>1, <1>4 DEF ReaderIInv, ReaderTypeOK, Sequential, OneAtWork, serviceVars
  <2>2. OneAtWork'
    BY <1>0, <2>1 DEF OneAtWork, ReaderReads, serviceVars, readerVars
  <2>3. (service = NoCard => \E card \in Values : registry = Whole(card))'
    BY <1>0, <1>4 DEF ReaderIInv, Sequential, Whole, serviceVars
  <2> QED
    BY <1>0, <1>1, <1>2, <1>3, <2>1, <2>2, <2>3 DEF Sequential, serviceVars, readerVars
<1>5. Written' /\ Presented'
  BY <1>0 DEF ReaderIInv, Written, Presented, Whole, serviceVars
<1>6. Fresh'
  <2> SUFFICES ASSUME Quiescent' PROVE Fresh'
    BY DEF Fresh
  <2>1. Quiescent
    BY <1>0 DEF Quiescent, Open, HandlerStarts, serviceVars, readerVars
  <2> QED
    BY <1>0, <1>1, <1>2, <1>3, <2>1 DEF ReaderIInv, Fresh, serviceVars, readerVars
<1> QED
  BY <1>0, <1>4, <1>5, <1>6 DEF ReaderIInv, serviceVars

(* Showing a member while nobody assigns it.                               *)
LEMMA ShowAssigns ==
    ASSUME ReaderTypeOK, ReaderTypeOK', HandledSoFar, members = registry, reader # "value", HandlerShows
    PROVE  HandledSoFar' /\ gui' # "idle"
<1>1. /\ step \in 1..Len(ShowOrder) /\ ShowOrder[step] \in Fields
      /\ registry' = registry /\ gui = "show"
  BY Lengths, Entries DEF HandlerShows, ReaderTypeOK, serviceVars
<1>2. shown' = [shown EXCEPT ![ShowOrder[step]] = registry[ShowOrder[step]]]
  BY DEF HandlerShows, Readable, Racing
<1>3. \A i \in 1..step : shown'[ShowOrder[i]] = registry[ShowOrder[i]]
  <2> TAKE i \in 1..step
  <2>1. ShowOrder[i] \in Fields
    BY <1>1, Lengths, Entries
  <2>2. CASE ShowOrder[i] = ShowOrder[step]
    BY <1>2, <2>1, <2>2 DEF ReaderTypeOK
  <2>3. CASE ShowOrder[i] # ShowOrder[step]
    <3>1. i \in 1..(step - 1)
      BY <1>1, <2>3
    <3> QED
      BY <1>1, <1>2, <2>1, <2>3, <3>1 DEF ReaderTypeOK, HandledSoFar
  <2> QED
    BY <2>2, <2>3
<1>4. CASE step = Len(ShowOrder)
  <2>1. \A f \in ShownFields : shown'[f] = registry[f]
    BY <1>3, <1>4, ShowsAll
  <2>2. gui' = "pass" /\ step' = 1
    BY <1>4 DEF HandlerShows
  <2> QED
    BY <1>1, <2>1, <2>2 DEF HandledSoFar, ShownFields
<1>5. CASE step # Len(ShowOrder)
  <2>1. gui' = "show" /\ step' - 1 = step
    BY <1>1, <1>5 DEF HandlerShows
  <2> QED
    BY <1>1, <1>3, <2>1 DEF HandledSoFar
<1> QED
  BY <1>4, <1>5

(* Passing members on while nobody assigns them; the last one completes    *)
(* the call.                                                               *)
LEMMA PassAssigns ==
    ASSUME ReaderTypeOK, ReaderTypeOK', HandledSoFar, members = registry, reader # "value", HandlerPasses
    PROVE  /\ HandledSoFar'
           /\ gui' = "idle" => /\ accepted' = registry
                               /\ \A f \in ShownFields : shown'[f] = registry[f]
<1>1. /\ step \in 1..Len(PassOrder) /\ PassOrder[step] \in Fields
      /\ registry' = registry /\ shown' = shown /\ gui = "pass"
  BY Lengths, Entries DEF HandlerPasses, ReaderTypeOK, serviceVars
<1>2. passed' = [passed EXCEPT ![PassOrder[step]] = registry[PassOrder[step]]]
  BY DEF HandlerPasses, Readable, Racing
<1>3. \A i \in 1..step : passed'[PassOrder[i]] = registry[PassOrder[i]]
  <2> TAKE i \in 1..step
  <2>1. PassOrder[i] \in Fields
    BY <1>1, Lengths, Entries
  <2>2. CASE PassOrder[i] = PassOrder[step]
    BY <1>2, <2>1, <2>2 DEF ReaderTypeOK
  <2>3. CASE PassOrder[i] # PassOrder[step]
    <3>1. i \in 1..(step - 1)
      BY <1>1, <2>3
    <3> QED
      BY <1>1, <1>2, <2>1, <2>3, <3>1 DEF ReaderTypeOK, HandledSoFar
  <2> QED
    BY <2>2, <2>3
<1>4. \A f \in ShownFields : shown'[f] = registry[f]
  BY <1>1 DEF HandledSoFar
<1>5. CASE step = Len(PassOrder)
  <2>1. \A f \in Fields : passed'[f] = registry[f]
    BY <1>3, <1>5, PassesAll
  <2>2. passed' = registry
    BY <1>1, <2>1 DEF ReaderTypeOK
  <2>3. gui' = "idle" /\ accepted' = passed'
    BY <1>5 DEF HandlerPasses
  <2> QED
    BY <1>4, <2>2, <2>3 DEF HandledSoFar
<1>6. CASE step # Len(PassOrder)
  <2>1. gui' = "pass" /\ step' - 1 = step
    BY <1>1, <1>6 DEF HandlerPasses
  <2> QED
    BY <1>1, <1>3, <1>4, <2>1 DEF HandledSoFar, ShownFields
<1> QED
  BY <1>5, <1>6

(* A step of the handler that runs, whichever member it reads.             *)
LEMMA RunningKeeps ==
    ASSUME ReaderIInv, ReaderTypeOK', HandlerRuns, gui' \in {"show", "pass", "idle"},
           UNCHANGED <<serviceVars, readerVars, event, posted>>,
           reader # "value" => alive' = TRUE,
           alive' => alive,
           HandledSoFar /\ members = registry /\ reader # "value" =>
               /\ HandledSoFar'
               /\ gui' = "idle" => /\ accepted' = registry
                                   /\ \A f \in ShownFields : shown'[f] = registry[f]
    PROVE  ReaderIInv'
<1>1. ~overlap' => ~overlap
  BY DEF serviceVars
<1>2. ASSUME ~overlap PROVE Sequential' /\ alive' = TRUE
  <2>1. ~event /\ ~ReaderReads /\ service = NoCard /\ members = registry /\ ReadSoFar /\ HandledSoFar
    BY <1>2 DEF ReaderIInv, Sequential, OneAtWork
  <2>2. reader # "value"
    BY <2>1 DEF ReaderReads
  <2>3. OneAtWork'
    BY <2>1 DEF OneAtWork, ReaderReads, serviceVars, readerVars
  <2>4. ReadSoFar' /\ members' = registry'
    BY <2>1 DEF ReadSoFar, serviceVars, readerVars
  <2>5. PICK card \in Values : registry = Whole(card)
    BY <1>2, <2>1 DEF ReaderIInv, Sequential
  <2>6. gui' = "idle" => Handled(card)'
    <3> SUFFICES ASSUME gui' = "idle" PROVE Handled(card)'
      OBVIOUS
    <3>1. accepted' = Whole(card) /\ \A f \in ShownFields : shown'[f] = Whole(card)[f]
      BY <2>1, <2>2, <2>5
    <3>2. \A f \in ShownFields : Whole(card)[f] = card
      BY ShowsAll DEF Whole
    <3> QED
      BY <3>1, <3>2 DEF Handled, Whole, ShownFields
  <2>7. \E c \in Values : registry' = Whole(c)
    BY <2>5 DEF serviceVars
  <2> QED
    BY <2>1, <2>2, <2>3, <2>4, <2>6, <2>7 DEF Sequential, Whole
<1>3. Written' /\ Presented'
  BY DEF ReaderIInv, Written, Presented, Whole, serviceVars
<1>4. ASSUME Quiescent' PROVE Fresh'
  <2>1. Quiescent
    BY <1>4 DEF Quiescent, Open, HandlerRuns, serviceVars, readerVars
  <2>2. ReadSoFar' /\ (reader \in {"loop", "waiting"} => members = registry)'
    BY <2>1 DEF ReaderIInv, Fresh, ReadSoFar, serviceVars, readerVars
  <2>3. ASSUME reader' \in {"loop", "waiting"}, posted' = 0
        PROVE  HandledSoFar' /\ (gui = "idle" => Handled(latest))'
    <3>1. HandledSoFar /\ members = registry /\ reader # "value"
      BY <2>1, <2>3 DEF ReaderIInv, Fresh, readerVars
    <3>2. registry = Whole(latest)
      BY <2>1 DEF ReaderIInv, Presented, Quiescent
    <3>3. ASSUME gui' = "idle" PROVE Handled(latest)'
      <4>1. accepted' = Whole(latest) /\ \A f \in ShownFields : shown'[f] = Whole(latest)[f]
        BY <3>1, <3>2, <3>3
      <4>2. \A f \in ShownFields : Whole(latest)[f] = latest
        BY ShowsAll DEF Whole
      <4> QED
        BY <4>1, <4>2 DEF Handled, Whole, ShownFields, serviceVars
    <3> QED
      BY <3>1, <3>3
  <2> QED
    BY <2>2, <2>3 DEF Fresh
<1>5. ~alive' => overlap'
  BY <1>2 DEF serviceVars
<1> QED
  BY <1>1, <1>2, <1>3, <1>4, <1>5 DEF ReaderIInv, Fresh

LEMMA ShowsKeeps == ASSUME ReaderIInv, alive, HandlerShows, ReaderTypeOK' PROVE ReaderIInv'
<1>1. HandlerRuns /\ gui' \in {"show", "pass", "idle"}
  BY DEF HandlerShows, HandlerRuns
<1>2. reader # "value" => alive' = TRUE
  BY DEF HandlerShows, Survives, Racing
<1> QED
  BY <1>1, <1>2, ShowAssigns, RunningKeeps DEF HandlerShows, ReaderIInv

LEMMA PassesKeeps == ASSUME ReaderIInv, alive, HandlerPasses, ReaderTypeOK' PROVE ReaderIInv'
<1>1. HandlerRuns /\ gui' \in {"show", "pass", "idle"}
  BY DEF HandlerPasses, HandlerRuns
<1>2. reader # "value" => alive' = TRUE
  BY DEF HandlerPasses, Survives, Racing
<1> QED
  BY <1>1, <1>2, PassAssigns, RunningKeeps DEF HandlerPasses, ReaderIInv

(* Closing the window.                                                     *)
LEMMA ClosingKeeps ==
    ASSUME ReaderIInv, ReaderTypeOK', gui \in {"idle", "joining"}, gui' \in {"joining", "closed"},
           UNCHANGED <<serviceVars, readerVars, step, shown, passed, accepted, event, posted, alive>>
    PROVE  ReaderIInv'
<1>1. ASSUME ~overlap' PROVE Sequential'
  <2>1. OneAtWork'
    BY <1>1 DEF ReaderIInv, Sequential, OneAtWork, ReaderReads, HandlerRuns, serviceVars, readerVars
  <2>2. ReadSoFar' /\ HandledSoFar' /\ (posted > 0 \/ HandlerRuns => members = registry)'
    BY <1>1 DEF ReaderIInv, Sequential, ReadSoFar, HandledSoFar, HandlerRuns, serviceVars, readerVars
  <2>3. (service = NoCard => \E card \in Values : registry = Whole(card))'
    BY <1>1 DEF ReaderIInv, Sequential, Whole, serviceVars
  <2> QED
    BY <2>1, <2>2, <2>3 DEF Sequential
<1>2. Written' /\ Presented'
  BY DEF ReaderIInv, Written, Presented, Whole, serviceVars
<1> QED
  BY <1>1, <1>2 DEF ReaderIInv, Fresh, Quiescent, Open, serviceVars

-----------------------------------------------------------------------------
LEMMA ReaderInductive == ReaderSpec => []ReaderIInv
<1>1. ReaderIInv /\ [ReaderNext]_cardVars => ReaderIInv'
  <2> SUFFICES ASSUME ReaderIInv, [ReaderNext]_cardVars PROVE ReaderIInv'
    OBVIOUS
  <2>0. ReaderTypeOK'
    BY ReaderTypeStep DEF ReaderIInv
  <2>1. ASSUME NEW card \in Cards, Present(card) PROVE ReaderIInv'
    BY <2>0, <2>1, PresentKeeps
  <2>2. ASSUME NEW f \in Fields, WriteValue(f) PROVE ReaderIInv'
    BY <2>0, <2>2, WriteKeeps
  <2>3. CASE Notify \/ NotifyAgain
    BY <2>0, <2>3, NotifyKeeps, NotifyAgainKeeps
  <2>4. CASE ReaderLoop
    BY <2>0, <2>4, RestingKeeps DEF ReaderLoop
  <2>5. CASE ReaderWakes
    BY <2>0, <2>5, RestingKeeps DEF ReaderWakes
  <2>6. CASE ReaderResets \/ ReaderOpens \/ ReaderSize \/ ReaderValue \/ ReaderPosts
    BY <2>0, <2>6, ResetsKeeps, OpensKeeps, SizeKeeps, ValueKeeps, PostsKeeps
  <2>7. CASE alive /\ (HandlerStarts \/ HandlerShows \/ HandlerPasses)
    BY <2>0, <2>7, StartsKeeps, ShowsKeeps, PassesKeeps
  <2>8. CASE Interrupt
    BY <2>0, <2>8, ClosingKeeps DEF Interrupt
  <2>9. CASE Join
    BY <2>0, <2>9, ClosingKeeps DEF Join
  <2>10. CASE UNCHANGED cardVars
    <3>1. OneAtWork' = OneAtWork /\ ReadSoFar' = ReadSoFar /\ HandledSoFar' = HandledSoFar
      BY <2>10 DEF cardVars, serviceVars, readerVars, guiVars, OneAtWork, ReaderReads, HandlerRuns,
         ReadSoFar, HandledSoFar, ShownFields
    <3>2. Sequential => Sequential'
      BY <2>10, <3>1 DEF cardVars, serviceVars, readerVars, guiVars, Sequential, HandlerRuns, Open,
         Handled, Whole
    <3>3. Fresh => Fresh'
      BY <2>10, <3>1 DEF cardVars, serviceVars, readerVars, guiVars, Fresh, Quiescent, Open, Handled,
         Whole, ShownFields
    <3>4. Written' /\ Presented'
      BY <2>10 DEF cardVars, serviceVars, ReaderIInv, Written, Presented, Whole
    <3> QED
      BY <2>0, <2>10, <3>2, <3>3, <3>4 DEF cardVars, serviceVars, ReaderIInv
  <2> QED
    BY <2>1, <2>2, <2>3, <2>4, <2>5, <2>6, <2>7, <2>8, <2>9, <2>10
       DEF ReaderNext, Service, ReaderThread, GuiThread, Ended
<1> QED
  BY ReaderInitIInv, <1>1, PTL DEF ReaderSpec

(* Without overlapping presentations the session is opened with one whole  *)
(* card, the one that is on the screen.                                    *)
THEOREM CardWholeAlways == ReaderSpec => []CardWhole
<1>1. ReaderIInv => CardWhole
  BY DEF ReaderIInv, Sequential, CardWhole
<1> QED
  BY <1>1, ReaderInductive, PTL

(* The unlocked members are read under an assignment only if presentations *)
(* overlap.                                                                *)
THEOREM DiesOnlyOfOverlapAlways == ReaderSpec => []DiesOnlyOfOverlap
<1>1. ReaderIInv => DiesOnlyOfOverlap
  BY DEF ReaderIInv, DiesOnlyOfOverlap
<1> QED
  BY <1>1, ReaderInductive, PTL

(* However presentations overlap, at rest the last card was handled whole. *)
THEOREM NothingLostAlways == ReaderSpec => []NothingLost
<1>1. ReaderIInv => NothingLost
  <2> SUFFICES ASSUME ReaderIInv, Open, Settled, service = NoCard, latest # NoCard, ~openFailed
               PROVE  Handled(latest)
    BY DEF NothingLost
  <2>1. gui = "idle"
    BY DEF Open, Settled, ReaderIInv, ReaderTypeOK, Gui
  <2> QED
    BY <2>1 DEF ReaderIInv, Fresh, Quiescent, Settled
<1> QED
  BY <1>1, ReaderInductive, PTL

(* Without overlapping presentations every call of camera.recognize is     *)
(* about the card presented last, not only about one whole card, and that  *)
(* card is on the screen when the session begins.                          *)
PassesLatest ==
    [][gui = "pass" /\ gui' = "idle" /\ ~overlap /\ latest # NoCard => Handled(latest)']_cardVars

(* The handler of newIdCard passes on the card presented last.             *)
THEOREM PassesLatestAlways == ReaderSpec => PassesLatest
<1>1. ReaderIInv /\ [ReaderNext]_cardVars
        => [gui = "pass" /\ gui' = "idle" /\ ~overlap /\ latest # NoCard => Handled(latest)']_cardVars
  <2> SUFFICES ASSUME ReaderIInv, ReaderNext, gui = "pass", gui' = "idle", ~overlap, latest # NoCard
               PROVE  Handled(latest)'
    OBVIOUS
  <2>1. HandlerPasses
    BY DEF ReaderNext, Service, Present, WriteValue, Notify, NotifyAgain, ReaderThread, ReaderLoop, ReaderWakes,
       ReaderResets, ReaderOpens, ReaderSize, ReaderValue, ReaderPosts, GuiThread, HandlerStarts, HandlerShows,
       Interrupt, Join, Ended, cardVars, guiVars
  <2>2. ~ReaderReads /\ service = NoCard /\ members = registry /\ HandledSoFar
    BY DEF ReaderIInv, Sequential, OneAtWork, HandlerRuns
  <2>3. reader # "value" /\ registry = Whole(latest)
    BY <2>2 DEF ReaderReads, ReaderIInv, Presented
  <2>4. ReaderTypeOK /\ ReaderTypeOK'
    BY ReaderTypeStep DEF ReaderIInv
  <2>5. accepted' = Whole(latest) /\ \A f \in ShownFields : shown'[f] = Whole(latest)[f]
    BY <2>1, <2>2, <2>3, <2>4, PassAssigns
  <2>6. \A f \in ShownFields : Whole(latest)[f] = latest
    BY ShowsAll DEF Whole
  <2>7. latest' = latest
    BY <2>1 DEF HandlerPasses, serviceVars
  <2> QED
    BY <2>5, <2>6, <2>7 DEF Handled, Whole, ShownFields
<1> QED
  BY <1>1, ReaderInductive, PTL DEF ReaderSpec, PassesLatest
=============================================================================
