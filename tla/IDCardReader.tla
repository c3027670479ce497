----------------------------- MODULE IDCardReader -----------------------------
(***************************************************************************)
(* The way of an ID card into the program.  A card service outside the     *)
(* repository writes the card into the registry and sets a named event; a  *)
(* reader thread (IDCardReader.cpp) waits for the event, copies the values *)
(* into its members and posts newIdCard; the handler in main_high.qml      *)
(* reads the members, on the GUI thread and without a lock, once to show   *)
(* the card and once more to pass it to camera.recognize.                  *)
(*                                                                         *)
(* A value of the registry, or a member, is represented by the card it     *)
(* belongs to: only whether the values belong together matters.            *)
(***************************************************************************)
EXTENDS IDCards, Naturals, Sequences

CONSTANTS Fields,     \* the values of a card
          ReadOrder,  \* the order in which run() reads them from the registry
          ShowOrder,  \* the order in which the handler reads them to show them
          PassOrder,  \* the order in which it reads them to pass them on
          MaxSignals  \* bound: how often the service sets the event

ASSUME ReaderAssumption ==
    /\ ReadOrder \in Seq(Fields) \ {<<>>}
    /\ ShowOrder \in Seq(Fields) \ {<<>>}
    /\ PassOrder \in Seq(Fields) \ {<<>>}
    /\ Fields = {ReadOrder[i] : i \in DOMAIN ReadOrder}
    /\ Fields = {PassOrder[i] : i \in DOMAIN PassOrder}
    /\ MaxSignals \in Nat

VARIABLES registry,  \* the values of SOFTWARE\CashHFR
          service,   \* the card the service is writing, or NoCard
          unwritten, \* its values that are not written yet
          latest,    \* the card of the last completed presentation
          event,     \* m_hNotifyEvent is signalled
          signals,   \* how often the event was set
          reader,    \* where the reader thread is, see Reader
          index,     \* the value of ReadOrder it reads next
          sized,     \* the value whose size it asked for, or NoCard
          members,   \* m_strName, m_strSex, ...
          posted,    \* newIdCard events queued for the GUI thread
          gui,       \* what the GUI thread does, see Gui
          step,      \* the value of ShowOrder or PassOrder it reads next
          shown,     \* what the handler put on the screen
          passed,    \* the arguments it collects for camera.recognize
          accepted,  \* the arguments of the last call
          overlap,   \* history: the service did not wait for the last card's end
          openFailed,\* history: the registry key could not be opened
          alive      \* the process did not die of a data race

serviceVars == <<registry, service, unwritten, latest, signals, overlap>>
readerVars == <<reader, index, sized, members, openFailed>>
guiVars == <<gui, step, shown, passed, accepted>>
cardVars == <<serviceVars, readerVars, guiVars, event, posted, alive>>

-----------------------------------------------------------------------------
(* "loop" tests for the interruption, "waiting" is WaitForSingleObject,    *)
(* "signalled" is before ResetEvent, "opening" before Open, "size" and     *)
(* "value" are the two queries of GetSZValue, "post" is before newIdCard.  *)
Reader == {"loop", "waiting", "signalled", "opening", "size", "value", "post", "done"}

(* "joining" is the destructor between requestInterruption and wait.       *)
Gui == {"idle", "show", "pass", "joining", "closed"}

Values == Cards \cup {NoCard}
Nothing == [f \in Fields |-> NoCard]
Whole(card) == [f \in Fields |-> card]

(* Nothing of an earlier card is left anywhere.                            *)
Settled ==
    /\ ~event /\ posted = 0
    /\ reader \in {"loop", "waiting"}
    /\ gui \notin {"show", "pass"}

ReaderTypeOK ==
    /\ registry \in [Fields -> Values]
    /\ members \in [Fields -> Values]
    /\ shown \in [Fields -> Values]
    /\ passed \in [Fields -> Values]
    /\ accepted \in [Fields -> Values]
    /\ service \in Values
    /\ unwritten \subseteq Fields
    /\ latest \in Values
    /\ event \in BOOLEAN
    /\ signals \in Nat
    /\ reader \in Reader
    /\ index \in 1..Len(ReadOrder)
    /\ sized \in Values
    /\ posted \in Nat
    /\ gui \in Gui
    /\ step \in Nat \ {0}
    /\ gui = "show" => step <= Len(ShowOrder)
    /\ gui = "pass" => step <= Len(PassOrder)
    /\ overlap \in BOOLEAN
    /\ openFailed \in BOOLEAN
    /\ alive \in BOOLEAN

-----------------------------------------------------------------------------
(* The constructor resets the event before it starts the thread; the       *)
(* registry may be empty or hold the last card of an earlier run.          *)
ReaderInit ==
    /\ registry \in {Nothing} \cup {Whole(card) : card \in Cards}
    /\ service = NoCard
    /\ unwritten = {}
    /\ latest = NoCard
    /\ event = FALSE
    /\ signals = 0
    /\ reader = "loop"
    /\ index = 1
    /\ sized = NoCard
    /\ members = Nothing
    /\ posted = 0
    /\ gui = "idle"
    /\ step = 1
    /\ shown = Nothing
    /\ passed = Nothing
    /\ accepted = Nothing
    /\ overlap = FALSE
    /\ openFailed = FALSE
    /\ alive = TRUE

(* The card service, which is not part of the repository: it writes every  *)
(* value of a card, in any order, and then sets the event.  Nothing makes  *)
(* it wait until the previous card was handled.                            *)
Present(card) ==
    /\ service = NoCard /\ signals < MaxSignals
    /\ service' = card
    /\ unwritten' = Fields
    /\ overlap' = (overlap \/ ~Settled)
    /\ UNCHANGED <<registry, latest, signals, readerVars, guiVars, event, posted, alive>>

WriteValue(f) ==
    /\ service # NoCard /\ f \in unwritten
    /\ registry' = [registry EXCEPT ![f] = service]
    /\ unwritten' = unwritten \ {f}
    /\ UNCHANGED <<service, latest, signals, overlap, readerVars, guiVars, event, posted, alive>>

Notify ==
    /\ service # NoCard /\ unwritten = {}
    /\ event' = TRUE
    /\ signals' = signals + 1
    /\ latest' = service
    /\ service' = NoCard
    /\ UNCHANGED <<registry, unwritten, overlap, readerVars, guiVars, posted, alive>>

(* TestHFR.cpp sets the event without writing anything.                    *)
NotifyAgain ==
    /\ service = NoCard /\ signals < MaxSignals
    /\ event' = TRUE
    /\ signals' = signals + 1
    /\ overlap' = (overlap \/ ~Settled)
    /\ UNCHANGED <<registry, service, unwritten, latest, readerVars, guiVars, posted, alive>>

-----------------------------------------------------------------------------
(* The loop of run(); dtor's requestInterruption is seen only here.        *)
ReaderLoop ==
    /\ reader = "loop"
    /\ reader' = IF gui \in {"joining", "closed"} THEN "done" ELSE "waiting"
    /\ UNCHANGED <<serviceVars, index, sized, members, openFailed, guiVars, event, posted, alive>>

(* WaitForSingleObject returns because the event is set or after 100 ms.   *)
ReaderWakes_Infinite ==
    /\ reader = "waiting" /\ event
    /\ reader' = "signalled"
    /\ UNCHANGED <<serviceVars, index, sized, members, openFailed, guiVars, event, posted, alive>>
ReaderWakes ==
    /\ reader = "waiting"
    /\ reader' = IF event THEN "signalled" ELSE "loop"
    /\ UNCHANGED <<serviceVars, index, sized, members, openFailed, guiVars, event, posted, alive>>

(* The event is manual: whatever was set until now is taken as one, and a  *)
(* card presented from now on sets it again.                               *)
ReaderResets ==
    /\ reader = "signalled"
    /\ event' = FALSE
    /\ reader' = "opening"
    /\ UNCHANGED <<serviceVars, index, sized, members, openFailed, guiVars, posted, alive>>

ReaderOpens_PostsEarly ==
    /\ reader = "opening"
    /\ reader' = "size"
    /\ posted' = posted + 1
    /\ UNCHANGED <<serviceVars, index, sized, members, openFailed, guiVars, event, alive>>
(* A key that cannot be opened makes the notification void.                *)
ReaderOpens ==
    /\ reader = "opening"
    /\ index' = 1
    /\ \/ reader' = "size" /\ UNCHANGED openFailed
       \/ reader' = "loop" /\ openFailed' = TRUE
    /\ UNCHANGED <<serviceVars, sized, members, guiVars, event, posted, alive>>

(* GetSZValue asks for the size of the value; a missing value ends the     *)
(* reading and leaves the members of this card and the last one mixed.     *)
ReaderSize ==
    /\ reader = "size"
    /\ sized' = registry[ReadOrder[index]]
    /\ reader' = IF sized' = NoCard THEN "loop" ELSE "value"
    /\ UNCHANGED <<serviceVars, index, members, openFailed, guiVars, event, posted, alive>>

(* ... and then for the value itself, which is assigned to the member; one *)
(* that was written in between may be longer than the buffer, and that     *)
(* ends the reading as well.                                               *)
ReaderValue ==
    /\ reader = "value"
    /\ sized' = NoCard
    /\ \/ /\ members' = [members EXCEPT ![ReadOrder[index]] = registry[ReadOrder[index]]]
          /\ IF index = Len(ReadOrder)
             THEN reader' = "post" /\ UNCHANGED index
             ELSE reader' = "size" /\ index' = index + 1
       \/ /\ registry[ReadOrder[index]] # sized
          /\ reader' = "loop"
          /\ UNCHANGED <<members, index>>
    /\ UNCHANGED <<serviceVars, openFailed, guiVars, event, posted, alive>>

ReaderPosts_ResetsAgain ==
    /\ reader = "post"
    /\ posted' = posted + 1
    /\ event' = FALSE
    /\ reader' = "loop"
    /\ UNCHANGED <<serviceVars, index, sized, members, openFailed, guiVars, alive>>
ReaderPosts_WhenIdle ==
    /\ reader = "post"
    /\ posted' = IF gui = "idle" THEN posted + 1 ELSE posted
    /\ reader' = "loop"
    /\ UNCHANGED <<serviceVars, index, sized, members, openFailed, guiVars, event, alive>>
(* Every value was read: newIdCard is queued for the GUI thread.           *)
ReaderPosts ==
    /\ reader = "post"
    /\ posted' = posted + 1
    /\ reader' = "loop"
    /\ UNCHANGED <<serviceVars, index, sized, members, openFailed, guiVars, event, alive>>

ReaderThread ==
    /\ alive
    /\ \/ ReaderLoop \/ ReaderWakes \/ ReaderResets \/ ReaderOpens
       \/ ReaderSize \/ ReaderValue \/ ReaderPosts

-----------------------------------------------------------------------------
(* A getter copies a QString without a lock.  When the reader thread is    *)
(* assigning that member the copy may be the old text, the new one or      *)
(* neither, and the process may die of it.                                 *)
Racing(f) == reader = "value" /\ ReadOrder[index] = f
Readable(f) == IF Racing(f) THEN {members[f], registry[f], NoCard} ELSE {members[f]}
Survives(f) == IF Racing(f) THEN BOOLEAN ELSE {TRUE}

(* onNewIdCard starts.                                                     *)
HandlerStarts ==
    /\ gui = "idle" /\ posted > 0
    /\ posted' = posted - 1
    /\ gui' = "show"
    /\ step' = 1
    /\ UNCHANGED <<serviceVars, readerVars, shown, passed, accepted, event, alive>>

(* It reads the members it shows, one after the other.                     *)
HandlerShows ==
    /\ gui = "show"
    /\ \E value \in Readable(ShowOrder[step]) :
          shown' = [shown EXCEPT ![ShowOrder[step]] = value]
    /\ alive' \in Survives(ShowOrder[step])
    /\ IF step = Len(ShowOrder)
       THEN gui' = "pass" /\ step' = 1
       ELSE step' = step + 1 /\ UNCHANGED gui
    /\ UNCHANGED <<serviceVars, readerVars, passed, accepted, event, posted>>

(* It reads all of them again and, with the last one, calls                *)
(* camera.recognize.                                                       *)
HandlerPasses ==
    /\ gui = "pass"
    /\ \E value \in Readable(PassOrder[step]) :
          passed' = [passed EXCEPT ![PassOrder[step]] = value]
    /\ alive' \in Survives(PassOrder[step])
    /\ IF step = Len(PassOrder)
       THEN gui' = "idle" /\ step' = 1 /\ accepted' = passed'
       ELSE step' = step + 1 /\ UNCHANGED <<gui, accepted>>
    /\ UNCHANGED <<serviceVars, readerVars, shown, event, posted>>

(* The window is closed: the destructor interrupts the thread ...          *)
Interrupt ==
    /\ alive /\ gui = "idle"
    /\ gui' = "joining"
    /\ UNCHANGED <<serviceVars, readerVars, step, shown, passed, accepted, event, posted, alive>>

(* ... waits for it and closes the event.                                  *)
Join ==
    /\ gui = "joining" /\ reader = "done"
    /\ gui' = "closed"
    /\ UNCHANGED <<serviceVars, readerVars, step, shown, passed, accepted, event, posted, alive>>

GuiThread == alive /\ (HandlerStarts \/ HandlerShows \/ HandlerPasses \/ Join)

Service == (\E card \in Cards : Present(card)) \/ (\E f \in Fields : WriteValue(f))
           \/ Notify \/ NotifyAgain

Ended == (gui = "closed" \/ ~alive) /\ UNCHANGED cardVars

ReaderNext == Service \/ ReaderThread \/ GuiThread \/ Interrupt \/ Ended

(* Both threads are scheduled and a presentation that began is completed;  *)
(* nobody has to present a card or to close the window.                    *)
ReaderFairness ==
    /\ WF_cardVars(ReaderThread)
    /\ WF_cardVars(GuiThread)
    /\ WF_cardVars((\E f \in Fields : WriteValue(f)) \/ Notify)

ReaderSpec == ReaderInit /\ [][ReaderNext]_cardVars
ReaderFairSpec == ReaderSpec /\ ReaderFairness

-----------------------------------------------------------------------------
ShownFields == {ShowOrder[i] : i \in DOMAIN ShowOrder}
Open == alive /\ gui \notin {"joining", "closed"}

(* The handler shows and passes on this card and nothing of another.       *)
Handled(card) ==
    /\ accepted = Whole(card)
    /\ \A f \in ShownFields : shown[f] = card

(* As long as the service waits for one card's end before it presents the  *)
(* next, a session is never opened with values of two cards, and the card  *)
(* on the screen is the one being verified.                                *)
CardWhole ==
    Open /\ ~overlap /\ gui = "idle" => \E card \in Values : Handled(card)

(* The members are unlocked, but the handler reads one that is being       *)
(* assigned only if the service did not wait.                              *)
DiesOnlyOfOverlap == ~alive => overlap

(* Even a service that does not wait loses no last card: when everything   *)
(* has come to rest, the card on the screen and under verification is the  *)
(* one presented last, and whole.  A card presented while the last one is  *)
(* read sets the event again, because run() resets it before it reads.     *)
NothingLost ==
    Open /\ Settled /\ service = NoCard /\ latest # NoCard /\ ~openFailed => Handled(latest)

(* The last card does arrive, without another signal.                      *)
LatestCardArrives ==
    \A card \in Cards :
        service = NoCard /\ latest = card
            ~> Handled(card) \/ service # NoCard \/ latest # card \/ openFailed \/ ~Open

(* Closing the window ends the reader thread, whatever it was doing.       *)
ShutdownCompletes == gui = "joining" ~> gui = "closed"
=============================================================================
