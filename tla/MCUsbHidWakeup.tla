--------------------------- MODULE MCUsbHidWakeup ---------------------------
(***************************************************************************)
(* One component, UsbHidWakeupComponent, is both what the host is shown as  *)
(* (UsbPresence) and what is typed into it (KeyboardLayout); here the two   *)
(* run together.  A text is typed by a button press, in the main loop: not  *)
(* between the two reads of loop(), and, as ready_for_sequence_() asks,     *)
(* only begun with a driver that is started and a host that is mounted.     *)
(* Later characters are typed whatever the bus does.                        *)
(***************************************************************************)
EXTENDS KeyboardLayout

VARIABLES setup, mounted, suspended, armed, flag, signal, reading, seenMounted,
          published, last, shown, wasAwake

Presence == INSTANCE UsbPresence

presenceVars == <<setup, mounted, suspended, armed, flag, signal, reading, seenMounted,
                  published, last, shown, wasAwake>>
componentVars == <<vars, presenceVars>>

ComponentInit == Init /\ Presence!Init

ReadyForSequence == setup = "started" /\ mounted

Type == /\ ~reading
        /\ next = 1 => ReadyForSequence
        /\ Next
        /\ UNCHANGED presenceVars

Show == Presence!Next /\ UNCHANGED vars

ComponentNext == Type \/ Show

\* loop() is called for ever.
ComponentSpec ==
    /\ ComponentInit /\ [][ComponentNext]_componentVars
    /\ WF_componentVars(Presence!ReadMounted /\ UNCHANGED vars)
    /\ WF_componentVars(Presence!Publish /\ UNCHANGED vars)

\* However the bus moves between the two reads of loop(), the PC is shown as usable
\* only if it has been awake during that pass (AwakeShownWasAwake of UsbPresence).
AwakeShownWasAwake == Presence!AwakeShownWasAwake

\* Once the bus is quiet, all four sensors come to agree with what the component
\* keeps, also if it has never changed since boot (ShownCatchesUp of UsbPresence).
ShownCatchesUp == Presence!ShownCatchesUp

-----------------------------------------------------------------------------
\* The texts: each character by itself, mapped and unmapped, every two of some of
\* them, and the shutdown command.

ShutdownText == <<"s","h","u","t","d","o","w","n"," ","/","s"," ","/","f",
                  " ","/","t"," ","0">>

Alphabet == Mapped \union {"A", ":", "\\"}
Some == {"a", "q", "m", "1", "/", "-", "A"}

MCTexts == {ShutdownText} \union {<<a>> : a \in Alphabet}
                          \union {<<a, b>> : a \in Some, b \in Some}
=============================================================================
