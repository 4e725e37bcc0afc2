---------------------------- MODULE UsbPresence ----------------------------
(***************************************************************************)
(* What the ESPHome component knows of its host and shows in Home Assistant *)
(* (src/esphome/components/usb_hid_wakeup/usb_hid_wakeup.cpp): setup(), the *)
(* suspend and resume callbacks, the publishing part of loop(), and the     *)
(* wakeup button.                                                           *)
(*                                                                         *)
(* loop() reads tud_mounted() and then s_suspended, which the TinyUSB task  *)
(* may change in between: ReadMounted and Publish are separate steps.       *)
(* mounted and suspended are the bus as the stack knows it, flag is the     *)
(* component's s_suspended.  wasAwake is history: the host has been awake   *)
(* since the pass of loop() read tud_mounted().                             *)
(***************************************************************************)
VARIABLES
    setup,          \* "pending", "started" (tinyusb_started_) or "failed"
    mounted,        \* tud_mounted()
    suspended,      \* the bus is suspended
    armed,          \* the host has enabled remote wakeup
    flag,           \* s_suspended
    signal,         \* remote-wakeup signalling towards a sleeping host
    reading,        \* loop() is between its two reads
    seenMounted,    \* the local variable mounted of loop()
    published,      \* initial_published_
    last,           \* last_mounted_ .. last_status_
    shown,          \* the four sensors as Home Assistant has them
    wasAwake        \* history

bus == <<mounted, suspended, armed, flag, signal>>
pass == <<reading, seenMounted, published, last, shown>>
vars == <<setup, bus, pass, wasAwake>>

\* Home Assistant's view before the first publication.
Unknown == [mounted |-> "unknown", suspended |-> "unknown", awake |-> "unknown",
            status |-> "unknown"]

\* What the component starts from: three times false, and nullptr.
Unset == [mounted |-> "off", suspended |-> "off", awake |-> "off", status |-> "nullptr"]

Awake == mounted /\ ~suspended

-----------------------------------------------------------------------------
\* What one pass of loop() makes of its two reads.

StatusOf(m, s) == CASE ~m      -> "Debranche"
                    [] m /\ s  -> "Veille ou eteint"
                    [] m /\ ~s -> "Allume"

AsOnOff(b) == IF b THEN "on" ELSE "off"
Current(m, s) == [mounted |-> AsOnOff(m), suspended |-> AsOnOff(s),
                  awake |-> AsOnOff(m /\ ~s), status |-> StatusOf(m, s)]

\* Change detection: each sensor whose value differs from the last one is published.
Changed(m, s) == [f \in DOMAIN shown |->
                    IF Current(m, s)[f] # last[f] THEN Current(m, s)[f] ELSE shown[f]]

\* Mutant: the first pass relies on change detection.
FirstPublish_Changed(m, s) == Changed(m, s)

\* The first pass publishes every sensor, changed or not.
FirstPublish(m, s) == Current(m, s)

-----------------------------------------------------------------------------
Init == /\ setup = "pending"
        /\ mounted = FALSE
        /\ suspended = FALSE
        /\ armed = FALSE
        /\ flag = FALSE
        /\ signal = FALSE
        /\ reading = FALSE
        /\ seenMounted = FALSE
        /\ published = FALSE
        /\ last = Unset
        /\ shown = Unknown
        /\ wasAwake = FALSE

\* setup(): tinyusb_driver_install succeeds, or the component is marked failed
\* and does nothing any more.
Setup == /\ setup = "pending"
         /\ setup' \in {"started", "failed"}
         /\ UNCHANGED <<bus, pass, wasAwake>>

\* loop(), first read.
ReadMounted == /\ setup = "started"
               /\ ~reading
               /\ reading' = TRUE
               /\ seenMounted' = mounted
               /\ wasAwake' = Awake
               /\ UNCHANGED <<setup, bus, published, last, shown>>

\* loop(), second read and publishing.
Publish == /\ reading
           /\ reading' = FALSE
           /\ published' = TRUE
           /\ last' = Current(seenMounted, flag)
           /\ shown' = IF published THEN Changed(seenMounted, flag)
                                    ELSE FirstPublish(seenMounted, flag)
           /\ UNCHANGED <<setup, bus, seenMounted, wasAwake>>

\* The wakeup button: request_wakeup().  Without a mounted host the press is
\* ignored; tud_remote_wakeup() signals only a sleeping host that allows it.
Wakeup == /\ setup = "started"
          /\ ~reading
          /\ mounted
          /\ signal' = (signal \/ (suspended /\ armed))
          /\ UNCHANGED <<setup, mounted, suspended, armed, flag, pass, wasAwake>>

-----------------------------------------------------------------------------
\* The host, as the TinyUSB task sees it.

Mount == /\ setup = "started"
         /\ ~mounted
         /\ mounted' = TRUE
         /\ wasAwake' = TRUE
         /\ UNCHANGED <<setup, suspended, armed, flag, signal, pass>>

\* Mutant: tud_suspend_cb leaves s_suspended alone.
SuspendFlag_Keep == flag

\* tud_suspend_cb
SuspendFlag == TRUE

Suspend == /\ mounted
           /\ ~suspended
           /\ suspended' = TRUE
           /\ armed' \in BOOLEAN
           /\ flag' = SuspendFlag
           /\ UNCHANGED <<setup, mounted, signal, pass, wasAwake>>

\* tud_resume_cb; the host was woken by the signal or by itself.
Resume == /\ mounted
          /\ suspended
          /\ suspended' = FALSE
          /\ flag' = FALSE
          /\ signal' = FALSE
          /\ wasAwake' = TRUE
          /\ UNCHANGED <<setup, mounted, armed, pass>>

\* Unplugged, or reset by the host: the stack leaves the suspended state
\* without calling tud_resume_cb.
Unmount == /\ mounted
           /\ mounted' = FALSE
           /\ suspended' = FALSE
           /\ armed' = FALSE
           /\ signal' = FALSE
           /\ UNCHANGED <<setup, flag, pass, wasAwake>>

Next == \/ Setup \/ ReadMounted \/ Publish \/ Wakeup
        \/ Mount \/ Suspend \/ Resume \/ Unmount

Spec == Init /\ [][Next]_vars

\* loop() is called for ever.
FairSpec == Spec /\ WF_vars(ReadMounted) /\ WF_vars(Publish)

-----------------------------------------------------------------------------
\* However the bus moves between the two reads of loop(), the PC is shown as
\* usable only if it has been awake during that very pass.
AwakeShownWasAwake == [][ reading /\ ~reading' /\ shown'.awake = "on" => wasAwake ]_vars

\* Once the bus is quiet, all four sensors in Home Assistant come to agree with the
\* two facts the component keeps, also if neither has ever changed since boot: a
\* sensor that starts unknown is published although its last_* is already right.
CatchesUpWith(m, s) ==
    <>[](setup = "started" /\ mounted = m /\ flag = s) => <>[](shown = Current(m, s))

ShownCatchesUp == \A m, s \in BOOLEAN : CatchesUpWith(m, s)

\* loop() can always take the step it is at.
LoopPossible == /\ setup = "started" /\ ~reading => ENABLED <<ReadMounted>>_vars
                /\ reading => ENABLED <<Publish>>_vars

\* "enumerated + active -> Allume (PC on)" (usb_hid_wakeup.cpp:286): a host that
\* stays enumerated and active is eventually shown so.
ActiveHostShownOn ==
    <>[](setup = "started" /\ Awake) => <>[](shown.status = "Allume")
=============================================================================
