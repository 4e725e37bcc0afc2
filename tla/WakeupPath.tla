----------------------------- MODULE WakeupPath -----------------------------
(***************************************************************************)
(* From a wakeup request to the USB remote-wakeup signal in the native      *)
(* firmware (src/native-firmware/main: usb.c, gpio.c, led.c and the boot    *)
(* order of main.c; the wakeup counter is in MqttClient).                   *)
(*                                                                         *)
(* Requests come from the HTTP server and the MQTT client (tasks, which set *)
(* the event bit themselves) and from the button (an interrupt, which asks  *)
(* the FreeRTOS timer daemon to set the bit for it).  usb_task waits for    *)
(* the bit, sends the signal, and shows it on the LED, whose queue it       *)
(* shares with the Wi-Fi event handlers.                                    *)
(*                                                                         *)
(* owed and lastWifi are history.  owed: the requesters whose request no    *)
(* decision of usb_task (signal, or "not mounted") has followed yet, since  *)
(* the device last started: what was owed is lost with a crash at boot.     *)
(***************************************************************************)
EXTENDS LedTask, Integers

CONSTANTS Tasks,        \* requesters that are tasks: HTTP handlers, MQTT client
          TimerQueueLen \* CONFIG_FREERTOS_TIMER_QUEUE_LENGTH

ASSUME PathAssumption == /\ "button" \notin Tasks
                         /\ TimerQueueLen \in Nat \ {0}

VARIABLES
    boot,           \* how far app_main is
    group,          \* usb_event_group has been created
    bit,            \* USB_EVENT_KEYPRESS
    timerQueue,     \* pended calls of xEventGroupSetBits: TRUE with the group, FALSE with NULL
    usbPc,          \* where usb_task is
    wifiPc,         \* the LED event a Wi-Fi event handler is sending, or "none"
    mounted,        \* tud_mounted()
    asleep,         \* the host is suspended and has enabled remote wakeup
    owed,           \* history
    lastWifi        \* history: the last Wi-Fi event sent to the LED

requestVars == <<bit, timerQueue>>
hostVars == <<mounted, asleep>>
vars == <<ledVars, boot, group, bit, timerQueue, usbPc, wifiPc, mounted, asleep,
          owed, lastWifi>>

Requesters == Tasks \union {"button"}

\* app_main has run led_init; nothing else is set up.
Init == /\ LedInit
        /\ boot = "leds"
        /\ group = FALSE
        /\ bit = FALSE
        /\ timerQueue = <<>>
        /\ usbPc = "wait"
        /\ wifiPc = "none"
        /\ mounted = FALSE
        /\ asleep = FALSE
        /\ owed = {}
        /\ lastWifi = "wifi_disconnected"

-----------------------------------------------------------------------------
\* app_main: gpio_init, then usb_init.

\* Mutant: the interrupt is for the level of the button at rest, not for an edge.
EnableInterrupt_Level == timerQueue' = Append(timerQueue, group)

\* GPIO_INTR_POSEDGE: the interrupt waits for a press.
EnableInterrupt == timerQueue' = timerQueue

GpioInit == /\ boot = "leds"
            /\ boot' = "gpio"
            /\ EnableInterrupt
            /\ UNCHANGED <<ledVars, group, bit, usbPc, wifiPc, hostVars, owed, lastWifi>>

\* usb_init: the event group ...
CreateGroup == /\ boot = "gpio"
               /\ ~group
               /\ group' = TRUE
               /\ UNCHANGED <<ledVars, boot, requestVars, usbPc, wifiPc, hostVars,
                              owed, lastWifi>>

\* ... and, after the driver, usb_task; wifi_init, httpd_init, mqtt_init follow.
StartTasks == /\ boot = "gpio"
              /\ group
              /\ boot' = "up"
              /\ UNCHANGED <<ledVars, group, requestVars, usbPc, wifiPc, hostVars,
                             owed, lastWifi>>

-----------------------------------------------------------------------------
\* Requests: usb_request_keypress_send.

\* gpio_isr_handler.  A full timer queue refuses the call, and nobody looks.
Button == /\ boot # "leds"
          /\ owed' = owed \union {"button"}
          /\ timerQueue' = IF Len(timerQueue) < TimerQueueLen
                           THEN Append(timerQueue, group) ELSE timerQueue
          /\ UNCHANGED <<ledVars, boot, group, bit, usbPc, wifiPc, hostVars,
                         lastWifi>>

\* The timer daemon sets the bit of a group that exists.
TimerDaemon == /\ timerQueue # <<>>
               /\ Head(timerQueue)
               /\ bit' = TRUE
               /\ timerQueue' = Tail(timerQueue)
               /\ UNCHANGED <<ledVars, boot, group, usbPc, wifiPc, hostVars,
                              owed, lastWifi>>

\* xEventGroupSetBits(NULL) asserts: the device restarts, the host sees the
\* keyboard go, and the presses and requests still owed are lost.
Panic == /\ timerQueue # <<>>
         /\ ~Head(timerQueue)
         /\ notifyMode' = notifyMode
         /\ ledQueue' = <<"wifi_disconnected">>
         /\ keypressOn' = FALSE /\ wifiDown' = FALSE /\ lit' = "dark" /\ blinksLeft' = 0
         /\ boot' = "leds" /\ group' = FALSE
         /\ bit' = FALSE /\ timerQueue' = <<>>
         /\ usbPc' = "wait" /\ wifiPc' = "none"
         /\ mounted' = FALSE /\ asleep' = FALSE
         /\ owed' = {} /\ lastWifi' = "wifi_disconnected"

\* An HTTP handler or the MQTT event handler.
Request(t) == /\ boot = "up"
              /\ bit' = TRUE
              /\ owed' = owed \union {t}
              /\ UNCHANGED <<ledVars, boot, group, timerQueue, usbPc, wifiPc, hostVars,
                             lastWifi>>

-----------------------------------------------------------------------------
\* usb_task.

UsbUnchanged == UNCHANGED <<boot, group, timerQueue, wifiPc, lastWifi>>

\* xEventGroupWaitBits(..., xClearOnExit = pdTRUE, ...)
UsbWait == /\ boot = "up"
           /\ usbPc = "wait"
           /\ bit
           /\ bit' = FALSE
           /\ usbPc' = "clear"
           /\ UNCHANGED <<ledVars, hostVars, owed>> /\ UsbUnchanged

\* The second clearing, which may swallow a request made since: the signal
\* still to come answers it.
UsbClear == /\ usbPc = "clear"
            /\ bit' = FALSE
            /\ usbPc' = IF notifyMode THEN "led_on" ELSE "check"
            /\ UNCHANGED <<ledVars, hostVars, owed>> /\ UsbUnchanged

\* tud_mounted(), left out of the notify-mode build.
UsbCheck == /\ usbPc = "check"
            /\ usbPc' = IF mounted THEN "led_on" ELSE "wait"
            /\ owed' = IF mounted THEN owed ELSE {}
            /\ UNCHANGED <<ledVars, bit, hostVars>> /\ UsbUnchanged

UsbLedOn == /\ usbPc = "led_on"
            /\ LedSend("keypress_on")
            /\ usbPc' = "signal"
            /\ UNCHANGED <<bit, hostVars, owed>> /\ UsbUnchanged

\* tud_remote_wakeup(): wakes a host that sleeps and allows it.
UsbSignal == /\ usbPc = "signal"
             /\ usbPc' = "notify"
             /\ asleep' = FALSE
             /\ owed' = {}
             /\ UNCHANGED <<ledVars, bit, mounted>> /\ UsbUnchanged

\* mqtt_notify_wakeup(), which changes nothing here.
UsbNotify == /\ usbPc = "notify"
             /\ usbPc' = "led_off"
             /\ UNCHANGED <<ledVars, bit, hostVars, owed>> /\ UsbUnchanged

\* Mutant: the task does not send the second LED event.
AfterNotify_NoLedOff == UNCHANGED ledVars

\* led_handle_keypress_off()
AfterNotify == LedSend("keypress_off")

\* Mutant: the bit is cleared when the request has been served, not before.
AfterDelay_Clear == bit' = FALSE

\* Nothing is left to do about the bit.
AfterDelay == bit' = bit

\* After the delay of 50 ms.
UsbLedOff == /\ usbPc = "led_off"
             /\ AfterNotify
             /\ AfterDelay
             /\ usbPc' = "wait"
             /\ UNCHANGED <<hostVars, owed>> /\ UsbUnchanged

UsbStep == \/ UsbWait \/ UsbClear \/ UsbCheck \/ UsbLedOn \/ UsbSignal \/ UsbNotify
           \/ UsbLedOff

-----------------------------------------------------------------------------
\* The rest of the device and the host.

\* A Wi-Fi event handler enters led_handle_wifi_* ...
WifiEvent == /\ boot = "up"
             /\ wifiPc = "none"
             /\ wifiPc' \in {"wifi_connected", "wifi_disconnected"}
             /\ UNCHANGED <<ledVars, boot, group, requestVars, usbPc, hostVars,
                            owed, lastWifi>>

\* ... and holds up the system event loop until the queue has room.
WifiLed == /\ wifiPc # "none"
           /\ LedSend(wifiPc)
           /\ lastWifi' = wifiPc
           /\ wifiPc' = "none"
           /\ UNCHANGED <<boot, group, requestVars, usbPc, hostVars, owed>>

Led == /\ LedStep
       /\ UNCHANGED <<boot, group, requestVars, usbPc, wifiPc, hostVars, owed, lastWifi>>

\* The host mounts, unmounts, falls asleep, wakes.
Host == /\ boot = "up"
        /\ mounted' \in BOOLEAN
        /\ asleep' \in {FALSE, mounted'}
        /\ hostVars' # hostVars
        /\ UNCHANGED <<ledVars, boot, group, requestVars, usbPc, wifiPc, owed, lastWifi>>

SomeRequest == Button \/ \E t \in Tasks : Request(t)

Next == \/ GpioInit \/ CreateGroup \/ StartTasks
        \/ SomeRequest \/ TimerDaemon \/ Panic
        \/ UsbStep \/ WifiEvent \/ WifiLed \/ Led \/ Host

Spec == Init /\ [][Next]_vars

\* Every task that can run, runs: FreeRTOS schedules by priority, and no task of
\* a higher priority runs without blocking.
Fairness == /\ WF_vars(GpioInit) /\ WF_vars(CreateGroup) /\ WF_vars(StartTasks)
            /\ WF_vars(TimerDaemon) /\ WF_vars(Panic)
            /\ WF_vars(UsbStep)
            /\ WF_vars(WifiLed)
            /\ WF_vars(Led)

FairSpec == Spec /\ Fairness

-----------------------------------------------------------------------------
TypeOK == /\ LedTypeOK
          /\ boot \in {"leds", "gpio", "up"}
          /\ group \in BOOLEAN
          /\ boot = "leds" => ~group
          /\ boot = "up" => group
          /\ bit \in BOOLEAN
          /\ timerQueue \in Seq(BOOLEAN)
          /\ Len(timerQueue) <= TimerQueueLen
          /\ usbPc \in {"wait", "clear", "check", "led_on", "signal", "notify", "led_off"}
          /\ usbPc # "wait" => boot = "up"
          /\ wifiPc \in {"none", "wifi_connected", "wifi_disconnected"}
          /\ mounted \in BOOLEAN
          /\ asleep \in BOOLEAN
          /\ asleep => mounted
          /\ owed \subseteq Requesters
          /\ lastWifi \in {"wifi_connected", "wifi_disconnected"}

\* usb_task has taken the bit and not yet decided what to do about it.
Deciding == usbPc \in {"clear", "check", "led_on", "signal"}

\* No request is lost while the device runs: as long as one is unanswered, the bit
\* is set, or a call for it is pended, or usb_task is on its way to the decision.
\* It holds although requests coalesce in one bit, the bit is cleared twice, and a
\* full timer queue refuses the button's call.  (A call pended before the event
\* group exists crashes the device, and what it owes is lost; see CallsGood.)
NoLostRequest == owed # {} => bit \/ timerQueue # <<>> \/ Deciding

\* Once usb_task waits again and the LED queue is drained, the LED shows the
\* network's last event, whichever way the events of the two senders mixed.
LedSettles ==
    boot = "up" /\ usbPc = "wait" /\ ledQueue = <<>> /\ blinksLeft = 0
    => lit = RestColour(lastWifi = "wifi_disconnected", FALSE)

\* The inductive invariant of LedSettles, in parts.

WifiLedEvent == {"wifi_connected", "wifi_disconnected"}
KeypressLedEvent == {"keypress_on", "keypress_off"}

\* Of the events of one sender that wait in queue q, the last one is last; with
\* none waiting, the task has received it.
LastWaiting(q, events, last, received) ==
    IF \E i \in DOMAIN q : q[i] \in events
    THEN \E i \in DOMAIN q : /\ q[i] = last
                            /\ \A j \in DOMAIN q : q[j] \in events => j <= i
    ELSE received

LedFollowsWifi ==
    LastWaiting(ledQueue, WifiLedEvent, lastWifi, wifiDown = (lastWifi = "wifi_disconnected"))

LastKeypress == IF usbPc \in {"signal", "notify", "led_off"} THEN "keypress_on" ELSE "keypress_off"

LedFollowsUsb ==
    LastWaiting(ledQueue, KeypressLedEvent, LastKeypress, keypressOn = (LastKeypress = "keypress_on"))

\* What the LED shows at rest is what the two flags say.
LedShows == /\ blinksLeft > 0 => keypressOn
            /\ ledQueue # <<>> \/ keypressOn \/ lit = RestColour(wifiDown, FALSE)

LedInv == LedFollowsWifi /\ LedFollowsUsb /\ LedShows

\* The event group exists, and every pended call is for it: no crash is ahead.
CallsGood == group /\ \A i \in DOMAIN timerQueue : timerQueue[i]

\* If the network is quiet from some time on, every request that no crash at boot is
\* ahead of is answered by a decision: the full LED queue and the blinking only
\* delay it, and no crash comes up later.
RequestsAnswered ==
    <>[][~WifiEvent]_vars =>
        \A r \in Requesters : r \in owed /\ CallsGood ~> r \notin owed /\ CallsGood

\* A press while the event group does not exist restarts the device, but the restart
\* does not repeat itself: once the button is left alone, the device comes up.
BootSettles == <>[][~Button]_vars => <>[](boot = "up")

\* The steps that fairness drives are possible in the states they are wanted in.
Room == Len(ledQueue) < QueueLen

PathPossible ==
    /\ boot = "leds" => ENABLED <<GpioInit>>_vars
    /\ boot = "gpio" /\ ~group => ENABLED <<CreateGroup>>_vars
    /\ boot = "gpio" /\ group => ENABLED <<StartTasks>>_vars
    /\ timerQueue # <<>> /\ Head(timerQueue) => ENABLED <<TimerDaemon>>_vars
    /\ timerQueue # <<>> /\ ~Head(timerQueue) => ENABLED <<Panic>>_vars
    /\ boot = "up" /\ usbPc = "wait" /\ bit => ENABLED <<UsbStep>>_vars
    /\ usbPc \in {"clear", "check", "signal", "notify"} => ENABLED <<UsbStep>>_vars
    /\ usbPc \in {"led_on", "led_off"} /\ Room => ENABLED <<UsbStep>>_vars
    /\ ledQueue # <<>> => ENABLED <<Led>>_vars
=============================================================================
