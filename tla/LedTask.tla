------------------------------ MODULE LedTask ------------------------------
(***************************************************************************)
(* The LED of the native firmware (src/native-firmware/main/led.c): a queue *)
(* of QueueLen events and the task that drains it.  Any task may send; a    *)
(* sender waits for as long as the queue is full (portMAX_DELAY).           *)
(*                                                                         *)
(* notifyMode is CONFIG_ESP_WAKEUP_KEYPRESS_LED_NOTIFY_MODE: which of the   *)
(* two builds the device runs, chosen initially and never changed.  In the  *)
(* notify build the task blinks Blinks times (30 in the code, 200 ms each)  *)
(* for an event that finds the keypress light on, and receives nothing      *)
(* meanwhile.                                                               *)
(***************************************************************************)
EXTENDS Naturals, Sequences

CONSTANTS QueueLen,     \* xQueueCreate(5, ...)
          Blinks        \* 30

ASSUME LedAssumption == /\ QueueLen \in Nat \ {0}
                        /\ Blinks \in Nat \ {0}

VARIABLES notifyMode,   \* the build: rigid
          ledQueue,     \* led_queue
          keypressOn,   \* keypress_on
          wifiDown,     \* wifi_disconnected
          lit,          \* the colour the LED shows
          blinksLeft    \* rounds left of the notify-mode loop

ledVars == <<notifyMode, ledQueue, keypressOn, wifiDown, lit, blinksLeft>>

LedEvent == {"wifi_connected", "wifi_disconnected", "keypress_on", "keypress_off"}
Colour == {"dark", "red", "green", "blue", "white"}

\* led_init sends the first event.
LedInit == /\ notifyMode \in BOOLEAN
           /\ ledQueue = <<"wifi_disconnected">>
           /\ keypressOn = FALSE
           /\ wifiDown = FALSE
           /\ lit = "dark"
           /\ blinksLeft = 0

\* Mutant: a sender does not wait for room in the queue.
LedSend_NoWait(e) == /\ ledQueue' = Append(ledQueue, e)
                     /\ UNCHANGED <<notifyMode, keypressOn, wifiDown, lit, blinksLeft>>

\* led_handle_*: xQueueSend with no time-out.
LedSend(e) == /\ Len(ledQueue) < QueueLen
              /\ ledQueue' = Append(ledQueue, e)
              /\ UNCHANGED <<notifyMode, keypressOn, wifiDown, lit, blinksLeft>>

\* The colour at rest for the two flags of the task.
RestColour(down, pressed) ==
    IF down THEN "red"
    ELSE IF pressed THEN "blue"
    ELSE IF notifyMode THEN "dark" ELSE "green"

\* xQueueReceive and the switch on the event.
LedReceive ==
    /\ blinksLeft = 0
    /\ UNCHANGED notifyMode
    /\ ledQueue # <<>>
    /\ ledQueue' = Tail(ledQueue)
    /\ LET e == Head(ledQueue) IN
       /\ wifiDown' = (e = "wifi_disconnected" \/ (wifiDown /\ e # "wifi_connected"))
       /\ keypressOn' = (e = "keypress_on" \/ (keypressOn /\ e # "keypress_off"))
    /\ IF notifyMode /\ ~wifiDown' /\ keypressOn'
       THEN blinksLeft' = Blinks /\ UNCHANGED lit
       ELSE lit' = RestColour(wifiDown', keypressOn') /\ UNCHANGED blinksLeft

\* One round of the notify-mode loop: dark, then white.
LedBlink == /\ blinksLeft > 0
            /\ blinksLeft' = blinksLeft - 1
            /\ lit' = "white"
            /\ UNCHANGED <<notifyMode, ledQueue, keypressOn, wifiDown>>

LedStep == LedReceive \/ LedBlink

LedTypeOK == /\ notifyMode \in BOOLEAN
             /\ ledQueue \in Seq(LedEvent)
             /\ Len(ledQueue) <= QueueLen
             /\ keypressOn \in BOOLEAN
             /\ wifiDown \in BOOLEAN
             /\ lit \in Colour
             /\ blinksLeft \in 0 .. Blinks
=============================================================================
