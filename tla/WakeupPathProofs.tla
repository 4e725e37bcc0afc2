-------------------------- MODULE WakeupPathProofs --------------------------
(***************************************************************************)
(* Proofs about the wakeup path, for any number of requesting tasks, any    *)
(* queue lengths and both builds of the LED.                                *)
(***************************************************************************)
EXTENDS WakeupPath, SequenceTheorems, TLAPS

LEMMA InitTypeOK == Init => TypeOK
<1> SUFFICES ASSUME Init PROVE TypeOK
  OBVIOUS
<1>1. LedTypeOK
  <2>1. /\ ledQueue = <<"wifi_disconnected">> /\ "wifi_disconnected" \in LedEvent
        /\ Len(<<"wifi_disconnected">>) = 1
    BY DEF Init, LedInit, LedEvent
  <2>2. ledQueue \in Seq(LedEvent) /\ Len(ledQueue) <= QueueLen
    BY <2>1, LedAssumption
  <2>3. keypressOn \in BOOLEAN /\ wifiDown \in BOOLEAN /\ lit \in Colour /\ notifyMode \in BOOLEAN
    BY Zenon DEF Init, LedInit, Colour
  <2>4. blinksLeft \in 0 .. Blinks
    BY LedAssumption DEF Init, LedInit
  <2> QED
    BY <2>2, <2>3, <2>4, Zenon DEF LedTypeOK
<1>2. timerQueue \in Seq(BOOLEAN) /\ Len(timerQueue) <= TimerQueueLen
  <2>1. timerQueue = <<>> /\ <<>> \in Seq(BOOLEAN) /\ Len(<<>>) = 0
    BY DEF Init
  <2> QED
    BY <2>1, PathAssumption
<1> QED
  BY <1>1, <1>2 DEF Init, TypeOK, Requesters

\* A sender leaves the LED well formed ...
LEMMA LedSendType ==
  ASSUME LedTypeOK, NEW e \in LedEvent, LedSend(e)
  PROVE  LedTypeOK'
<1>1. ledQueue' \in Seq(LedEvent) /\ Len(ledQueue') = Len(ledQueue) + 1
  BY AppendProperties DEF LedTypeOK, LedSend
<1>2. Len(ledQueue') <= QueueLen
  BY <1>1, LenProperties, LedAssumption DEF LedTypeOK, LedSend
<1> QED
  BY <1>1, <1>2 DEF LedTypeOK, LedSend

\* ... and so does the task.
LEMMA LedStepType ==
  ASSUME LedTypeOK, LedStep
  PROVE  LedTypeOK'
<1>1. CASE LedReceive
  <2>1. ledQueue' \in Seq(LedEvent) /\ Len(ledQueue') <= QueueLen
    <3>1. ledQueue # <<>> /\ ledQueue' = Tail(ledQueue)
      BY <1>1 DEF LedReceive
    <3>2. Tail(ledQueue) \in Seq(LedEvent) /\ Len(Tail(ledQueue)) = Len(ledQueue) - 1
      BY <3>1, HeadTailProperties DEF LedTypeOK
    <3> QED
      BY <3>1, <3>2, LenProperties, LedAssumption DEF LedTypeOK
  <2>2. wifiDown' \in BOOLEAN /\ keypressOn' \in BOOLEAN
    BY <1>1, Zenon DEF LedReceive
  <2>3. RestColour(wifiDown', keypressOn') \in Colour
    BY <2>2 DEF RestColour, Colour
  <2>4. lit' \in Colour /\ blinksLeft' \in 0 .. Blinks /\ notifyMode' \in BOOLEAN
    BY <1>1, <2>3, LedAssumption DEF LedReceive, LedTypeOK
  <2> QED
    BY <2>1, <2>2, <2>4 DEF LedTypeOK
<1>2. CASE LedBlink
  BY <1>2, LedAssumption DEF LedBlink, LedTypeOK, Colour
<1> QED
  BY <1>1, <1>2 DEF LedStep

LEMMA SameLedType ==
  ASSUME LedTypeOK, UNCHANGED ledVars
  PROVE  LedTypeOK'
  BY DEF LedTypeOK, ledVars

\* The queue of the timer daemon is well formed, and not empty after a button
\* press, refused or not.
LEMMA ButtonQueue ==
  ASSUME TypeOK, Button
  PROVE  timerQueue' \in Seq(BOOLEAN) /\ Len(timerQueue') <= TimerQueueLen
         /\ timerQueue' # <<>>
<1>1. /\ timerQueue \in Seq(BOOLEAN) /\ Len(timerQueue) \in Nat /\ group \in BOOLEAN
      /\ Len(timerQueue) <= TimerQueueLen
  BY LenProperties DEF TypeOK
<1>2. CASE Len(timerQueue) < TimerQueueLen
  <2>1. timerQueue' = Append(timerQueue, group)
    BY <1>2 DEF Button
  <2>2. /\ Append(timerQueue, group) \in Seq(BOOLEAN)
        /\ Len(Append(timerQueue, group)) = Len(timerQueue) + 1
        /\ Append(timerQueue, group) # <<>>
    BY <1>1, AppendProperties
  <2> QED
    BY <1>1, <1>2, <2>1, <2>2, PathAssumption
<1>3. CASE ~(Len(timerQueue) < TimerQueueLen)
  <2>1. timerQueue' = timerQueue /\ Len(timerQueue) # 0
    BY <1>1, <1>3, PathAssumption DEF Button
  <2> QED
    BY <1>1, <2>1, EmptySeq
<1> QED
  BY <1>2, <1>3

LEMMA TimerQueueTail ==
  ASSUME TypeOK, timerQueue # <<>>
  PROVE  Tail(timerQueue) \in Seq(BOOLEAN) /\ Len(Tail(timerQueue)) <= TimerQueueLen
<1>1. Tail(timerQueue) \in Seq(BOOLEAN) /\ Len(Tail(timerQueue)) = Len(timerQueue) - 1
  BY HeadTailProperties DEF TypeOK
<1> QED
  BY <1>1, LenProperties, PathAssumption DEF TypeOK

LEMMA NextTypeOK == TypeOK /\ [Next]_vars => TypeOK'
<1> SUFFICES ASSUME TypeOK, [Next]_vars PROVE TypeOK'
  OBVIOUS
<1>0. LedTypeOK
  BY DEF TypeOK
<1>1. CASE GpioInit \/ CreateGroup \/ StartTasks
  <2>1. LedTypeOK'
    BY <1>0, <1>1, SameLedType DEF GpioInit, EnableInterrupt, CreateGroup, StartTasks
  <2>2. CASE GpioInit
    BY <2>1, <2>2 DEF GpioInit, EnableInterrupt, requestVars, hostVars, TypeOK
  <2>3. CASE CreateGroup
    BY <2>1, <2>3 DEF CreateGroup, requestVars, hostVars, TypeOK
  <2>4. CASE StartTasks
    BY <2>1, <2>4 DEF StartTasks, requestVars, hostVars, TypeOK
  <2> QED
    BY <1>1, <2>2, <2>3, <2>4
<1>2. CASE Button
  <2>1. owed' \subseteq Requesters
    BY <1>2 DEF Button, TypeOK, Requesters
  <2> QED
    BY <1>0, <1>2, <2>1, ButtonQueue, SameLedType DEF Button, hostVars, TypeOK
<1>3. ASSUME NEW t \in Tasks, Request(t) PROVE TypeOK'
  <2>1. owed' \subseteq Requesters
    BY <1>3 DEF Request, TypeOK, Requesters
  <2> QED
    BY <1>0, <1>3, <2>1, SameLedType DEF Request, hostVars, TypeOK
<1>4. CASE TimerDaemon
  <2>1. LedTypeOK' /\ timerQueue' \in Seq(BOOLEAN) /\ Len(timerQueue') <= TimerQueueLen
    BY <1>0, <1>4, SameLedType, TimerQueueTail DEF TimerDaemon
  <2> QED
    BY <1>4, <2>1 DEF TimerDaemon, hostVars, TypeOK
<1>5. CASE Panic
  <2>1. ledQueue' \in Seq(LedEvent) /\ Len(ledQueue') <= QueueLen
    <3>1. /\ ledQueue' = <<"wifi_disconnected">> /\ "wifi_disconnected" \in LedEvent
          /\ Len(<<"wifi_disconnected">>) = 1
      BY <1>5 DEF Panic, LedEvent
    <3> QED
      BY <3>1, LedAssumption
  <2>2. keypressOn' \in BOOLEAN /\ wifiDown' \in BOOLEAN /\ lit' \in Colour /\ notifyMode' \in BOOLEAN
    BY <1>0, <1>5, Zenon DEF Panic, LedTypeOK, Colour
  <2>3. blinksLeft' \in 0 .. Blinks
    <3>1. blinksLeft' = 0
      BY <1>5, Zenon DEF Panic
    <3> QED
      BY <3>1, LedAssumption
  <2>4. LedTypeOK'
    BY <2>1, <2>2, <2>3, Zenon DEF LedTypeOK
  <2>5. timerQueue' \in Seq(BOOLEAN) /\ Len(timerQueue') <= TimerQueueLen
    <3>1. timerQueue' = <<>>
      BY <1>5, Zenon DEF Panic
    <3>2. <<>> \in Seq(BOOLEAN) /\ Len(<<>>) = 0
      OBVIOUS
    <3> QED
      BY <3>1, <3>2, PathAssumption
  <2> QED
    BY <1>5, <2>4, <2>5 DEF Panic, TypeOK
<1>6. CASE UsbStep
  <2>1. CASE UsbLedOn
    <3>1. LedTypeOK'
      BY <1>0, <2>1, LedSendType DEF UsbLedOn, LedEvent
    <3> QED
      BY <2>1, <3>1 DEF UsbLedOn, UsbUnchanged, hostVars, TypeOK
  <2>2. CASE UsbLedOff
    <3>1. LedTypeOK'
      BY <1>0, <2>2, LedSendType DEF UsbLedOff, AfterNotify, LedEvent
    <3> QED
      BY <2>2, <3>1 DEF UsbLedOff, AfterDelay, UsbUnchanged, hostVars, TypeOK
  <2>3. CASE UsbWait \/ UsbClear \/ UsbCheck
    <3>1. LedTypeOK'
      BY <1>0, <2>3, SameLedType DEF UsbWait, UsbClear, UsbCheck
    <3>2. CASE UsbWait
      BY <3>1, <3>2 DEF UsbWait, UsbUnchanged, hostVars, TypeOK
    <3>3. CASE UsbClear
      BY <3>1, <3>3 DEF UsbClear, UsbUnchanged, hostVars, TypeOK
    <3>4. CASE UsbCheck
      BY <3>1, <3>4 DEF UsbCheck, UsbUnchanged, hostVars, TypeOK
    <3> QED
      BY <2>3, <3>2, <3>3, <3>4
  <2>4. CASE UsbSignal
    <3>1. LedTypeOK'
      BY <1>0, <2>4, SameLedType DEF UsbSignal
    <3> QED
      BY <2>4, <3>1 DEF UsbSignal, UsbUnchanged, TypeOK
  <2>5. CASE UsbNotify
    <3>1. LedTypeOK'
      BY <1>0, <2>5, SameLedType DEF UsbNotify
    <3> QED
      BY <2>5, <3>1 DEF UsbNotify, UsbUnchanged, hostVars, TypeOK
  <2> QED
    BY <1>6, <2>1, <2>2, <2>3, <2>4, <2>5 DEF UsbStep
<1>7. CASE WifiLed
  <2>1. LedTypeOK'
    BY <1>0, <1>7, LedSendType DEF WifiLed, LedEvent, TypeOK
  <2> QED
    BY <1>7, <2>1 DEF WifiLed, requestVars, hostVars, TypeOK
<1>8. CASE WifiEvent
  <2>1. LedTypeOK'
    BY <1>0, <1>8, SameLedType DEF WifiEvent
  <2> QED
    BY <1>8, <2>1 DEF WifiEvent, requestVars, hostVars, TypeOK
<1>9. CASE Led
  <2>1. LedTypeOK'
    BY <1>0, <1>9, LedStepType DEF Led
  <2> QED
    BY <1>9, <2>1 DEF Led, requestVars, hostVars, TypeOK
<1>10. CASE Host
  <2>1. LedTypeOK'
    BY <1>0, <1>10, SameLedType DEF Host
  <2>2. asleep' \in BOOLEAN /\ (asleep' => mounted')
    <3>1. mounted' \in BOOLEAN /\ (asleep' = FALSE \/ asleep' = mounted')
      BY <1>10, Zenon DEF Host
    <3>2. CASE asleep' = FALSE
      BY <3>2
    <3>3. CASE asleep' = mounted'
      BY <3>1, <3>3
    <3> QED
      BY <3>1, <3>2, <3>3
  <2> QED
    BY <1>10, <2>1, <2>2 DEF Host, requestVars, TypeOK
<1>11. CASE UNCHANGED vars
  <2>1. LedTypeOK'
    BY <1>0, <1>11, SameLedType DEF vars
  <2> QED
    BY <1>11, <2>1 DEF vars, TypeOK
<1> QED
  BY <1>1, <1>2, <1>3, <1>4, <1>5, <1>6, <1>7, <1>8, <1>9, <1>10, <1>11
     DEF Next, SomeRequest

\* Every variable keeps its type: the LED queue, for one, never holds more than
\* it has room for, although its senders do not know of each other.
THEOREM TypeCorrect == Spec => []TypeOK
  BY InitTypeOK, NextTypeOK, PTL DEF Spec

-----------------------------------------------------------------------------
LEMMA NextNoLostRequest == TypeOK /\ NoLostRequest /\ [Next]_vars => NoLostRequest'
<1> SUFFICES ASSUME TypeOK, NoLostRequest, [Next]_vars PROVE NoLostRequest'
  OBVIOUS
<1>1. CASE UNCHANGED <<bit, timerQueue, usbPc, owed>>
  BY <1>1 DEF NoLostRequest, Deciding
<1>2. CASE Button
  BY <1>2, ButtonQueue DEF NoLostRequest
<1>3. CASE TimerDaemon \/ \E t \in Tasks : Request(t)
  BY <1>3 DEF TimerDaemon, Request, NoLostRequest
<1>4. CASE Panic
  BY <1>4 DEF Panic, NoLostRequest
\* usb_task gives up the bit only to decide, and every decision answers all.
<1>5. CASE UsbWait \/ UsbClear
  BY <1>5 DEF UsbWait, UsbClear, NoLostRequest, Deciding
<1>6. CASE UsbCheck
  BY <1>6 DEF UsbCheck, NoLostRequest, Deciding
<1>7. CASE UsbLedOn
  BY <1>7 DEF UsbLedOn, NoLostRequest, Deciding
<1>8. CASE UsbSignal
  BY <1>8 DEF UsbSignal, NoLostRequest
\* After the decision the bit and the timer queue still hold later requests.
<1>9. CASE UsbNotify \/ UsbLedOff
  BY <1>9 DEF UsbNotify, UsbLedOff, UsbUnchanged, AfterDelay, NoLostRequest, Deciding
<1>10. CASE GpioInit \/ CreateGroup \/ StartTasks \/ WifiEvent \/ WifiLed \/ Led \/ Host
            \/ UNCHANGED vars
  BY <1>1, <1>10 DEF GpioInit, EnableInterrupt, CreateGroup, StartTasks, WifiEvent, WifiLed, Led, Host,
     vars, requestVars
<1> QED
  BY <1>2, <1>3, <1>4, <1>5, <1>6, <1>7, <1>8, <1>9, <1>10 DEF Next, SomeRequest, UsbStep

\* No wakeup request is ever lost between the requester and usb_task's decision.
THEOREM RequestsKept == Spec => []NoLostRequest
<1>1. Init => NoLostRequest
  BY DEF Init, NoLostRequest
<1> QED
  BY <1>1, NextNoLostRequest, TypeCorrect, PTL DEF Spec
-----------------------------------------------------------------------------
\* The last event of a sender, when the queue grows ...
LEMMA LastAppended ==
  ASSUME NEW S, NEW q \in Seq(S), NEW e \in S, NEW events, e \in events, NEW r \in BOOLEAN
  PROVE  LastWaiting(Append(q, e), events, e, r)
<1> DEFINE p == Append(q, e)
<1>1. /\ DOMAIN p = 1 .. Len(q) + 1
      /\ Len(q) + 1 \in DOMAIN p
      /\ p[Len(q) + 1] = e
  BY AppendProperties, LenProperties
<1>2. \A j \in DOMAIN p : j <= Len(q) + 1
  BY <1>1, LenProperties
<1> HIDE DEF p
<1>3. LastWaiting(p, events, e, r)
  BY <1>1, <1>2 DEF LastWaiting
<1> QED
  BY <1>3 DEF p

LEMMA OtherAppended ==
  ASSUME NEW S, NEW q \in Seq(S), NEW e \in S, NEW events, e \notin events, NEW last,
         last \in events, NEW r \in BOOLEAN, LastWaiting(q, events, last, r)
  PROVE  LastWaiting(Append(q, e), events, last, r)
<1> DEFINE p == Append(q, e)
<1>1. /\ DOMAIN p = 1 .. Len(q) + 1 /\ Len(q) \in Nat /\ DOMAIN q = 1 .. Len(q)
      /\ \A i \in DOMAIN q : p[i] = q[i]
      /\ p[Len(q) + 1] = e
  BY AppendProperties, LenProperties
<1> HIDE DEF p
<1>2. \A j \in DOMAIN p : p[j] \in events => j \in DOMAIN q /\ q[j] \in events
  BY <1>1
<1>3. DOMAIN q \subseteq DOMAIN p
  BY <1>1
<1>4. LastWaiting(p, events, last, r)
  <2>1. CASE \E i \in DOMAIN q : q[i] \in events
    <3>1. PICK i \in DOMAIN q : q[i] = last /\ \A j \in DOMAIN q : q[j] \in events => j <= i
      BY <2>1 DEF LastWaiting
    <3>2. i \in DOMAIN p /\ p[i] = last /\ \A j \in DOMAIN p : p[j] \in events => j <= i
      BY <3>1, <1>1, <1>2, <1>3
    <3> QED
      BY <3>2 DEF LastWaiting
  <2>2. CASE ~ \E i \in DOMAIN q : q[i] \in events
    <3>1. r
      BY <2>2 DEF LastWaiting
    <3>2. ~ \E i \in DOMAIN p : p[i] \in events
      BY <2>2, <1>2
    <3> QED
      BY <3>1, <3>2 DEF LastWaiting
  <2> QED
    BY <2>1, <2>2
<1> QED
  BY <1>4 DEF p

\* ... and when the task receives its first event.
LEMMA LastOfTail ==
  ASSUME NEW S, NEW q \in Seq(S), q # <<>>, NEW events, NEW last, last \in events,
         NEW r \in BOOLEAN, LastWaiting(q, events, last, r), NEW s \in BOOLEAN,
         Head(q) = last => s,
         Head(q) \notin events => (r => s)
  PROVE  LastWaiting(Tail(q), events, last, s)
<1> DEFINE p == Tail(q)
<1>1. /\ Len(q) \in Nat /\ DOMAIN q = 1 .. Len(q) /\ 1 \in DOMAIN q
      /\ p \in Seq(S) /\ Len(p) = Len(q) - 1 /\ DOMAIN p = 1 .. Len(q) - 1
      /\ \A i \in 1 .. Len(q) - 1 : p[i] = q[i + 1]
      /\ Head(q) = q[1]
  BY HeadTailProperties, LenProperties, EmptySeq
<1> HIDE DEF p
<1>2. CASE \E i \in DOMAIN p : p[i] \in events
  <2>1. PICK k \in DOMAIN p : p[k] \in events
    BY <1>2
  <2>2. k + 1 \in DOMAIN q /\ q[k + 1] \in events
    BY <2>1, <1>1
  <2>3. PICK i \in DOMAIN q : q[i] = last /\ \A j \in DOMAIN q : q[j] \in events => j <= i
    BY <2>2 DEF LastWaiting
  <2>4. i - 1 \in DOMAIN p /\ p[i - 1] = last
    <3>1. k + 1 <= i
      BY <2>2, <2>3
    <3> QED
      BY <2>3, <3>1, <1>1
  <2>5. ASSUME NEW j \in DOMAIN p, p[j] \in events PROVE j <= i - 1
    <3>1. j + 1 \in DOMAIN q /\ q[j + 1] \in events
      BY <2>5, <1>1
    <3> QED
      BY <3>1, <2>3, <1>1
  <2>6. LastWaiting(p, events, last, s)
    BY <1>2, <2>4, <2>5 DEF LastWaiting
  <2> QED
    BY <2>6 DEF p
<1>3. CASE ~ \E i \in DOMAIN p : p[i] \in events
  <2>1. \A i \in DOMAIN q : q[i] \in events => i = 1
    <3>1. ASSUME NEW i \in DOMAIN q, q[i] \in events, i # 1 PROVE FALSE
      <4>1. i - 1 \in DOMAIN p /\ p[i - 1] = q[i]
        BY <3>1, <1>1
      <4> QED
        BY <4>1, <3>1, <1>3
    <3> QED
      BY <3>1
  <2>2. s
    <3>1. CASE Head(q) \in events
      <4>1. PICK i \in DOMAIN q : q[i] = last
        BY <3>1, <1>1 DEF LastWaiting
      <4>2. i = 1
        BY <4>1, <2>1
      <4> QED
        BY <4>1, <4>2, <1>1
    <3>2. CASE Head(q) \notin events
      <4>1. ~ \E i \in DOMAIN q : q[i] \in events
        BY <2>1, <3>2, <1>1
      <4>2. r
        BY <4>1 DEF LastWaiting
      <4> QED
        BY <4>2, <3>2
    <3> QED
      BY <3>1, <3>2
  <2>3. LastWaiting(p, events, last, s)
    BY <1>3, <2>2 DEF LastWaiting
  <2> QED
    BY <2>3 DEF p
<1> QED
  BY <1>2, <1>3

\* The queue with the event that led_init sends.
LEMMA BootQueue ==
  ASSUME NEW r
  PROVE  /\ LastWaiting(<<"wifi_disconnected">>, WifiLedEvent, "wifi_disconnected", r)
         /\ r => LastWaiting(<<"wifi_disconnected">>, KeypressLedEvent, "keypress_off", r)
<1> DEFINE q == <<"wifi_disconnected">>
<1>1. DOMAIN q = {1} /\ q[1] = "wifi_disconnected"
  OBVIOUS
<1> HIDE DEF q
<1>2. LastWaiting(q, WifiLedEvent, "wifi_disconnected", r)
  <2>1. 1 \in DOMAIN q /\ \A j \in DOMAIN q : j <= 1
    BY <1>1
  <2> QED
    BY <1>1, <2>1 DEF LastWaiting, WifiLedEvent
<1>3. r => LastWaiting(q, KeypressLedEvent, "keypress_off", r)
  BY <1>1 DEF LastWaiting, KeypressLedEvent
<1> QED
  BY <1>2, <1>3 DEF q

\* A sender's step, if the event it sends is what it says of itself.
LEMMA LedSendInv ==
  ASSUME TypeOK, LedInv, NEW e \in LedEvent, LedSend(e),
         IF e \in WifiLedEvent THEN lastWifi' = e /\ LastKeypress' = LastKeypress
                               ELSE lastWifi' = lastWifi /\ LastKeypress' = e
  PROVE  LedInv'
<1>1. /\ ledQueue \in Seq(LedEvent) /\ ledQueue' = Append(ledQueue, e)
      /\ keypressOn' = keypressOn /\ wifiDown' = wifiDown /\ lit' = lit
      /\ blinksLeft' = blinksLeft /\ notifyMode' = notifyMode
      /\ lastWifi \in WifiLedEvent /\ LastKeypress \in KeypressLedEvent
  BY DEF LedSend, TypeOK, LedTypeOK, WifiLedEvent, KeypressLedEvent, LastKeypress
<1>2. \A a \in LedEvent : a \in WifiLedEvent <=> a \notin KeypressLedEvent
  BY DEF LedEvent, WifiLedEvent, KeypressLedEvent
<1>3. LedFollowsWifi'
  <2>1. CASE e \in WifiLedEvent
    <3>1. LastWaiting(Append(ledQueue, e), WifiLedEvent, e, wifiDown = (e = "wifi_disconnected"))
      BY <1>1, <2>1, LastAppended
    <3> QED
      BY <1>1, <2>1, <3>1 DEF LedFollowsWifi
  <2>2. CASE e \notin WifiLedEvent
    <3>1. LastWaiting(Append(ledQueue, e), WifiLedEvent, lastWifi,
                      wifiDown = (lastWifi = "wifi_disconnected"))
      BY <1>1, <2>2, OtherAppended DEF LedInv, LedFollowsWifi
    <3> QED
      BY <1>1, <2>2, <3>1 DEF LedFollowsWifi
  <2> QED
    BY <2>1, <2>2
<1>4. LedFollowsUsb'
  <2>1. CASE e \in KeypressLedEvent
    <3>1. LastWaiting(Append(ledQueue, e), KeypressLedEvent, e, keypressOn = (e = "keypress_on"))
      BY <1>1, <2>1, LastAppended
    <3> QED
      BY <1>1, <1>2, <2>1, <3>1 DEF LedFollowsUsb
  <2>2. CASE e \notin KeypressLedEvent
    <3>1. LastWaiting(Append(ledQueue, e), KeypressLedEvent, LastKeypress,
                      keypressOn = (LastKeypress = "keypress_on"))
      BY <1>1, <2>2, OtherAppended DEF LedInv, LedFollowsUsb
    <3> QED
      BY <1>1, <1>2, <2>2, <3>1 DEF LedFollowsUsb
  <2> QED
    BY <2>1, <2>2
<1>5. LedShows'
  <2>1. ledQueue' # <<>>
    BY <1>1, AppendProperties
  <2> QED
    BY <1>1, <2>1 DEF LedInv, LedShows
<1> QED
  BY <1>3, <1>4, <1>5 DEF LedInv

\* A step of the LED task.
LEMMA LedStepInv ==
  ASSUME TypeOK, LedInv, LedStep, UNCHANGED <<usbPc, lastWifi>>
  PROVE  LedInv'
<1>1. /\ ledQueue \in Seq(LedEvent) /\ keypressOn \in BOOLEAN /\ wifiDown \in BOOLEAN
      /\ blinksLeft \in 0 .. Blinks
      /\ lastWifi \in WifiLedEvent /\ LastKeypress \in KeypressLedEvent
      /\ LastKeypress' = LastKeypress /\ lastWifi' = lastWifi
  BY DEF TypeOK, LedTypeOK, WifiLedEvent, KeypressLedEvent, LastKeypress
<1>2. CASE LedReceive
  <2> DEFINE e == Head(ledQueue)
  <2>1. /\ ledQueue # <<>> /\ ledQueue' = Tail(ledQueue) /\ notifyMode' = notifyMode
        /\ wifiDown' = (e = "wifi_disconnected" \/ (wifiDown /\ e # "wifi_connected"))
        /\ keypressOn' = (e = "keypress_on" \/ (keypressOn /\ e # "keypress_off"))
    BY <1>2 DEF LedReceive
  <2>2. e \in LedEvent
    BY <1>1, <2>1, HeadTailProperties
  <2>3. LedFollowsWifi'
    <3> DEFINE s == wifiDown' = (lastWifi = "wifi_disconnected")
    <3>1. e = lastWifi => s
      BY <1>1, <2>1, Zenon DEF WifiLedEvent
    <3>2. e \notin WifiLedEvent => ((wifiDown = (lastWifi = "wifi_disconnected")) => s)
      <4>1. ASSUME e \notin WifiLedEvent PROVE wifiDown' = wifiDown
        BY <1>1, <2>1, <4>1, Zenon DEF WifiLedEvent
      <4> QED
        BY <4>1
    <3>3. LastWaiting(ledQueue, WifiLedEvent, lastWifi, wifiDown = (lastWifi = "wifi_disconnected"))
      BY DEF LedInv, LedFollowsWifi
    <3>4. s \in BOOLEAN
      OBVIOUS
    <3> HIDE DEF s
    <3>5. LastWaiting(Tail(ledQueue), WifiLedEvent, lastWifi, s)
      BY <1>1, <2>1, <3>1, <3>2, <3>3, <3>4, LastOfTail
    <3> QED
      BY <1>1, <2>1, <3>5 DEF LedFollowsWifi, s
  <2>4. LedFollowsUsb'
    <3> DEFINE s == keypressOn' = (LastKeypress = "keypress_on")
    <3>1. e = LastKeypress => s
      BY <1>1, <2>1, Zenon DEF KeypressLedEvent
    <3>2. e \notin KeypressLedEvent => ((keypressOn = (LastKeypress = "keypress_on")) => s)
      <4>1. ASSUME e \notin KeypressLedEvent PROVE keypressOn' = keypressOn
        BY <1>1, <2>1, <4>1, Zenon DEF KeypressLedEvent
      <4> QED
        BY <4>1
    <3>3. LastWaiting(ledQueue, KeypressLedEvent, LastKeypress, keypressOn = (LastKeypress = "keypress_on"))
      BY DEF LedInv, LedFollowsUsb
    <3>4. s \in BOOLEAN
      OBVIOUS
    <3> HIDE DEF s
    <3>5. LastWaiting(Tail(ledQueue), KeypressLedEvent, LastKeypress, s)
      BY <1>1, <2>1, <3>1, <3>2, <3>3, <3>4, LastOfTail
    <3> QED
      BY <1>1, <2>1, <3>5 DEF LedFollowsUsb, s
  <2>5. LedShows'
    <3>1. blinksLeft = 0
      BY <1>2 DEF LedReceive
    <3>2. CASE notifyMode /\ ~wifiDown' /\ keypressOn'
      BY <3>2 DEF LedShows
    <3>3. CASE ~(notifyMode /\ ~wifiDown' /\ keypressOn')
      <4>1. lit' = RestColour(wifiDown', keypressOn') /\ blinksLeft' = blinksLeft
        BY <1>2, <3>3 DEF LedReceive
      <4>2. keypressOn' \in BOOLEAN
        BY <2>1, Zenon
      <4> QED
        BY <2>1, <3>1, <4>1, <4>2 DEF LedShows, RestColour
    <3> QED
      BY <3>2, <3>3
  <2> QED
    BY <2>3, <2>4, <2>5 DEF LedInv
<1>3. CASE LedBlink
  <2>1. /\ ledQueue' = ledQueue /\ keypressOn' = keypressOn /\ wifiDown' = wifiDown
        /\ notifyMode' = notifyMode /\ keypressOn
    BY <1>3 DEF LedBlink, LedInv, LedShows
  <2>2. LedFollowsWifi' /\ LedFollowsUsb'
    BY <1>1, <2>1 DEF LedInv, LedFollowsWifi, LedFollowsUsb
  <2>3. LedShows'
    BY <2>1 DEF LedShows
  <2> QED
    BY <2>2, <2>3 DEF LedInv
<1> QED
  BY <1>2, <1>3 DEF LedStep

LEMMA NextLedInv == TypeOK /\ LedInv /\ [Next]_vars => LedInv'
<1> SUFFICES ASSUME TypeOK, LedInv, [Next]_vars PROVE LedInv'
  OBVIOUS
<1>1. ASSUME UNCHANGED <<ledVars, lastWifi>>, LastKeypress' = LastKeypress
      PROVE  LedInv'
  <2>1. LedFollowsWifi' /\ LedFollowsUsb'
    BY <1>1 DEF LedInv, LedFollowsWifi, LedFollowsUsb, ledVars
  <2>2. LedShows'
    BY <1>1 DEF LedInv, LedShows, ledVars, RestColour
  <2> QED
    BY <2>1, <2>2 DEF LedInv
\* Steps in which neither the LED nor its senders take part.
<1>2. CASE GpioInit \/ CreateGroup \/ StartTasks \/ SomeRequest \/ TimerDaemon
           \/ WifiEvent \/ Host \/ UNCHANGED vars
  BY <1>1, <1>2 DEF GpioInit, EnableInterrupt, CreateGroup, StartTasks, SomeRequest, Button, Request,
     TimerDaemon, WifiEvent, Host, vars, LastKeypress
<1>3. CASE UsbWait \/ UsbClear \/ UsbCheck \/ UsbSignal \/ UsbNotify
  BY <1>1, <1>3 DEF UsbWait, UsbClear, UsbCheck, UsbSignal, UsbNotify, UsbUnchanged,
     LastKeypress
\* usb_task switches the light on and off again.
<1>4. CASE UsbLedOn
  <2>1. LedSend("keypress_on") /\ LastKeypress' = "keypress_on" /\ lastWifi' = lastWifi
    BY <1>4 DEF UsbLedOn, UsbUnchanged, LastKeypress
  <2> QED
    BY <2>1, LedSendInv DEF LedEvent, WifiLedEvent
<1>5. CASE UsbLedOff
  <2>1. LedSend("keypress_off") /\ LastKeypress' = "keypress_off" /\ lastWifi' = lastWifi
    BY <1>5 DEF UsbLedOff, AfterNotify, UsbUnchanged, LastKeypress
  <2> QED
    BY <2>1, LedSendInv DEF LedEvent, WifiLedEvent
<1>6. CASE WifiLed
  <2>1. /\ LedSend(wifiPc) /\ wifiPc \in WifiLedEvent /\ lastWifi' = wifiPc
        /\ LastKeypress' = LastKeypress
    BY <1>6 DEF WifiLed, TypeOK, WifiLedEvent, LastKeypress
  <2> QED
    BY <2>1, LedSendInv DEF LedEvent, WifiLedEvent
<1>7. CASE Led
  BY <1>7, LedStepInv DEF Led
<1>8. CASE Panic
  <2>1. /\ ledQueue' = <<"wifi_disconnected">> /\ keypressOn' = FALSE /\ blinksLeft' = 0
        /\ lastWifi' = "wifi_disconnected" /\ LastKeypress' = "keypress_off"
    BY <1>8 DEF Panic, LastKeypress
  <2>2. LedFollowsWifi' /\ LedFollowsUsb'
    BY <2>1, BootQueue DEF LedFollowsWifi, LedFollowsUsb
  <2>3. LedShows'
    BY <2>1 DEF LedShows
  <2> QED
    BY <2>2, <2>3 DEF LedInv
<1> QED
  BY <1>2, <1>3, <1>4, <1>5, <1>6, <1>7, <1>8 DEF Next, UsbStep

\* However the events of the two senders mix in the queue, and however long the
\* LED blinks, it shows the state of the network once all is quiet.
THEOREM LedShowsNetwork == Spec => []LedSettles
<1>1. Init => LedInv
  <2> SUFFICES ASSUME Init PROVE LedInv
    OBVIOUS
  <2>1. /\ ledQueue = <<"wifi_disconnected">> /\ keypressOn = FALSE /\ blinksLeft = 0
        /\ lastWifi = "wifi_disconnected" /\ LastKeypress = "keypress_off"
    BY DEF Init, LedInit, LastKeypress
  <2>2. LedFollowsWifi /\ LedFollowsUsb
    BY <2>1, BootQueue DEF LedFollowsWifi, LedFollowsUsb
  <2>3. LedShows
    BY <2>1 DEF LedShows
  <2> QED
    BY <2>2, <2>3 DEF LedInv
<1>2. TypeOK /\ LedInv => LedSettles
  <2> SUFFICES ASSUME TypeOK, LedInv, usbPc = "wait", ledQueue = <<>>, blinksLeft = 0
               PROVE  lit = RestColour(lastWifi = "wifi_disconnected", FALSE)
    BY DEF LedSettles
  <2>1. DOMAIN ledQueue = {}
    OBVIOUS
  <2>2. keypressOn = FALSE
    BY <2>1 DEF LedInv, LedFollowsUsb, LastWaiting, LastKeypress, TypeOK, LedTypeOK
  <2>3. wifiDown = (lastWifi = "wifi_disconnected")
    BY <2>1 DEF LedInv, LedFollowsWifi, LastWaiting
  <2> QED
    BY <2>2, <2>3 DEF LedInv, LedShows
<1> QED
  BY <1>1, <1>2, NextLedInv, TypeCorrect, PTL DEF Spec

-----------------------------------------------------------------------------
\* Every request is answered: where a request that is never answered would leave
\* the device, one place after the other.

\* What the network and the decisions leave alone.
Still == [Next]_vars /\ [~WifiEvent]_vars /\ owed # {} /\ (owed # {})'

LEMMA NoPanic == ASSUME Still PROVE ~Panic /\ ~UsbSignal
  BY Zenon DEF Still, Panic, UsbSignal

\* The boot goes on.
LEMMA BootOn ==
  ASSUME TypeOK, Still
  PROVE  /\ boot = "leds" => boot' = "leds" \/ boot' = "gpio"
         /\ boot = "gpio" /\ ~group =>
               (boot = "gpio" /\ ~group)' \/ (boot = "gpio" /\ group)'
         /\ boot = "gpio" /\ group => (boot = "gpio" /\ group)' \/ boot' = "up"
         /\ boot = "up" => boot' = "up"
<1>1. CASE GpioInit \/ CreateGroup \/ StartTasks
  BY <1>1, Zenon DEF GpioInit, EnableInterrupt, CreateGroup, StartTasks
<1>2. CASE UNCHANGED <<boot, group>>
  BY <1>2
<1>3. CASE Button \/ \E t \in Tasks : Request(t)
  BY <1>2, <1>3 DEF Button, Request
<1>4. CASE TimerDaemon \/ WifiEvent \/ WifiLed \/ Led \/ Host \/ UNCHANGED vars
  BY <1>2, <1>4 DEF TimerDaemon, WifiEvent, WifiLed, Led, Host, vars
<1>5. CASE UsbStep
  <2>1. UNCHANGED <<boot, group>>
    BY <1>5 DEF UsbStep, UsbWait, UsbClear, UsbCheck, UsbLedOn, UsbSignal, UsbNotify, UsbLedOff,
                UsbUnchanged
  <2> QED
    BY <1>2, <2>1
<1> QED
  BY <1>1, <1>3, <1>4, <1>5, NoPanic DEF Still, Next, SomeRequest

\* usb_task goes on, but not beyond the signal, which would answer the requests.
UsbAt(pc) == usbPc = pc

LEMMA UsbOn ==
  ASSUME TypeOK, Still
  PROVE  /\ UsbStep =>
              \/ UsbAt("wait") /\ UsbAt("clear")'
              \/ UsbAt("clear") /\ (UsbAt("check")' \/ UsbAt("led_on")')
              \/ UsbAt("check") /\ UsbAt("led_on")'
              \/ UsbAt("led_on") /\ UsbAt("signal")'
              \/ UsbAt("notify") /\ UsbAt("led_off")'
              \/ UsbAt("led_off") /\ UsbAt("wait")'
         /\ ~UsbStep => usbPc' = usbPc /\ (bit => bit')
<1>1. ASSUME UsbStep
      PROVE  \/ UsbAt("wait") /\ UsbAt("clear")'
             \/ UsbAt("clear") /\ (UsbAt("check")' \/ UsbAt("led_on")')
             \/ UsbAt("check") /\ UsbAt("led_on")'
             \/ UsbAt("led_on") /\ UsbAt("signal")'
             \/ UsbAt("notify") /\ UsbAt("led_off")'
             \/ UsbAt("led_off") /\ UsbAt("wait")'
  <2>1. CASE UsbCheck
    BY <2>1 DEF Still, UsbCheck, UsbAt
  <2>2. CASE UsbWait \/ UsbClear \/ UsbLedOn \/ UsbNotify \/ UsbLedOff
    BY <2>2 DEF UsbWait, UsbClear, UsbLedOn, UsbNotify, UsbLedOff, UsbAt
  <2> QED
    BY <1>1, <2>1, <2>2, NoPanic DEF UsbStep
<1>2. ASSUME ~UsbStep
      PROVE  usbPc' = usbPc /\ (bit => bit')
  <2> DEFINE Rest == \/ GpioInit \/ CreateGroup \/ StartTasks \/ WifiEvent \/ WifiLed \/ Led \/ Host
                     \/ UNCHANGED vars
             Ask == Button \/ TimerDaemon \/ \E t \in Tasks : Request(t)
  <2>1. Rest => usbPc' = usbPc /\ (bit => bit')
    <3>1. Rest => UNCHANGED <<usbPc, bit>>
      BY DEF GpioInit, EnableInterrupt, CreateGroup, StartTasks, WifiEvent, WifiLed, Led, Host, vars, requestVars
    <3> QED
      BY <3>1, Zenon
  <2>2. Ask => usbPc' = usbPc /\ (bit => bit')
    <3>1. Ask => UNCHANGED <<usbPc, bit>> \/ (usbPc' = usbPc /\ bit')
      BY DEF Button, TimerDaemon, Request
    <3> QED
      BY <3>1, Zenon
  <2>3. Rest \/ Ask
    BY <1>2, NoPanic, Zenon DEF Still, Next, SomeRequest
  <2> QED
    BY <2>1, <2>2, <2>3, Zenon
<1> QED
  BY <1>1, <1>2, Zenon

\* The timer daemon sets the bit: its queue is not emptied otherwise.
LEMMA TimerOn ==
  ASSUME TypeOK, Still
  PROVE  /\ TimerDaemon => bit'
         /\ ~TimerDaemon /\ timerQueue # <<>> =>
               timerQueue' # <<>> /\ Head(timerQueue') = Head(timerQueue)
<1>1. TimerDaemon => bit'
  BY Zenon DEF TimerDaemon
<1>2. ASSUME ~TimerDaemon, timerQueue # <<>>
      PROVE  timerQueue' # <<>> /\ Head(timerQueue') = Head(timerQueue)
  <2>1. CASE UNCHANGED timerQueue
    BY <1>2, <2>1
  <2>2. CASE Button
    <3>1. timerQueue \in Seq(BOOLEAN) /\ group \in BOOLEAN
      BY DEF TypeOK
    <3>2. /\ Append(timerQueue, group) # <<>>
          /\ Head(Append(timerQueue, group)) = Head(timerQueue)
      BY <1>2, <3>1, AppendProperties, HeadTailProperties
    <3> QED
      BY <1>2, <2>2, <3>2 DEF Button
  <2>3. CASE GpioInit \/ CreateGroup \/ StartTasks \/ WifiEvent \/ WifiLed \/ Led \/ Host
             \/ UNCHANGED vars \/ \E t \in Tasks : Request(t)
    BY <2>1, <2>3 DEF GpioInit, EnableInterrupt, CreateGroup, StartTasks, WifiEvent, WifiLed, Led, Host, vars,
                      requestVars, Request
  <2>4. CASE UsbStep
    BY <2>1, <2>4 DEF UsbStep, UsbWait, UsbClear, UsbCheck, UsbLedOn, UsbSignal, UsbNotify,
                      UsbLedOff, UsbUnchanged
  <2> QED
    BY <1>2, <2>2, <2>3, <2>4, NoPanic DEF Still, Next, SomeRequest
<1> QED
  BY <1>1, <1>2

\* The LED queue: who fills it and who empties it.
LEMMA LedOn ==
  ASSUME TypeOK, Still
  PROVE  /\ Room /\ ~UsbStep => Room' \/ (wifiPc # "none" /\ wifiPc' = "none")
         /\ wifiPc = "none" => wifiPc' = "none"
         /\ ~Room => ledQueue # <<>>
         /\ ~Room /\ ~Room' => blinksLeft' <= blinksLeft
         /\ ~Room /\ ~Room' /\ Led => blinksLeft' < blinksLeft
<1>1. /\ ledQueue \in Seq(LedEvent) /\ Len(ledQueue) \in Nat /\ QueueLen \in Nat \ {0}
      /\ Len(ledQueue) <= QueueLen /\ blinksLeft \in Nat
  BY LenProperties, LedAssumption DEF TypeOK, LedTypeOK
<1>2. ~Room => ledQueue # <<>>
  BY <1>1, LenProperties DEF Room
<1>3. CASE Led /\ LedReceive
  <2>1. ledQueue # <<>> /\ ledQueue' = Tail(ledQueue) /\ wifiPc' = wifiPc
    BY <1>3 DEF Led, LedReceive
  <2>2. Len(Tail(ledQueue)) = Len(ledQueue) - 1
    BY <1>1, <2>1, HeadTailProperties
  <2>3. Room'
    <3>1. Len(ledQueue') < QueueLen
      BY <1>1, <2>1, <2>2
    <3> QED
      BY <3>1 DEF Room
  <2> QED
    BY <1>2, <2>1, <2>3
<1>4. CASE Led /\ LedBlink
  <2>1. UNCHANGED <<ledQueue, wifiPc>> /\ blinksLeft' = blinksLeft - 1
    BY <1>4 DEF Led, LedBlink
  <2> QED
    BY <1>1, <1>2, <2>1 DEF Room
<1>5. CASE ~Led
  <2>1. CASE WifiLed
    <3>1. wifiPc # "none" /\ wifiPc' = "none" /\ Room
      BY <2>1 DEF WifiLed, LedSend, Room
    <3> QED
      BY <1>2, <1>5, <3>1
  <2>2. CASE UsbStep
    <3>1. UNCHANGED <<wifiPc, blinksLeft>>
      BY <2>2 DEF UsbStep, UsbWait, UsbClear, UsbCheck, UsbLedOn, UsbSignal, UsbNotify, UsbLedOff,
                  UsbUnchanged, AfterNotify, LedSend, ledVars
    <3> QED
      BY <1>1, <1>2, <1>5, <2>2, <3>1
  <2>3. CASE GpioInit \/ CreateGroup \/ StartTasks \/ Host \/ UNCHANGED vars \/ Button \/ TimerDaemon
             \/ \E t \in Tasks : Request(t)
    <3>1. UNCHANGED <<ledQueue, wifiPc, blinksLeft>>
      BY <2>3 DEF GpioInit, EnableInterrupt, CreateGroup, StartTasks, Host, vars, Button, TimerDaemon, Request, ledVars
    <3> QED
      BY <1>1, <1>2, <1>5, <3>1 DEF Room
  <2> QED
    BY <1>5, <2>1, <2>2, <2>3, NoPanic DEF Still, Next, SomeRequest
<1> QED
  BY <1>3, <1>4, <1>5 DEF Led, LedStep

\* While a task waits for room, the number of blinks left falls: its binary digits,
\* the highest first, change no more.
Part(k) == blinksLeft \div k
Steady(k) == Part(k)' = Part(k)
Odd(k) == Part(k) % 2 = 1

Halves(k, j) == /\ Steady(j) /\ Odd(k)' => Odd(k)
                /\ Steady(j) /\ (Odd(k)' <=> Odd(k)) => Steady(k)

Descent == /\ Steady(256)
           /\ Halves(1, 2) /\ Halves(2, 4) /\ Halves(4, 8) /\ Halves(8, 16)
           /\ Halves(16, 32) /\ Halves(32, 64) /\ Halves(64, 128) /\ Halves(128, 256)

LEMMA Halving ==
  ASSUME NEW m \in Nat, NEW n \in Nat, n <= m
  PROVE  /\ n \div 2 = m \div 2 /\ n % 2 = 1 => m % 2 = 1
         /\ n \div 2 = m \div 2 /\ (n % 2 = 1 <=> m % 2 = 1) => n = m
  OBVIOUS

LEMMA HalvesStep ==
  ASSUME NEW k, NEW j, Part(k) \in Nat, Part(k)' \in Nat, Part(k)' <= Part(k),
         Part(j) = Part(k) \div 2, Part(j)' = Part(k)' \div 2
  PROVE  Halves(k, j)
  BY Halving DEF Halves, Steady, Odd

LEMMA Descends ==
  ASSUME blinksLeft \in Nat, blinksLeft < 256, blinksLeft' \in Nat, (blinksLeft < 256)',
         blinksLeft' <= blinksLeft
  PROVE  Descent
<1>1. Halves(1, 2)
  BY HalvesStep DEF Part
<1>2. Halves(2, 4)
  BY HalvesStep DEF Part
<1>3. Halves(4, 8)
  BY HalvesStep DEF Part
<1>4. Halves(8, 16)
  BY HalvesStep DEF Part
<1>5. Halves(16, 32)
  BY HalvesStep DEF Part
<1>6. Halves(32, 64)
  BY HalvesStep DEF Part
<1>7. Halves(64, 128)
  BY HalvesStep DEF Part
<1>8. Halves(128, 256)
  BY HalvesStep DEF Part
<1>9. Steady(256)
  <2>1. \A n \in Nat : n < 256 => n \div 256 = 0
    OBVIOUS
  <2>2. Part(256) = 0 /\ Part(256)' = 0
    BY <2>1 DEF Part
  <2> QED
    BY <2>2 DEF Steady
<1> QED
  BY <1>1, <1>2, <1>3, <1>4, <1>5, <1>6, <1>7, <1>8, <1>9 DEF Descent

Owing == owed # {}
NetworkRests == wifiPc = "none"
FewBlinks == Blinks < 256

LEMMA BlinkStep ==
  ASSUME FewBlinks, TypeOK, TypeOK', [Next]_vars, [~WifiEvent]_vars, Owing, Owing',
         ~Room, ~Room'
  PROVE  Descent /\ (Steady(1) => [~Led]_vars)
<1>1. Still
  BY DEF Still, Owing
<1>2. /\ blinksLeft \in Nat /\ blinksLeft < 256 /\ blinksLeft' \in Nat /\ (blinksLeft < 256)'
  BY LedAssumption DEF TypeOK, LedTypeOK, FewBlinks
<1>3. blinksLeft' <= blinksLeft /\ (Led => blinksLeft' < blinksLeft)
  BY <1>1, LedOn
<1>4. Steady(1) => blinksLeft' = blinksLeft
  <2>1. \A n \in Nat : n \div 1 = n
    OBVIOUS
  <2>2. Part(1) = blinksLeft /\ Part(1)' = blinksLeft'
    BY <1>2, <2>1 DEF Part
  <2> QED
    BY <2>2 DEF Steady
<1>5. Steady(1) => ~Led
  BY <1>2, <1>3, <1>4
<1> QED
  BY <1>2, <1>3, <1>5, Descends

LEMMA SteadyStutter == UNCHANGED vars => Steady(16) /\ Steady(1)
  BY DEF vars, ledVars, Steady, Part

\* A sender that waits for room gets it.
LEMMA RoomStep ==
  ASSUME TypeOK, [Next]_vars, [~WifiEvent]_vars, Owing, Owing'
  PROVE  /\ Room /\ [~UsbStep]_vars => Room' \/ (~NetworkRests /\ NetworkRests')
         /\ NetworkRests => NetworkRests'
<1>1. Still
  BY DEF Still, Owing
<1>2. UNCHANGED vars => (Room => Room')
  BY DEF vars, ledVars, Room
<1> QED
  BY <1>1, <1>2, LedOn DEF NetworkRests

LEMMA FullNotEmpty == TypeOK /\ ~Room => ledQueue # <<>>
  BY LenProperties, LedAssumption DEF TypeOK, LedTypeOK, Room

LEMMA BlinkingEnds ==
  ASSUME FewBlinks
  PROVE  FairSpec /\ []PathPossible =>
           ~(<>[][~WifiEvent]_vars /\ <>[]Owing /\ <>[]~Room)
<1>1. TypeOK /\ TypeOK' /\ [Next]_vars /\ [~WifiEvent]_vars /\ Owing /\ Owing' /\ ~Room /\ ~Room' =>
         Descent /\ (Steady(1) => [~Led]_vars)
  BY BlinkStep
<1>2. TypeOK /\ PathPossible /\ ~Room => ENABLED <<Led>>_vars
  BY FullNotEmpty DEF PathPossible
<1>3. Spec /\ <>[][~WifiEvent]_vars /\ <>[]Owing /\ <>[]~Room => <>[][Steady(16)]_vars
  BY <1>1, SteadyStutter, TypeCorrect, PTL DEF Spec, Descent, Halves
<1>4. Spec /\ <>[][~WifiEvent]_vars /\ <>[]Owing /\ <>[]~Room => <>[][Steady(1)]_vars
  BY <1>1, <1>3, SteadyStutter, TypeCorrect, PTL DEF Spec, Descent, Halves
<1> QED
  BY <1>1, <1>2, <1>4, TypeCorrect, PTL DEF FairSpec, Fairness, Spec

LEMMA RoomComes ==
  ASSUME FewBlinks
  PROVE  FairSpec /\ []PathPossible /\ <>[][~WifiEvent]_vars /\ <>[]Owing
            /\ <>[][~UsbStep]_vars => <>[]Room
<1>1. TypeOK /\ [Next]_vars /\ [~WifiEvent]_vars /\ Owing /\ Owing' =>
         /\ Room /\ [~UsbStep]_vars => Room' \/ (~NetworkRests /\ NetworkRests')
         /\ NetworkRests => NetworkRests'
  BY RoomStep
<1> QED
  BY <1>1, BlinkingEnds, TypeCorrect, PTL DEF FairSpec, Spec

\* The stages of the boot, and what the timer daemon would do next.
Stage(b, g) == boot = b /\ (group <=> g)
Pended == timerQueue # <<>> /\ Head(timerQueue)
PendedEarly == timerQueue # <<>> /\ ~Head(timerQueue)
BitSet == bit

LEMMA Stages ==
  TypeOK => Stage("leds", FALSE) \/ Stage("gpio", FALSE) \/ Stage("gpio", TRUE) \/ Stage("up", TRUE)
  BY Zenon DEF TypeOK, Stage

LEMMA StageStep ==
  ASSUME TypeOK, TypeOK', [Next]_vars, [~WifiEvent]_vars, Owing, Owing'
  PROVE  /\ Stage("leds", FALSE) =>
              Stage("leds", FALSE)' \/ Stage("gpio", FALSE)' \/ Stage("gpio", TRUE)'
         /\ Stage("gpio", FALSE) => Stage("gpio", FALSE)' \/ Stage("gpio", TRUE)'
         /\ Stage("gpio", TRUE) => Stage("gpio", TRUE)' \/ Stage("up", TRUE)'
         /\ Stage("up", TRUE) => Stage("up", TRUE)'
<1>1. Still
  BY DEF Still, Owing
<1>2. (boot' = "leds" => ~group') /\ (boot' = "up" => group')
  BY Zenon DEF TypeOK
<1> QED
  BY <1>1, <1>2, BootOn, Zenon DEF Stage

LEMMA BootSteps ==
  /\ <<GpioInit>>_vars => ~Stage("leds", FALSE)'
  /\ <<CreateGroup>>_vars => ~Stage("gpio", FALSE)'
  /\ <<StartTasks>>_vars => ~Stage("gpio", TRUE)'
  BY Zenon DEF GpioInit, EnableInterrupt, CreateGroup, StartTasks, Stage

LEMMA UsbPlaces ==
  TypeOK => \/ UsbAt("wait") \/ UsbAt("clear") \/ UsbAt("check") \/ UsbAt("led_on")
            \/ UsbAt("signal") \/ UsbAt("notify") \/ UsbAt("led_off")
  BY DEF TypeOK, UsbAt

LEMMA PathStep ==
  ASSUME TypeOK, [Next]_vars, [~WifiEvent]_vars, Owing, Owing'
  PROVE  /\ <<UsbStep>>_vars =>
              /\ UsbAt("wait") => UsbAt("clear")'
              /\ UsbAt("clear") => UsbAt("check")' \/ UsbAt("led_on")'
              /\ UsbAt("check") => UsbAt("led_on")'
              /\ UsbAt("led_on") => UsbAt("signal")'
              /\ ~UsbAt("signal")
              /\ ~UsbAt("notify")'
              /\ UsbAt("led_off")' => UsbAt("notify")
         /\ [~UsbStep]_vars =>
              /\ BitSet => BitSet'
              /\ UsbAt("wait") => UsbAt("wait")'
              /\ UsbAt("clear") => UsbAt("clear")'
              /\ UsbAt("check") => UsbAt("check")'
              /\ UsbAt("led_on") => UsbAt("led_on")'
              /\ UsbAt("signal") => UsbAt("signal")'
              /\ UsbAt("notify") <=> UsbAt("notify")'
              /\ UsbAt("led_off") <=> UsbAt("led_off")'
         /\ <<TimerDaemon>>_vars => BitSet'
         /\ [~TimerDaemon]_vars => (Pended => Pended') /\ (PendedEarly => PendedEarly')
         /\ ~<<Panic>>_vars
<1>1. Still
  BY DEF Still, Owing
<1>2. UsbStep =>
        /\ UsbAt("wait") => UsbAt("clear")'
        /\ UsbAt("clear") => UsbAt("check")' \/ UsbAt("led_on")'
        /\ UsbAt("check") => UsbAt("led_on")'
        /\ UsbAt("led_on") => UsbAt("signal")'
        /\ ~UsbAt("signal")
        /\ ~UsbAt("notify")'
        /\ UsbAt("led_off")' => UsbAt("notify")
  BY <1>1, UsbOn DEF UsbAt
<1>3. [~UsbStep]_vars => (BitSet => BitSet') /\ usbPc' = usbPc
  <2>1. UNCHANGED vars => (BitSet => BitSet') /\ usbPc' = usbPc
    <3>1. UNCHANGED vars => bit' = bit /\ usbPc' = usbPc
      BY DEF vars
    <3> QED
      BY <3>1, Zenon DEF BitSet
  <2> QED
    BY <1>1, <2>1, UsbOn, Zenon DEF BitSet
<1>4. TimerDaemon => BitSet'
  BY <1>1, TimerOn, Zenon DEF BitSet
<1>5. [~TimerDaemon]_vars => (Pended => Pended') /\ (PendedEarly => PendedEarly')
  <2>1. UNCHANGED vars => timerQueue' = timerQueue
    BY DEF vars
  <2>2. [~TimerDaemon]_vars /\ timerQueue # <<>> =>
           timerQueue' # <<>> /\ Head(timerQueue') = Head(timerQueue)
    BY <1>1, <2>1, TimerOn, Zenon
  <2> QED
    BY <2>2, Zenon DEF Pended, PendedEarly
<1>6. ~Panic
  BY <1>1, NoPanic
<1> QED
  BY <1>2, <1>3, <1>4, <1>5, <1>6, Zenon DEF UsbAt

LEMMA PathWanted ==
  TypeOK /\ NoLostRequest /\ PathPossible =>
    /\ Stage("leds", FALSE) => ENABLED <<GpioInit>>_vars
    /\ Stage("gpio", FALSE) => ENABLED <<CreateGroup>>_vars
    /\ Stage("gpio", TRUE) => ENABLED <<StartTasks>>_vars
    /\ Pended => ENABLED <<TimerDaemon>>_vars
    /\ PendedEarly => ENABLED <<Panic>>_vars
    /\ Stage("up", TRUE) /\ UsbAt("wait") /\ BitSet => ENABLED <<UsbStep>>_vars
    /\ UsbAt("clear") \/ UsbAt("check") \/ UsbAt("signal") \/ UsbAt("notify") =>
          ENABLED <<UsbStep>>_vars
    /\ (UsbAt("led_on") \/ UsbAt("led_off")) /\ Room => ENABLED <<UsbStep>>_vars
    /\ Owing /\ UsbAt("wait") => BitSet \/ Pended \/ PendedEarly
<1> SUFFICES ASSUME TypeOK, NoLostRequest, PathPossible
             PROVE  /\ Stage("leds", FALSE) => ENABLED <<GpioInit>>_vars
                    /\ Stage("gpio", FALSE) => ENABLED <<CreateGroup>>_vars
                    /\ Stage("gpio", TRUE) => ENABLED <<StartTasks>>_vars
                    /\ Pended => ENABLED <<TimerDaemon>>_vars
                    /\ PendedEarly => ENABLED <<Panic>>_vars
                    /\ Stage("up", TRUE) /\ UsbAt("wait") /\ BitSet => ENABLED <<UsbStep>>_vars
                    /\ UsbAt("clear") \/ UsbAt("check") \/ UsbAt("signal") \/ UsbAt("notify") =>
                          ENABLED <<UsbStep>>_vars
                    /\ (UsbAt("led_on") \/ UsbAt("led_off")) /\ Room => ENABLED <<UsbStep>>_vars
                    /\ Owing /\ UsbAt("wait") => BitSet \/ Pended \/ PendedEarly
  OBVIOUS
<1>1. Owing /\ UsbAt("wait") => BitSet \/ Pended \/ PendedEarly
  <2>1. usbPc = "wait" => ~Deciding
    BY DEF Deciding
  <2> QED
    BY <2>1, Zenon DEF NoLostRequest, Owing, UsbAt, BitSet, Pended, PendedEarly
<1>2. (UsbAt("led_on") \/ UsbAt("led_off")) /\ Room => ENABLED <<UsbStep>>_vars
  BY DEF PathPossible, UsbAt
<1>3. UsbAt("clear") \/ UsbAt("check") \/ UsbAt("signal") \/ UsbAt("notify") =>
         ENABLED <<UsbStep>>_vars
  BY DEF PathPossible, UsbAt
<1> QED
  BY <1>1, <1>2, <1>3, Zenon DEF PathPossible, Stage, Pended, PendedEarly, UsbAt, BitSet

\* The head and the tail of a queue of pended calls.
LEMMA PendedTail ==
  ASSUME NEW q \in Seq(BOOLEAN), q # <<>>
  PROVE  /\ 1 \in DOMAIN q /\ Head(q) = q[1]
         /\ (\A i \in DOMAIN q : q[i]) => \A i \in DOMAIN Tail(q) : Tail(q)[i]
<1>1. /\ Len(q) \in Nat /\ DOMAIN q = 1 .. Len(q) /\ Len(q) # 0
      /\ DOMAIN Tail(q) = 1 .. Len(q) - 1
      /\ \A i \in 1 .. Len(q) - 1 : Tail(q)[i] = q[i + 1]
  BY HeadTailProperties, EmptySeq, LenProperties
<1>2. \A i \in 1 .. Len(q) - 1 : i + 1 \in DOMAIN q
  BY <1>1
<1>3. (\A i \in DOMAIN q : q[i]) => \A i \in DOMAIN Tail(q) : Tail(q)[i]
  BY <1>1, <1>2, Zenon
<1>4. 1 \in DOMAIN q /\ Head(q) = q[1]
  BY <1>1
<1> QED
  BY <1>3, <1>4

\* Once the group exists and no call for a missing one is pended, this stays so.
LEMMA CallsStayGood == TypeOK /\ [Next]_vars /\ CallsGood => CallsGood'
<1> SUFFICES ASSUME TypeOK, [Next]_vars, CallsGood PROVE CallsGood'
  OBVIOUS
<1>1. timerQueue \in Seq(BOOLEAN) /\ group /\ \A i \in DOMAIN timerQueue : timerQueue[i]
  BY DEF TypeOK, CallsGood
<1>2. CASE UNCHANGED <<group, timerQueue>>
  BY <1>1, <1>2 DEF CallsGood
<1>3. CASE CreateGroup
  BY <1>1, <1>3 DEF CreateGroup
<1>4. CASE Button
  <2>1. CASE timerQueue' = Append(timerQueue, group)
    <3>1. \A i \in DOMAIN Append(timerQueue, group) : Append(timerQueue, group)[i]
      BY <1>1
    <3> QED
      BY <1>1, <1>4, <2>1, <3>1 DEF Button, CallsGood
  <2> QED
    BY <1>2, <1>4, <2>1 DEF Button
<1>5. CASE TimerDaemon
  <2>1. \A i \in DOMAIN Tail(timerQueue) : Tail(timerQueue)[i]
    BY <1>1, <1>5, PendedTail, Zenon DEF TimerDaemon
  <2> QED
    BY <1>1, <1>5, <2>1 DEF TimerDaemon, CallsGood
<1>6. CASE Panic
  <2>1. 1 \in DOMAIN timerQueue /\ Head(timerQueue) = timerQueue[1]
    BY <1>1, <1>6, PendedTail, Zenon DEF Panic
  <2> QED
    BY <1>1, <1>6, <2>1 DEF Panic
<1>7. CASE GpioInit \/ StartTasks \/ \E t \in Tasks : Request(t)
  BY <1>2, <1>7 DEF GpioInit, EnableInterrupt, StartTasks, Request, requestVars
<1>8. CASE UsbStep
  BY <1>2, <1>8 DEF UsbStep, UsbWait, UsbClear, UsbCheck, UsbLedOn, UsbSignal, UsbNotify,
                    UsbLedOff, UsbUnchanged
<1>9. CASE WifiEvent \/ WifiLed \/ Led \/ Host \/ UNCHANGED vars
  BY <1>2, <1>9 DEF WifiEvent, WifiLed, Led, Host, requestVars, vars
<1> QED
  BY <1>3, <1>4, <1>5, <1>6, <1>7, <1>8, <1>9 DEF Next, SomeRequest

\* If the network is quiet from some time on, every request that no crash at boot
\* is ahead of is answered.  The argument follows a request that is never answered: the device comes up;
\* usb_task does not stay anywhere between the bit and the signal, for the LED
\* queue always gets room; so it waits for a bit that is never set, although a
\* call to set it is pended, which the timer daemon carries out.
THEOREM RequestsGetAnswered ==
  ASSUME FewBlinks
  PROVE  FairSpec /\ []PathPossible => RequestsAnswered
<1>1. TypeOK /\ TypeOK' /\ [Next]_vars /\ [~WifiEvent]_vars /\ Owing /\ Owing' =>
         /\ Stage("leds", FALSE) =>
              Stage("leds", FALSE)' \/ Stage("gpio", FALSE)' \/ Stage("gpio", TRUE)'
         /\ Stage("gpio", FALSE) => Stage("gpio", FALSE)' \/ Stage("gpio", TRUE)'
         /\ Stage("gpio", TRUE) => Stage("gpio", TRUE)' \/ Stage("up", TRUE)'
         /\ Stage("up", TRUE) => Stage("up", TRUE)'
  BY StageStep
<1> DEFINE Onward == TypeOK /\ [Next]_vars /\ [~WifiEvent]_vars /\ Owing /\ Owing'
           Fit == TypeOK /\ NoLostRequest /\ PathPossible
           Lasting == FairSpec /\ []PathPossible /\ <>[][~WifiEvent]_vars /\ <>[]Owing
<1>2. Lasting => []Fit
  BY TypeCorrect, RequestsKept, PTL DEF FairSpec
<1>3. Lasting => <>[]Stage("up", TRUE)
  <2>1. Fit => /\ Stage("leds", FALSE) => ENABLED <<GpioInit>>_vars
               /\ Stage("gpio", FALSE) => ENABLED <<CreateGroup>>_vars
               /\ Stage("gpio", TRUE) => ENABLED <<StartTasks>>_vars
    BY PathWanted
  <2> QED
    BY <1>1, <1>2, <2>1, Stages, BootSteps, PTL DEF FairSpec, Fairness, Spec
<1>4. Lasting => <>[]~UsbAt("signal")
  <2>1. Onward /\ UsbAt("signal") => UsbAt("signal")' /\ ~<<UsbStep>>_vars
    BY PathStep
  <2>2. Fit /\ UsbAt("signal") => ENABLED <<UsbStep>>_vars
    BY PathWanted
  <2> QED
    BY <1>2, <2>1, <2>2, PTL DEF FairSpec, Fairness, Spec
<1>5. Lasting => <>[]~UsbAt("led_on")
  <2>1. Onward /\ UsbAt("led_on") =>
          /\ <<UsbStep>>_vars => UsbAt("signal")'
          /\ [~UsbStep]_vars => UsbAt("led_on")'
    BY PathStep
  <2>2. Fit /\ UsbAt("led_on") /\ Room => ENABLED <<UsbStep>>_vars
    BY PathWanted
  <2> QED
    BY <1>2, <1>4, <2>1, <2>2, RoomComes, PTL DEF FairSpec, Fairness, Spec
<1>6. Lasting => <>[]~UsbAt("check")
  <2>1. Onward /\ UsbAt("check") =>
          /\ <<UsbStep>>_vars => UsbAt("led_on")'
          /\ [~UsbStep]_vars => UsbAt("check")'
    BY PathStep
  <2>2. Fit /\ UsbAt("check") => ENABLED <<UsbStep>>_vars
    BY PathWanted
  <2> QED
    BY <1>2, <1>5, <2>1, <2>2, PTL DEF FairSpec, Fairness, Spec
<1>7. Lasting => <>[]~UsbAt("clear")
  <2>1. Onward /\ UsbAt("clear") =>
          /\ <<UsbStep>>_vars => UsbAt("check")' \/ UsbAt("led_on")'
          /\ [~UsbStep]_vars => UsbAt("clear")'
    BY PathStep
  <2>2. Fit /\ UsbAt("clear") => ENABLED <<UsbStep>>_vars
    BY PathWanted
  <2> QED
    BY <1>2, <1>5, <1>6, <2>1, <2>2, PTL DEF FairSpec, Fairness, Spec
<1>8. Lasting => <>[]~UsbAt("notify")
  <2>1. Onward => /\ <<UsbStep>>_vars => ~UsbAt("notify")'
                  /\ [~UsbStep]_vars => (UsbAt("notify")' <=> UsbAt("notify"))
    BY PathStep
  <2>2. Fit /\ UsbAt("notify") => ENABLED <<UsbStep>>_vars
    BY PathWanted
  <2> QED
    BY <1>2, <2>1, <2>2, PTL DEF FairSpec, Fairness, Spec
<1>9. Lasting => <>[]~UsbAt("led_off")
  <2>1. Onward => /\ <<UsbStep>>_vars => (UsbAt("led_off")' => UsbAt("notify"))
                  /\ [~UsbStep]_vars => (UsbAt("led_off")' <=> UsbAt("led_off"))
    BY PathStep
  <2>2. Fit /\ UsbAt("led_off") /\ Room => ENABLED <<UsbStep>>_vars
    BY PathWanted
  <2> QED
    BY <1>2, <1>8, <2>1, <2>2, RoomComes, PTL DEF FairSpec, Fairness, Spec
<1>10. Lasting => <>[]UsbAt("wait")
  BY <1>2, <1>4, <1>5, <1>6, <1>7, <1>8, <1>9, UsbPlaces, PTL
<1>11. Lasting => <>[]~BitSet
  <2>1. Onward /\ UsbAt("wait") => /\ <<UsbStep>>_vars => UsbAt("clear")'
                                   /\ [~UsbStep]_vars => (BitSet => BitSet')
    BY PathStep
  <2>2. Fit /\ Stage("up", TRUE) /\ UsbAt("wait") /\ BitSet => ENABLED <<UsbStep>>_vars
    BY PathWanted
  <2> QED
    BY <1>2, <1>3, <1>7, <1>10, <2>1, <2>2, PTL DEF FairSpec, Fairness, Spec
<1>12. Lasting => <>[](Pended \/ PendedEarly)
  <2>1. Fit /\ Owing /\ UsbAt("wait") => BitSet \/ Pended \/ PendedEarly
    BY PathWanted
  <2> QED
    BY <1>2, <1>10, <1>11, <2>1, PTL
<1>13. ~Lasting
  <2>1. Onward => /\ <<TimerDaemon>>_vars => BitSet'
                  /\ [~TimerDaemon]_vars => (Pended => Pended') /\ (PendedEarly => PendedEarly')
                  /\ ~<<Panic>>_vars
    BY PathStep
  <2>2. Fit => (Pended => ENABLED <<TimerDaemon>>_vars) /\ (PendedEarly => ENABLED <<Panic>>_vars)
    BY PathWanted
  <2> QED
    BY <1>2, <1>11, <1>12, <2>1, <2>2, PTL DEF FairSpec, Fairness, Spec
<1>14. FairSpec /\ []PathPossible /\ <>[][~WifiEvent]_vars => [](Owing => <>~Owing)
  BY <1>13, PTL
<1>15. ASSUME NEW r \in Requesters
       PROVE  FairSpec /\ []PathPossible /\ <>[][~WifiEvent]_vars =>
                (r \in owed /\ CallsGood ~> r \notin owed /\ CallsGood)
  <2>1. (r \in owed => Owing) /\ (~Owing => r \notin owed)
    BY DEF Owing
  <2> QED
    BY <1>2, <1>14, <2>1, CallsStayGood, TypeCorrect, PTL DEF FairSpec, Spec
<1> QED
  BY <1>15, Zenon DEF RequestsAnswered

-----------------------------------------------------------------------------
\* The boot goes on, unless the device crashes; and after a crash no call is pended.

AllGood == \A i \in DOMAIN timerQueue : timerQueue[i]

LEMMA GoodStep ==
  ASSUME TypeOK, TypeOK', [Next]_vars, [~Button]_vars
  PROVE  /\ AllGood => AllGood' /\ ~Panic
         /\ Panic => AllGood'
<1>1. timerQueue \in Seq(BOOLEAN)
  BY DEF TypeOK
<1>2. CASE UNCHANGED timerQueue /\ ~Panic
  BY <1>2 DEF AllGood
<1>3. CASE TimerDaemon
  <2>1. ~Panic
    BY <1>3 DEF TimerDaemon, Panic
  <2>2. AllGood => \A i \in DOMAIN Tail(timerQueue) : Tail(timerQueue)[i]
    BY <1>1, <1>3, PendedTail, Zenon DEF TimerDaemon, AllGood
  <2> QED
    BY <1>3, <2>1, <2>2 DEF TimerDaemon, AllGood
<1>4. CASE Panic
  <2>1. 1 \in DOMAIN timerQueue /\ Head(timerQueue) = timerQueue[1] /\ ~Head(timerQueue)
    BY <1>1, <1>4, PendedTail, Zenon DEF Panic
  <2>2. ~AllGood
    BY <2>1, Zenon DEF AllGood
  <2>3. timerQueue' = <<>>
    BY <1>4, Zenon DEF Panic
  <2>4. AllGood'
    BY <2>3 DEF AllGood
  <2> QED
    BY <2>2, <2>4
<1>5. ~Panic => UNCHANGED timerQueue \/ TimerDaemon
  <2>1. CASE UsbStep
    BY <2>1 DEF UsbStep, UsbWait, UsbClear, UsbCheck, UsbLedOn, UsbSignal, UsbNotify,
                UsbLedOff, UsbUnchanged
  <2>2. CASE GpioInit \/ CreateGroup \/ StartTasks \/ \E t \in Tasks : Request(t)
    BY <2>2 DEF GpioInit, EnableInterrupt, CreateGroup, StartTasks, Request, requestVars
  <2>3. CASE WifiEvent \/ WifiLed \/ Led \/ Host \/ UNCHANGED vars
    BY <2>3 DEF WifiEvent, WifiLed, Led, Host, requestVars, vars
  <2>4. CASE Button
    <3>1. UNCHANGED vars
      BY <2>4
    <3> QED
      BY <3>1 DEF vars
  <2> QED
    BY <2>1, <2>2, <2>3, <2>4 DEF Next, SomeRequest
<1> QED
  BY <1>2, <1>3, <1>4, <1>5

LEMMA BootAdvances ==
  ASSUME TypeOK, TypeOK', [Next]_vars, ~Panic
  PROVE  /\ Stage("leds", FALSE) =>
              Stage("leds", FALSE)' \/ Stage("gpio", FALSE)' \/ Stage("gpio", TRUE)'
         /\ Stage("gpio", FALSE) => Stage("gpio", FALSE)' \/ Stage("gpio", TRUE)'
         /\ Stage("gpio", TRUE) => Stage("gpio", TRUE)' \/ Stage("up", TRUE)'
         /\ Stage("up", TRUE) => Stage("up", TRUE)'
<1>1. (boot' = "leds" => ~group') /\ (boot' = "up" => group')
  BY Zenon DEF TypeOK
<1>2. CASE UNCHANGED <<boot, group>>
  BY <1>2 DEF Stage
<1>3. CASE GpioInit \/ CreateGroup \/ StartTasks
  BY <1>1, <1>3, Zenon DEF GpioInit, EnableInterrupt, CreateGroup, StartTasks, Stage
<1>4. CASE Button \/ \E t \in Tasks : Request(t)
  BY <1>2, <1>4 DEF Button, Request
<1>5. CASE TimerDaemon \/ WifiEvent \/ WifiLed \/ Led \/ Host \/ UNCHANGED vars
  BY <1>2, <1>5 DEF TimerDaemon, WifiEvent, WifiLed, Led, Host, vars
<1>6. CASE UsbStep
  <2>1. UNCHANGED <<boot, group>>
    BY <1>6 DEF UsbStep, UsbWait, UsbClear, UsbCheck, UsbLedOn, UsbSignal, UsbNotify, UsbLedOff,
                UsbUnchanged
  <2> QED
    BY <1>2, <2>1
<1> QED
  BY <1>3, <1>4, <1>5, <1>6 DEF Next, SomeRequest

\* A press while the event group does not exist restarts the device, but the restart
\* does not repeat itself: once the button is left alone, the device comes up.
\* Either no crash follows the last press, and the boot goes on; or one does, and
\* then no call is pended that could bring the next.
THEOREM DeviceComesUp == FairSpec /\ []PathPossible => BootSettles
<1> DEFINE Fit == TypeOK /\ NoLostRequest /\ PathPossible
           Quiet == FairSpec /\ []PathPossible /\ <>[][~Button]_vars
           Onward == /\ Stage("leds", FALSE) =>
                          Stage("leds", FALSE)' \/ Stage("gpio", FALSE)' \/ Stage("gpio", TRUE)'
                     /\ Stage("gpio", FALSE) => Stage("gpio", FALSE)' \/ Stage("gpio", TRUE)'
                     /\ Stage("gpio", TRUE) => Stage("gpio", TRUE)' \/ Stage("up", TRUE)'
                     /\ Stage("up", TRUE) => Stage("up", TRUE)'
<1>1. Quiet => []Fit
  BY TypeCorrect, RequestsKept, PTL DEF FairSpec
<1>2. TypeOK /\ TypeOK' /\ [Next]_vars /\ [~Button]_vars =>
         (AllGood => AllGood') /\ (Onward \/ (~AllGood /\ AllGood'))
  BY GoodStep, BootAdvances, Zenon
<1>3. Quiet => <>[]AllGood \/ <>[]~AllGood
  BY <1>1, <1>2, PTL DEF FairSpec, Spec
<1>4. Quiet => <>[]Stage("up", TRUE)
  <2>1. Fit => /\ Stage("leds", FALSE) => ENABLED <<GpioInit>>_vars
               /\ Stage("gpio", FALSE) => ENABLED <<CreateGroup>>_vars
               /\ Stage("gpio", TRUE) => ENABLED <<StartTasks>>_vars
    BY PathWanted
  <2> QED
    BY <1>1, <1>2, <1>3, <2>1, Stages, BootSteps, PTL DEF FairSpec, Fairness, Spec
<1>5. Stage("up", TRUE) => boot = "up"
  BY DEF Stage
<1> QED
  BY <1>4, <1>5, PTL DEF BootSettles

=============================================================================
