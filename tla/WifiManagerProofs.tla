------------------------- MODULE WifiManagerProofs --------------------------
(***************************************************************************)
(* Proofs about joining the Wi-Fi network, for any number of attempts and   *)
(* any length of the event queue.                                           *)
(***************************************************************************)
EXTENDS WifiManager, SequenceTheorems, TLAPS

\* The oldest event leaves the queue.
LEMMA TailEvents ==
  ASSUME events \in Seq(Event), events # <<>>
  PROVE  /\ Tail(events) \in Seq(Event)
         /\ Len(events) \in Nat \ {0}
         /\ Len(Tail(events)) = Len(events) - 1
         /\ \A i \in 1 .. Len(events) - 1 : Tail(events)[i] = events[i + 1]
         /\ Head(events) = events[1]
         /\ Tail(events) = <<>> <=> Len(events) = 1
<1>1. Tail(events) \in Seq(Event) /\ Len(Tail(events)) = Len(events) - 1
  BY HeadTailProperties
<1>2. Len(events) \in Nat \ {0}
  BY EmptySeq, LenProperties
<1>3. \A i \in 1 .. Len(events) - 1 : Tail(events)[i] = events[i + 1]
  BY <1>1, HeadTailProperties
<1>4. Tail(events) = <<>> <=> Len(Tail(events)) = 0
  BY <1>1, EmptySeq
<1> QED
  BY <1>1, <1>2, <1>3, <1>4

\* An event is posted.
LEMMA AppendEvents ==
  ASSUME events \in Seq(Event), NEW e \in Event
  PROVE  /\ Append(events, e) \in Seq(Event)
         /\ Append(events, e) # <<>>
         /\ Len(events) \in Nat
         /\ Len(Append(events, e)) = Len(events) + 1
         /\ \A i \in 1 .. Len(events) : Append(events, e)[i] = events[i]
         /\ Append(events, e)[Len(events) + 1] = e
  BY AppendProperties, LenProperties

LEMMA InitIInv == Init => IInv
<1> SUFFICES ASSUME Init PROVE IInv
  OBVIOUS
<1>1. TypeOK
  <2>1. events \in Seq(Event) /\ attempt \in 0 .. MaxAttempts
    BY EmptySeq, WifiAssumption DEF Init
  <2>2. {ipToken, staConnected, refused, net, answered} \subseteq BOOLEAN
    BY Zenon DEF Init
  <2> QED
    BY <2>1, <2>2 DEF Init, TypeOK
<1>2. Modes
  BY DEF Init, Modes, Retrying, Joined, FallingBack
<1>3. LedFollows /\ StaleIpFollowed
  BY DEF Init, LedFollows, Told, StaleIpFollowed
<1>4. Tokens
  BY DEF Init, Tokens, Joined
<1>5. Attended
  BY DEF Init, Attended, Joined
<1> QED
  BY <1>1, <1>2, <1>3, <1>4, <1>5 DEF IInv

LEMMA TypeStep == TypeOK /\ Modes /\ [Next]_vars => TypeOK'
<1> SUFFICES ASSUME TypeOK, Modes, [Next]_vars PROVE TypeOK'
  OBVIOUS
<1> USE DEF driverVars, handlerVars
<1>1. ASSUME TearDown PROVE link' = "idle" /\ events' \in Seq(Event)
  <2>1. Append(events, "disconnected") \in Seq(Event)
    BY AppendEvents DEF TypeOK, Event
  <2> QED
    BY <1>1, <2>1 DEF TearDown, TypeOK
<1>2. ASSUME NEW e \in Event, Post(e) PROVE events' \in Seq(Event)
  BY <1>2, AppendEvents DEF Post, TypeOK
<1>3. ASSUME events # <<>> PROVE Tail(events) \in Seq(Event)
  BY <1>3, TailEvents DEF TypeOK
<1>4. ASSUME Connect \/ ConnectError PROVE link' \in {"idle", "connecting", "assoc", "ip"}
  BY <1>4 DEF Connect, ConnectError, TypeOK
<1>5. CASE StartStation
  BY <1>5, WifiAssumption DEF StartStation, TypeOK, Retrying
<1>6. CASE NoCredentials
  BY <1>6 DEF NoCredentials, TypeOK, FallingBack
<1>7. CASE Attempt
  BY <1>7, <1>4 DEF Attempt, TypeOK, Retrying
<1>8. CASE TakeIp
  BY <1>8 DEF TakeIp, TypeOK, Joined
<1>9. CASE EndIp6
  BY <1>9 DEF EndIp6, TypeOK, Joined
<1>10. CASE Timeout
  BY <1>10 DEF Timeout, TypeOK, Retrying
<1>11. CASE Disconnect
  BY <1>11, <1>1 DEF Disconnect, TypeOK, Retrying
<1>12. CASE Again
  <2>1. attempt' \in 0 .. MaxAttempts
    BY <1>12, WifiAssumption DEF Again, AttemptsLeft, TypeOK
  <2> QED
    BY <1>12, <2>1 DEF Again, TypeOK, Retrying, FallingBack
<1>13. CASE StopStation
  BY <1>13, <1>1 DEF StopStation, TypeOK, FallingBack
<1>14. CASE StartAp
  BY <1>14 DEF StartAp, TypeOK, FallingBack
<1>15. CASE ShowAp
  BY <1>15 DEF ShowAp, TypeOK, FallingBack
<1>16. CASE BeginDisconnected
  BY <1>16, <1>3 DEF BeginDisconnected, DisconnectedLed, TypeOK, Event
<1>17. CASE EndDisconnected
  <2>1. link' \in {"idle", "connecting", "assoc", "ip"}
    BY <1>17, <1>4 DEF EndDisconnected, TypeOK
  <2> QED
    BY <1>17, <2>1 DEF EndDisconnected, TypeOK
<1>18. CASE BeginGotIp
  BY <1>18, <1>3 DEF BeginGotIp, TypeOK, Event
<1>19. CASE EndGotIp
  BY <1>19 DEF EndGotIp, TypeOK
<1>20. CASE Associate
  BY <1>20 DEF Associate, ElsewhereUnchanged, TypeOK
<1>21. CASE Lease
  <2>1. late' \subseteq {"before", "after"} /\ link' \in {"idle", "connecting", "assoc", "ip"}
    BY <1>21 DEF Lease, TypeOK
  <2>2. events' \in Seq(Event)
    BY <1>21, <1>2 DEF Lease, Event
  <2> QED
    BY <1>21, <2>1, <2>2 DEF Lease, ElsewhereUnchanged, TypeOK
<1>22. CASE Lose
  BY <1>22, <1>2 DEF Lose, ElsewhereUnchanged, TypeOK, Event
<1>23. CASE Network
  BY <1>23 DEF Network, ElsewhereUnchanged, TypeOK
<1>24. CASE UNCHANGED vars
  BY <1>24 DEF vars, TypeOK
<1>25. CASE Answer \/ Expire
  BY <1>25 DEF Answer, Expire, ElsewhereUnchanged, TypeOK
<1> QED
  BY <1>5, <1>6, <1>7, <1>8, <1>9, <1>10, <1>11, <1>12, <1>13, <1>14, <1>15, <1>16,
     <1>17, <1>18, <1>19, <1>20, <1>21, <1>22, <1>23, <1>24, <1>25
  DEF Next, Main, Handler, Driver, Dhcp

LEMMA ModesStep == TypeOK /\ Modes /\ [Next]_vars => Modes'
<1> SUFFICES ASSUME TypeOK, Modes, [Next]_vars PROVE Modes'
  OBVIOUS
<1> USE DEF driverVars, handlerVars, Retrying, Joined, FallingBack
<1>1. CASE StartStation
  BY <1>1, WifiAssumption DEF StartStation, Modes
<1>2. CASE NoCredentials
  BY <1>2 DEF NoCredentials, Modes
<1>3. CASE Attempt
  BY <1>3 DEF Attempt, Connect, ConnectError, Modes
<1>4. CASE TakeIp \/ EndIp6 \/ Timeout
  BY <1>4 DEF TakeIp, EndIp6, Timeout, Modes
<1>5. CASE Disconnect
  BY <1>5 DEF Disconnect, TearDown, Modes
<1>6. CASE Again
  BY <1>6, WifiAssumption DEF Again, AttemptsLeft, TypeOK, Modes
<1>7. CASE StopStation
  BY <1>7 DEF StopStation, TearDown, Modes
<1>8. CASE StartAp \/ ShowAp
  BY <1>8 DEF StartAp, ShowAp, Modes
<1>9. CASE BeginDisconnected \/ BeginGotIp \/ EndGotIp
  BY <1>9 DEF BeginDisconnected, BeginGotIp, EndGotIp, Modes
<1>10. CASE EndDisconnected
  BY <1>10 DEF EndDisconnected, Connect, ConnectError, Modes
<1>11. CASE Driver \/ Dhcp \/ Expire
  BY <1>11 DEF Driver, Associate, Lose, Dhcp, Answer, Lease, Expire, InterfaceUp,
               ElsewhereUnchanged, Modes
<1>12. CASE Network \/ UNCHANGED vars
  BY <1>12 DEF Network, ElsewhereUnchanged, vars, Modes
<1> QED
  BY <1>1, <1>2, <1>3, <1>4, <1>5, <1>6, <1>7, <1>8, <1>9, <1>10, <1>11, <1>12
  DEF Next, Main, Handler

\* Whatever ends the station's link, the news of it is the last event, or there
\* was none to tell.
LEMMA TearDownFollows ==
  ASSUME TypeOK, LedFollows, TearDown, UNCHANGED <<handling, led, late>>
  PROVE  LedFollows'
<1>1. CASE link # "idle" /\ events' = Append(events, "disconnected")
  <2>1. Told' = "disconnected"
    BY <1>1, AppendEvents DEF TypeOK, Event, Told
  <2> QED
    BY <1>1, <2>1 DEF TearDown, LedFollows
<1>2. CASE link \in {"idle", "connecting"} /\ events' = events
  BY <1>2 DEF TearDown, LedFollows, Told
<1> QED
  BY <1>1, <1>2 DEF TearDown

LEMMA LedStepFollows == TypeOK /\ Modes /\ LedFollows /\ [Next]_vars => LedFollows'
<1> SUFFICES ASSUME TypeOK, Modes, LedFollows, [Next]_vars PROVE LedFollows'
  OBVIOUS
<1> USE DEF driverVars, handlerVars
<1>0. link \in {"idle", "connecting", "assoc", "ip"}
  BY DEF TypeOK
<1>1. ASSUME UNCHANGED <<events, handling, led, late>>,
             link' = "ip" => link = "ip",
             link' \in {"idle", "connecting"} => link \in {"idle", "connecting"}
      PROVE  LedFollows'
  BY <1>1 DEF LedFollows, Told
<1>2. CASE StartStation \/ NoCredentials \/ TakeIp \/ EndIp6 \/ Timeout \/ Again \/ StartAp
  BY <1>1, <1>2 DEF StartStation, NoCredentials, TakeIp, EndIp6, Timeout, Again, StartAp
<1>3. CASE Attempt \/ EndDisconnected
  <2>1. Connect \/ ConnectError \/ UNCHANGED link
    BY <1>3 DEF Attempt, EndDisconnected
  <2>2. /\ link' = "ip" => link = "ip"
        /\ link' \in {"idle", "connecting"} => link \in {"idle", "connecting"}
    BY <2>1 DEF Connect, ConnectError
  <2>3. CASE Attempt
    BY <2>2, <2>3, <1>1 DEF Attempt
  <2>4. CASE EndDisconnected
    BY <2>2, <2>4 DEF EndDisconnected, LedFollows, Told
  <2> QED
    BY <1>3, <2>3, <2>4
<1>4. CASE Disconnect \/ StopStation
  BY <1>4, TearDownFollows DEF Disconnect, StopStation
<1>5. CASE ShowAp
  <2>1. link # "ip"
    BY <1>5 DEF ShowAp, Modes
  <2> QED
    BY <1>5, <2>1 DEF ShowAp, LedFollows, Told
<1>6. CASE BeginDisconnected
  <2>1. Told' = Told
    <3>1. CASE Len(events) = 1
      BY <1>6, <3>1, TailEvents DEF BeginDisconnected, DisconnectedLed, Told, TypeOK
    <3>2. CASE Len(events) # 1
      BY <1>6, <3>2, TailEvents DEF BeginDisconnected, DisconnectedLed, Told, TypeOK
    <3> QED
      BY <3>1, <3>2
  <2> QED
    BY <1>6, <2>1 DEF BeginDisconnected, DisconnectedLed, LedFollows
<1>7. CASE BeginGotIp
  <2>1. Told' = Told
    <3>1. CASE Len(events) = 1
      BY <1>7, <3>1, TailEvents DEF BeginGotIp, Told, TypeOK
    <3>2. CASE Len(events) # 1
      BY <1>7, <3>2, TailEvents DEF BeginGotIp, Told, TypeOK
    <3> QED
      BY <3>1, <3>2
  <2> QED
    BY <1>7, <2>1 DEF BeginGotIp, LedFollows
<1>8. CASE EndGotIp
  BY <1>8 DEF EndGotIp, LedFollows, Told
<1>9. CASE Associate \/ Answer \/ Expire \/ Network
  BY <1>9, <1>1 DEF Associate, Answer, Expire, Network, ElsewhereUnchanged
<1>10. CASE Lease
  <2>1. Told' = "got_ip"
    BY <1>10, AppendEvents DEF Lease, Post, Told, TypeOK, Event
  <2>2. link' \in {"idle", "connecting"} => late' # {}
    BY <1>10 DEF Lease
  <2> QED
    BY <1>10, <2>1, <2>2 DEF Lease, ElsewhereUnchanged, LedFollows
<1>11. CASE Lose
  <2>1. Told' = "disconnected"
    BY <1>11, AppendEvents DEF Lose, Post, Told, TypeOK, Event
  <2> QED
    BY <1>11, <2>1 DEF Lose, ElsewhereUnchanged, LedFollows
<1>12. CASE UNCHANGED vars
  BY <1>1, <1>12 DEF vars
<1> QED
  BY <1>2, <1>3, <1>4, <1>5, <1>6, <1>7, <1>8, <1>9, <1>10, <1>11, <1>12
  DEF Next, Main, Handler, Driver, Dhcp

LEMMA TokensStep == TypeOK /\ Tokens /\ [Next]_vars => Tokens'
<1> SUFFICES ASSUME TypeOK, Tokens, [Next]_vars PROVE Tokens'
  OBVIOUS
<1> USE DEF driverVars, handlerVars, Joined
<1>1. CASE StartStation \/ NoCredentials \/ Attempt \/ EndIp6 \/ Timeout
  BY <1>1 DEF StartStation, NoCredentials, Attempt, EndIp6, Timeout, Tokens
<1>2. CASE TakeIp
  BY <1>2 DEF TakeIp, Tokens
<1>3. CASE Disconnect \/ Again \/ StopStation \/ StartAp \/ ShowAp
  BY <1>3 DEF Disconnect, Again, StopStation, StartAp, ShowAp, Tokens
<1>4. CASE Handler
  BY <1>4 DEF Handler, BeginDisconnected, EndDisconnected, BeginGotIp, EndGotIp, Tokens
<1>5. CASE Driver \/ Dhcp \/ Expire
  BY <1>5 DEF Driver, Associate, Lose, Dhcp, Answer, Lease, Expire, ElsewhereUnchanged, Tokens
<1>6. CASE Network \/ UNCHANGED vars
  BY <1>6 DEF Network, ElsewhereUnchanged, vars, Tokens
<1> QED
  BY <1>1, <1>2, <1>3, <1>4, <1>5, <1>6 DEF Next, Main

\* Posting a disconnect event restores StaleIpFollowed and leaves one pending.
LEMMA PostDisconnected ==
  ASSUME TypeOK, events' = Append(events, "disconnected")
  PROVE  /\ StaleIpFollowed'
         /\ \E i \in DOMAIN events' : events'[i] = "disconnected"
<1>1. /\ Len(events) \in Nat
      /\ DOMAIN events' = 1 .. Len(events) + 1
      /\ events'[Len(events) + 1] = "disconnected"
  BY AppendEvents, LenProperties DEF TypeOK, Event
<1>2. \A i \in DOMAIN events' : events'[i] = "got_ip" => i < Len(events) + 1
  BY <1>1
<1> QED
  BY <1>1, <1>2 DEF StaleIpFollowed

\* Taking the oldest event keeps StaleIpFollowed: what follows stays behind it.
LEMMA TakeEvent ==
  ASSUME TypeOK, StaleIpFollowed, events # <<>>, events' = Tail(events),
         UNCHANGED <<link, late>>, staConnected => staConnected'
  PROVE  StaleIpFollowed'
<1>1. /\ Len(events) \in Nat \ {0}
      /\ DOMAIN events = 1 .. Len(events)
      /\ DOMAIN events' = 1 .. Len(events) - 1
      /\ \A i \in 1 .. Len(events) - 1 : events'[i] = events[i + 1]
  BY TailEvents, LenProperties DEF TypeOK
<1> SUFFICES ASSUME ~staConnected, link \in {"idle", "connecting"}, "before" \notin late,
                    NEW i \in DOMAIN events', events'[i] = "got_ip"
             PROVE  \E j \in DOMAIN events' : j > i /\ events'[j] = "disconnected"
  BY DEF StaleIpFollowed
<1>2. i + 1 \in DOMAIN events /\ events[i + 1] = "got_ip"
  BY <1>1
<1>3. PICK k \in DOMAIN events : k > i + 1 /\ events[k] = "disconnected"
  BY <1>2 DEF StaleIpFollowed
<1>4. k - 1 \in DOMAIN events' /\ k - 1 > i /\ events'[k - 1] = "disconnected"
  BY <1>1, <1>2, <1>3
<1> QED
  BY <1>4

LEMMA StaleIpStep == TypeOK /\ StaleIpFollowed /\ [Next]_vars => StaleIpFollowed'
<1> SUFFICES ASSUME TypeOK, StaleIpFollowed, [Next]_vars PROVE StaleIpFollowed'
  OBVIOUS
<1> USE DEF driverVars, handlerVars
<1>1. ASSUME UNCHANGED <<events, late, staConnected>>,
             link' \in {"idle", "connecting"} => link \in {"idle", "connecting"}
      PROVE  StaleIpFollowed'
  BY <1>1 DEF StaleIpFollowed
<1>2. CASE StartStation \/ NoCredentials \/ TakeIp \/ EndIp6 \/ Timeout \/ Again
  BY <1>1, <1>2 DEF StartStation, NoCredentials, TakeIp, EndIp6, Timeout, Again
<1>3. CASE StartAp \/ ShowAp \/ EndGotIp \/ UNCHANGED vars
  BY <1>1, <1>3 DEF StartAp, ShowAp, EndGotIp, vars
<1>4. CASE Attempt \/ EndDisconnected
  <2>1. (Connect \/ ConnectError \/ UNCHANGED link) /\ UNCHANGED <<events, late, staConnected>>
    BY <1>4 DEF Attempt, EndDisconnected
  <2>2. link' \in {"idle", "connecting"} => link \in {"idle", "connecting"}
    BY <2>1 DEF Connect, ConnectError
  <2> QED
    BY <2>1, <2>2, <1>1
<1>5. CASE Disconnect \/ StopStation
  <2>1. TearDown /\ UNCHANGED <<late, staConnected>>
    BY <1>5 DEF Disconnect, StopStation
  <2>2. CASE events' = Append(events, "disconnected")
    BY <2>2, PostDisconnected
  <2>3. CASE link \in {"idle", "connecting"} /\ events' = events
    BY <2>1, <2>3, <1>1 DEF TearDown
  <2> QED
    BY <2>1, <2>2, <2>3 DEF TearDown
<1>6. CASE BeginDisconnected \/ BeginGotIp
  BY <1>6, TakeEvent DEF BeginDisconnected, BeginGotIp
<1>7. CASE Associate \/ Answer \/ Expire \/ Network
  BY <1>7, <1>1 DEF Associate, Answer, Expire, Network, ElsewhereUnchanged
<1>8. CASE Lease
  <2>1. CASE InterfaceUp
    BY <1>8, <2>1 DEF Lease, StaleIpFollowed
  <2>2. CASE ~InterfaceUp
    BY <1>8, <2>2 DEF Lease, ElsewhereUnchanged, StaleIpFollowed
  <2> QED
    BY <2>1, <2>2
<1>9. CASE Lose
  BY <1>9, PostDisconnected DEF Lose, Post
<1> QED
  BY <1>2, <1>3, <1>4, <1>5, <1>6, <1>7, <1>8, <1>9 DEF Next, Main, Handler, Driver, Dhcp

LEMMA AttendedStep == IInv /\ [Next]_vars => Attended'
<1> SUFFICES ASSUME IInv, [Next]_vars, ~refused', "before" \notin late', staConnected',
                    link' = "idle",
                    pc' \in {"take"} \union Joined
             PROVE  handling' = "disconnected"
                    \/ \E i \in DOMAIN events' : events'[i] = "disconnected"
  BY DEF Attended
<1> USE DEF driverVars, handlerVars, Joined
<1>1. TypeOK /\ Modes /\ StaleIpFollowed /\ Attended /\ Tokens
  BY DEF IInv
<1>2. ASSUME UNCHANGED <<events, handling, staConnected, refused, link, late>>,
             pc \in {"take"} \union Joined
      PROVE  handling' = "disconnected"
             \/ \E i \in DOMAIN events' : events'[i] = "disconnected"
  BY <1>1, <1>2 DEF Attended
<1>3. CASE StartStation \/ NoCredentials \/ Timeout \/ Disconnect \/ Again
           \/ StopStation \/ StartAp \/ ShowAp
  BY <1>3 DEF StartStation, NoCredentials, Timeout, Disconnect, Again, StopStation,
              StartAp, ShowAp
<1>4. CASE Attempt
  <2>1. pc' = "take" => mode = "sta" /\ Connect
    BY <1>1, <1>4 DEF Attempt, Modes, Retrying, ConnectError
  <2>2. link' # "idle"
    BY <1>4, <2>1 DEF Attempt, Connect
  <2> QED
    BY <2>2
<1>5. CASE TakeIp \/ EndIp6 \/ Network
  BY <1>2, <1>5 DEF TakeIp, EndIp6, Network, ElsewhereUnchanged
<1>6. CASE BeginDisconnected
  BY <1>6 DEF BeginDisconnected
<1>7. CASE EndDisconnected
  <2>1. staConnected /\ pc \in {"take"} \union Joined
    BY <1>7 DEF EndDisconnected
  <2>2. Connect
    BY <1>7, <2>1 DEF EndDisconnected, MayReconnect
  <2>3. mode = "sta"
    BY <1>1, <2>1 DEF Modes, Retrying
  <2>4. link' # "idle"
    BY <2>2, <2>3 DEF Connect
  <2> QED
    BY <2>4
<1>8. CASE BeginGotIp
  <2>1. /\ Len(events) \in Nat \ {0}
        /\ DOMAIN events = 1 .. Len(events)
        /\ DOMAIN events' = 1 .. Len(events) - 1
        /\ \A i \in 1 .. Len(events) - 1 : events'[i] = events[i + 1]
        /\ events[1] = "got_ip"
    BY <1>1, <1>8, TailEvents, LenProperties DEF BeginGotIp, TypeOK
  <2>2. link = "idle" /\ "before" \notin late /\ ~refused /\ pc \in {"take"} \union Joined
        /\ handling = "none"
    BY <1>8 DEF BeginGotIp
  <2>3. PICK j \in DOMAIN events : j > 1 /\ events[j] = "disconnected"
    <3>1. CASE staConnected
      <4>1. PICK j \in DOMAIN events : events[j] = "disconnected"
        BY <1>1, <2>2, <3>1 DEF Attended
      <4> QED
        BY <2>1, <4>1
    <3>2. CASE ~staConnected
      BY <1>1, <2>1, <2>2, <3>2 DEF StaleIpFollowed
    <3> QED
      BY <3>1, <3>2
  <2>4. j - 1 \in DOMAIN events' /\ events'[j - 1] = "disconnected"
    BY <2>1, <2>3
  <2> QED
    BY <2>4
<1>9. CASE EndGotIp
  <2>1. UNCHANGED <<pc, link, events, late, staConnected, refused>> /\ handling # "disconnected"
    BY <1>9 DEF EndGotIp
  <2> QED
    BY <1>1, <2>1 DEF Attended
<1>10. CASE Associate \/ Answer \/ Expire
  BY <1>10 DEF Associate, Answer, Expire, InterfaceUp
<1>11. CASE Lose
  BY <1>1, <1>11, PostDisconnected DEF Lose, Post
<1>12. CASE UNCHANGED vars
  BY <1>2, <1>12 DEF vars
<1>13. CASE Lease
  <2>1. /\ link = "idle" /\ staConnected /\ ~refused /\ pc \in {"take"} \union Joined
        /\ "before" \notin late /\ handling' = handling
    BY <1>13 DEF Lease, ElsewhereUnchanged, InterfaceUp
  <2>2. ASSUME NEW i \in DOMAIN events, events[i] = "disconnected"
        PROVE  \E j \in DOMAIN events' : events'[j] = "disconnected"
    <3>1. i \in DOMAIN events' /\ events'[i] = events[i]
      BY <1>1, <1>13, <2>2, AppendEvents, LenProperties DEF Lease, Post, TypeOK, Event
    <3> QED
      BY <2>2, <3>1
  <2> QED
    BY <1>1, <2>1, <2>2 DEF Attended
<1> QED
  BY <1>3, <1>4, <1>5, <1>6, <1>7, <1>8, <1>9, <1>10, <1>11, <1>12, <1>13
  DEF Next, Main, Handler, Driver, Dhcp

\* The inductive invariant: modes and attempts of wifi_init(), what the LED will
\* end up showing, and the events an idle station has coming.
THEOREM Invariance == Spec => []IInv
<1>1. IInv /\ [Next]_vars => IInv'
  BY TypeStep, ModesStep, LedStepFollows, TokensStep, StaleIpStep, AttendedStep
  DEF IInv
<1> QED
  BY InitIInv, <1>1, PTL DEF Spec

\* wifi.c keeps its types: no attempt beyond the last, and only known events.
THEOREM TypeCorrect == Spec => []TypeOK
<1>1. IInv => TypeOK
  BY DEF IInv
<1> QED
  BY Invariance, <1>1, PTL

\* When all events have been handled, a station with an address is not shown as
\* disconnected, nor one without a link as connected, however the handlers, the
\* retry loop, the driver and the DHCP client interleave; but for an address posted
\* behind the news that its link has gone.
THEOREM LedTruthful == Spec => []LedTells
<1>1. IInv => LedTells
  BY DEF IInv, TypeOK, LedFollows, Told, LedTells
<1> QED
  BY Invariance, <1>1, PTL

\* After wifi_init() has joined, an idle station always has a disconnect event
\* that will make it connect again, until esp_wifi_connect() fails in the handler;
\* but for a first address that came behind the news that its link has gone.
THEOREM StationAttended == Spec => []NeverStranded
<1>1. IInv => NeverStranded
  BY DEF IInv, Tokens, Attended, NeverStranded
<1> QED
  BY Invariance, <1>1, PTL

\* wifi_init() implements the state machine of the documentation: at most
\* MaxAttempts attempts, the access point only without credentials or after the
\* last of them, and no way back.
THEOREM BootImplemented == Spec => BootSpec
<1> USE DEF Boot!Try, Boot!Join, Boot!FallBack, Retrying, Joined, FallingBack
<1>1. Init => Boot!Init
  BY DEF Init, Boot!Init
<1>2. ASSUME IInv, [Next]_vars
      PROVE  [Boot!Next]_<<IF pc \in Joined THEN "sta"
                           ELSE IF pc = "ap" THEN "ap"
                           ELSE IF attempt = 0 THEN "boot" ELSE "trying", attempt>>
  <2> USE DEF Boot!Next
  <2>1. TypeOK /\ Modes
    BY <1>2 DEF IInv
  <2>2. CASE StartStation
    BY <2>1, <2>2, WifiAssumption DEF StartStation, Modes
  <2>3. CASE TakeIp
    BY <2>1, <2>3 DEF TakeIp, Modes
  <2>4. CASE Again
    <3>1. attempt \in 1 .. MaxAttempts /\ pc = "delay"
      BY <2>1, <2>4 DEF Again, Modes
    <3>2. CASE AttemptsLeft
      BY <2>4, <3>1, <3>2, WifiAssumption DEF Again, AttemptsLeft
    <3>3. CASE ~AttemptsLeft
      BY <2>4, <3>1, <3>3 DEF Again
    <3> QED
      BY <3>2, <3>3
  <2>5. CASE ShowAp
    BY <2>1, <2>5, WifiAssumption DEF ShowAp, Modes
  <2>6. CASE NoCredentials \/ Attempt \/ EndIp6 \/ Timeout \/ Disconnect \/ StopStation
             \/ StartAp
    BY <2>1, <2>6 DEF NoCredentials, Attempt, EndIp6, Timeout, Disconnect, StopStation,
                      StartAp, Modes
  <2>7. CASE Handler \/ Driver \/ Dhcp \/ Expire \/ Network \/ UNCHANGED vars
    BY <2>7 DEF Handler, BeginDisconnected, EndDisconnected, BeginGotIp, EndGotIp, Driver,
                Associate, Lose, Dhcp, Answer, Lease, Expire, ElsewhereUnchanged, Network, vars
  <2> QED
    BY <1>2, <2>2, <2>3, <2>4, <2>5, <2>6, <2>7 DEF Next, Main
<1> QED
  BY <1>1, <1>2, Invariance, PTL DEF Spec, BootSpec, Boot!Spec

-----------------------------------------------------------------------------
\* wifi_init() ends.

\* How many steps wifi_init() may still take: the rest of this attempt, four steps
\* for each attempt that is left, and the fall-back.
Rank == [creds |-> 4 * MaxAttempts + 8,
         connect |-> 7, take |-> 6, disconnect |-> 5, delay |-> 4,
         ap_stop |-> 3, ap_start |-> 2, ap_led |-> 1, ap |-> 0,
         ip6 |-> 1, sta |-> 0]
Remaining == Rank[pc] + IF pc \in Retrying THEN 4 * (MaxAttempts - attempt) ELSE 0

\* Every step of wifi_init() brings its end closer, and no event, network or
\* handler puts it off.
BootBounded == [][IF Main THEN Remaining' < Remaining
                  ELSE UNCHANGED Remaining]_vars

\* Where each of its steps leads.
LEMMA MainSteps ==
  ASSUME TypeOK, Modes, Main
  PROVE  /\ pc = "creds" => pc' = "ap_stop" \/ (pc' = "connect" /\ attempt' = 1)
         /\ pc = "connect" => pc' \in {"take", "delay"} /\ attempt' = attempt
         /\ pc = "take" => /\ attempt' = attempt
                           /\ pc' \in {"ip6", "disconnect"}
         /\ pc = "disconnect" => pc' = "delay" /\ attempt' = attempt
         /\ pc = "delay" => \/ pc' = "ap_stop"
                            \/ /\ pc' = "connect" /\ attempt' = attempt + 1
                               /\ attempt < MaxAttempts
         /\ pc = "ip6" => pc' = "sta"
         /\ pc = "ap_stop" => pc' = "ap_start"
         /\ pc = "ap_start" => pc' = "ap_led"
         /\ pc = "ap_led" => pc' = "ap"
         /\ pc \notin {"sta", "ap"}
<1>1. attempt \in Nat /\ MaxAttempts \in Nat
  BY WifiAssumption DEF TypeOK
<1>2. CASE StartStation
  BY <1>2 DEF StartStation
<1>3. CASE NoCredentials
  BY <1>3 DEF NoCredentials
<1>4. CASE Attempt \/ TakeIp \/ EndIp6 \/ Timeout
  BY <1>4 DEF Attempt, TakeIp, EndIp6, Timeout
<1>5. CASE Disconnect \/ StopStation \/ StartAp \/ ShowAp
  BY <1>5 DEF Disconnect, StopStation, StartAp, ShowAp
<1>6. CASE Again
  BY <1>1, <1>6 DEF Again, AttemptsLeft
<1> QED
  BY <1>2, <1>3, <1>4, <1>5, <1>6 DEF Main

\* Nobody else moves it.
LEMMA OthersWait == [Next]_vars => Main \/ UNCHANGED <<pc, attempt>>
  BY DEF Next, Handler, BeginDisconnected, EndDisconnected, BeginGotIp, EndGotIp, Driver,
         Associate, Lose, Dhcp, Answer, Lease, Expire, ElsewhereUnchanged, Network, vars

LEMMA RemainingRange == IInv => Remaining \in 0 .. 4 * MaxAttempts + 8
  BY WifiAssumption DEF IInv, TypeOK, Modes, Remaining, Rank, Retrying, Joined, FallingBack

LEMMA RemainingStep ==
  ASSUME IInv, [Next]_vars
  PROVE  /\ Main => Remaining' < Remaining
         /\ ~Main => Remaining' = Remaining
<1>1. /\ TypeOK /\ Modes
      /\ attempt \in Nat /\ MaxAttempts \in Nat /\ attempt <= MaxAttempts
  BY WifiAssumption DEF IInv, TypeOK
<1>2. ASSUME Main PROVE Remaining' < Remaining
  <2> USE <1>1, <1>2 DEF Remaining, Rank, Retrying
  <2>1. CASE pc = "creds"
    BY <2>1, MainSteps, WifiAssumption
  <2>2. CASE pc = "connect"
    BY <2>2, MainSteps
  <2>3. CASE pc = "take"
    BY <2>3, MainSteps
  <2>4. CASE pc \in {"disconnect", "delay"}
    BY <2>4, MainSteps
  <2>5. CASE pc \in {"ip6", "ap_stop", "ap_start", "ap_led"}
    BY <2>5, MainSteps
  <2> QED
    BY <2>1, <2>2, <2>3, <2>4, <2>5, MainSteps DEF TypeOK, Joined, FallingBack
<1>3. ASSUME UNCHANGED <<pc, attempt>> PROVE UNCHANGED Remaining
  BY <1>3 DEF Remaining, Rank
<1> QED
  BY <1>2, <1>3, OthersWait

\* The number of steps left of wifi_init() falls with every one it takes, and stays
\* when any handler, event or network interferes: it takes at most
\* 4 * MaxAttempts + 8 of them.
THEOREM BootIsBounded == Spec => BootBounded /\ [](Remaining \in 0 .. 4 * MaxAttempts + 8)
<1>1. IInv /\ [Next]_vars => [IF Main THEN Remaining' < Remaining ELSE UNCHANGED Remaining]_vars
  BY RemainingStep
<1> QED
  BY <1>1, RemainingRange, Invariance, PTL DEF Spec, BootBounded

Ended == pc \in {"sta", "ap"}

\* What is left to do: the steps of wifi_init(), and then the events that wait,
\* with one that may still come of a link that is gone.
StaleAnswer == answered /\ ~InterfaceUp
Waiting == IF Ended THEN Len(events) + (IF StaleAnswer THEN 1 ELSE 0) ELSE Remaining

\* While it falls, the binary digits of a number come to rest, the highest first.
Part(k) == Waiting \div k
Steady(k) == Part(k)' = Part(k)
Odd(k) == Part(k) % 2 = 1

Halves(k, j) == /\ Steady(j) /\ Odd(k)' => Odd(k)
                /\ Steady(j) /\ (Odd(k)' <=> Odd(k)) => Steady(k)

Descent == /\ Steady(256)
           /\ Halves(1, 2) /\ Halves(2, 4) /\ Halves(4, 8) /\ Halves(8, 16)
           /\ Halves(16, 32) /\ Halves(32, 64) /\ Halves(64, 128) /\ Halves(128, 256)

LEMMA Halving ==
  ASSUME NEW m \in Nat, NEW n \in Nat, n <= m
  PROVE  /\ n \div 2 = m \div 2 /\ n % 2 = 1 => m % 2 = 1
         /\ n \div 2 = m \div 2 /\ (n % 2 = 1 <=> m % 2 = 1) => n = m
  OBVIOUS

LEMMA HalvesStep ==
  ASSUME NEW k, NEW j, Part(k) \in Nat, Part(k)' \in Nat, Part(k)' <= Part(k),
         Part(j) = Part(k) \div 2, Part(j)' = Part(k)' \div 2
  PROVE  Halves(k, j)
  BY Halving DEF Halves, Steady, Odd

LEMMA Descends ==
  ASSUME Waiting \in Nat, Waiting < 256, Waiting' \in Nat, (Waiting < 256)',
         Waiting' <= Waiting
  PROVE  Descent
<1>1. Halves(1, 2)
  BY HalvesStep DEF Part
<1>2. Halves(2, 4)
  BY HalvesStep DEF Part
<1>3. Halves(4, 8)
  BY HalvesStep DEF Part
<1>4. Halves(8, 16)
  BY HalvesStep DEF Part
<1>5. Halves(16, 32)
  BY HalvesStep DEF Part
<1>6. Halves(32, 64)
  BY HalvesStep DEF Part
<1>7. Halves(64, 128)
  BY HalvesStep DEF Part
<1>8. Halves(128, 256)
  BY HalvesStep DEF Part
<1>9. Steady(256)
  <2>1. \A n \in Nat : n < 256 => n \div 256 = 0
    OBVIOUS
  <2>2. Part(256) = 0 /\ Part(256)' = 0
    BY <2>1 DEF Part
  <2> QED
    BY <2>2 DEF Steady
<1> QED
  BY <1>1, <1>2, <1>3, <1>4, <1>5, <1>6, <1>7, <1>8, <1>9 DEF Descent

LEMMA SteadyStutter == UNCHANGED vars => Steady(16) /\ Steady(1)
<1>1. UNCHANGED vars => Waiting' = Waiting
  BY DEF vars, driverVars, Waiting, Ended, Remaining, StaleAnswer, InterfaceUp
<1> QED
  BY <1>1 DEF Steady, Part

\* The code's 3 attempts are few.
FewAttempts == 4 * MaxAttempts + 8 < 256

LEMMA RemainingFalls ==
  ASSUME FewAttempts, IInv, IInv', [Next]_vars, ~Ended, ~Ended'
  PROVE  Descent /\ (Steady(1) => [~Main]_vars)
<1>1. (IInv => Remaining \in 0 .. 4 * MaxAttempts + 8)'
  BY RemainingRange, PTL
<1>2. /\ Waiting = Remaining /\ Waiting' = Remaining'
      /\ Waiting \in Nat /\ Waiting < 256 /\ Waiting' \in Nat /\ (Waiting < 256)'
  BY <1>1, RemainingRange, WifiAssumption DEF Waiting, FewAttempts
<1>3. CASE Main
  <2>1. Waiting' <= Waiting /\ Waiting' # Waiting
    BY <1>1, <1>2, <1>3, RemainingRange, RemainingStep
  <2>2. ~Steady(1)
    <3>1. \A m \in Nat : m \div 1 = m
      OBVIOUS
    <3> QED
      BY <1>2, <2>1, <3>1 DEF Steady, Part
  <2> QED
    BY <1>2, <2>1, <2>2, Descends
<1>4. CASE ~Main
  <2>1. Waiting' <= Waiting
    BY <1>2, <1>4, RemainingStep
  <2> QED
    BY <1>2, <1>4, <2>1, Descends
<1> QED
  BY <1>3, <1>4

\* wifi_init() returns whatever the network does, with an event queue of any length.
\* MainPossible, which says that a step of it is possible until then, is a
\* hypothesis, for want of a rule about ENABLED.
THEOREM BootReturns ==
  ASSUME FewAttempts
  PROVE  FairSpec /\ []MainPossible => BootEnds
<1> DEFINE Onward == IInv /\ IInv' /\ [Next]_vars /\ ~Ended /\ ~Ended'
           Lasting == FairSpec /\ []MainPossible /\ []~Ended
<1>1. Onward => Descent /\ (Steady(1) => [~Main]_vars)
  BY RemainingFalls
<1>2. Lasting => <>[][Steady(16)]_vars
  BY <1>1, SteadyStutter, Invariance, PTL DEF FairSpec, Spec, Descent, Halves
<1>3. Lasting => <>[][Steady(1)]_vars
  BY <1>1, <1>2, SteadyStutter, Invariance, PTL DEF FairSpec, Spec, Descent, Halves
<1>4. Lasting => <>[][~Main]_vars
  BY <1>1, <1>3, SteadyStutter, Invariance, PTL DEF FairSpec, Spec
<1>5. MainPossible /\ ~Ended => ENABLED <<Main>>_vars
  BY DEF MainPossible, Ended
<1>6. ~Lasting
  BY <1>4, <1>5, PTL DEF FairSpec
<1>7. Ended => pc \in {"sta", "ap"}
  BY DEF Ended
<1> QED
  BY <1>6, <1>7, PTL DEF BootEnds

-----------------------------------------------------------------------------
\* A station that had joined joins again.

\* The driver's own calls do not wait for room: one event an attempt, and one when
\* the station is stopped, come on top of those the driver may have waiting.
PostedByCalls == IF pc \in {"connect", "take", "disconnect"} THEN attempt - 1
                 ELSE IF pc \in {"ap_start", "ap_led", "ap"} THEN attempt + 1
                 ELSE attempt
EventsBounded == Len(events) <= EventBound + PostedByCalls

LEMMA BoundStep == TypeOK /\ Modes /\ EventsBounded /\ [Next]_vars => EventsBounded'
<1> SUFFICES ASSUME TypeOK, Modes, EventsBounded, [Next]_vars PROVE EventsBounded'
  OBVIOUS
<1> DEFINE n == Len(events)
           p == PostedByCalls
<1>1. events \in Seq(Event) /\ n \in Nat /\ EventBound \in Nat /\ n <= EventBound + p
  BY WifiAssumption, LenProperties DEF TypeOK, EventsBounded
<1>2. p \in Nat
  BY DEF TypeOK, Modes, Retrying, PostedByCalls
<1>3. Len(Append(events, "disconnected")) = n + 1 /\ Len(Append(events, "got_ip")) = n + 1
  BY <1>1, AppendEvents DEF Event
<1>4. CASE BeginDisconnected \/ BeginGotIp
  <2>1. Len(events') = n - 1 /\ p' = p
    BY <1>1, <1>4, TailEvents DEF BeginDisconnected, BeginGotIp, PostedByCalls
  <2> HIDE DEF n, p
  <2> QED
    BY <1>1, <1>2, <2>1 DEF EventsBounded, n, p
<1>5. CASE Lease \/ Lose
  <2>1. n < EventBound /\ Len(events') = n + 1 /\ p' = p
    BY <1>3, <1>5 DEF Lease, Lose, Post, ElsewhereUnchanged, PostedByCalls
  <2> HIDE DEF n, p
  <2> QED
    BY <1>1, <1>2, <2>1 DEF EventsBounded, n, p
<1>6. CASE Disconnect \/ StopStation
  <2>1. Len(events') = n + 1 \/ Len(events') = n
    BY <1>3, <1>6 DEF Disconnect, StopStation, TearDown
  <2>2. p' = p + 1
    BY <1>6 DEF Disconnect, StopStation, PostedByCalls, TypeOK
  <2> HIDE DEF n, p
  <2> QED
    BY <1>1, <1>2, <2>1, <2>2 DEF EventsBounded, n, p
<1>7. CASE StartStation \/ NoCredentials \/ Attempt \/ TakeIp \/ EndIp6 \/ Timeout \/ Again
           \/ StartAp \/ ShowAp
  <2>1. Len(events') = n
    BY <1>7 DEF StartStation, NoCredentials, Attempt, TakeIp, EndIp6, Timeout, Again, StartAp, ShowAp,
                driverVars
  <2>2. p' = p \/ p' = p + 1
    <3>1. CASE StartStation
      BY <3>1 DEF StartStation, PostedByCalls, Modes
    <3>2. CASE NoCredentials \/ EndIp6 \/ StartAp \/ ShowAp
      BY <3>2 DEF NoCredentials, EndIp6, StartAp, ShowAp, PostedByCalls
    <3>3. CASE Attempt \/ TakeIp \/ Timeout
      BY <3>3 DEF Attempt, TakeIp, Timeout, PostedByCalls, TypeOK
    <3>4. CASE Again
      BY <3>4 DEF Again, PostedByCalls, TypeOK
    <3> QED
      BY <1>7, <3>1, <3>2, <3>3, <3>4
  <2> HIDE DEF n, p
  <2> QED
    BY <1>1, <1>2, <2>1, <2>2 DEF EventsBounded, n, p
<1>8. CASE EndDisconnected \/ EndGotIp \/ Associate \/ Answer \/ Expire \/ Network
           \/ UNCHANGED vars
  <2>1. Len(events') = n /\ p' = p
    BY <1>8 DEF EndDisconnected, EndGotIp, Associate, Answer, Expire, ElsewhereUnchanged, Network,
                vars, driverVars, PostedByCalls
  <2> HIDE DEF n, p
  <2> QED
    BY <1>1, <2>1 DEF EventsBounded, n, p
<1> QED
  BY <1>4, <1>5, <1>6, <1>7, <1>8 DEF Next, Main, Handler, Driver, Dhcp

\* The event queue never exceeds what the driver may have waiting by more than the
\* attempts and one.
THEOREM QueueBounded == Spec => []EventsBounded
<1>1. Init => EventsBounded
  <2> SUFFICES ASSUME Init PROVE EventsBounded
    OBVIOUS
  <2>1. Len(events) = 0 /\ PostedByCalls = 0
    BY EmptySeq DEF Init, PostedByCalls
  <2> QED
    BY <2>1, WifiAssumption DEF EventsBounded
<1>2. IInv => TypeOK /\ Modes
  BY DEF IInv
<1> QED
  BY <1>1, <1>2, BoundStep, Invariance, PTL DEF Spec

Begin == BeginDisconnected \/ BeginGotIp
Home == link = "ip"
Joining == net /\ pc = "sta" /\ ~refused /\ "before" \notin late /\ ~Home
Busy == handling # "none"
Waits == events # <<>>
LinkAt(l) == link = l
Answered == answered

\* The code's 32 entries and 3 attempts are few.
FewEvents == EventBound + MaxAttempts + 2 < 256

Sound == IInv /\ EventsBounded

LEMMA IInvMeans == IInv => events \in Seq(Event) /\ attempt \in 0 .. MaxAttempts
  BY DEF IInv, TypeOK

\* An interface that is up stays so while events are taken and nothing is torn down.
LEMMA TakenStaysUp ==
  ASSUME TypeOK, InterfaceUp, Begin
  PROVE  InterfaceUp'
<1>1. events # <<>> /\ events' = Tail(events) /\ link' = link
  BY DEF Begin, BeginDisconnected, BeginGotIp
<1>2. /\ Len(events) \in Nat \ {0}
      /\ DOMAIN events = 1 .. Len(events)
      /\ DOMAIN events' = 1 .. Len(events) - 1
      /\ \A i \in 1 .. Len(events) - 1 : events'[i] = events[i + 1]
  BY <1>1, TailEvents, LenProperties DEF TypeOK
<1>3. ASSUME NEW i \in DOMAIN events' PROVE events'[i] # "disconnected"
  <2>1. i + 1 \in DOMAIN events /\ events'[i] = events[i + 1]
    BY <1>2
  <2> QED
    BY <2>1 DEF InterfaceUp
<1> QED
  BY <1>1, <1>3 DEF InterfaceUp

\* What the steps make of the events that wait and the answer that is stale.
LEMMA WaitingStep ==
  ASSUME TypeOK, Modes, [Next]_vars, Joining, Joining'
  PROVE  /\ Begin => Len(events') = Len(events) - 1 /\ (StaleAnswer' => StaleAnswer)
         /\ ~Begin => \/ UNCHANGED events /\ (StaleAnswer' => StaleAnswer)
                      \/ Len(events') = Len(events) + 1 /\ StaleAnswer /\ ~StaleAnswer'
<1>1. events \in Seq(Event) /\ Len(events) \in Nat
  BY LenProperties DEF TypeOK
<1>2. CASE BeginDisconnected \/ BeginGotIp
  <2>1. Len(events') = Len(events) - 1
    BY <1>1, <1>2, TailEvents DEF BeginDisconnected, BeginGotIp
  <2>2. Begin
    BY <1>2 DEF Begin
  <2>3. answered' => answered
    BY <1>2 DEF BeginDisconnected, BeginGotIp
  <2>4. StaleAnswer' => StaleAnswer
    BY <2>2, <2>3, TakenStaysUp DEF StaleAnswer
  <2> QED
    BY <2>1, <2>2, <2>4
<1>3. ASSUME UNCHANGED <<events, answered>>, link = "assoc" => link' = "assoc"
      PROVE  UNCHANGED events /\ (StaleAnswer' => StaleAnswer)
  BY <1>3 DEF StaleAnswer, InterfaceUp
<1>4. ASSUME ~Begin
      PROVE  \/ UNCHANGED events /\ (StaleAnswer' => StaleAnswer)
             \/ Len(events') = Len(events) + 1 /\ StaleAnswer /\ ~StaleAnswer'
  <2>1. ~Main /\ ~Lose /\ ~Expire /\ ~Network
    BY MainSteps DEF Joining, Lose, Expire, Network
  <2>2. CASE EndDisconnected \/ EndGotIp
    <3>1. UNCHANGED <<events, answered>> /\ (link = "assoc" => link' = "assoc")
      BY <2>2 DEF EndDisconnected, EndGotIp, Connect, ConnectError, driverVars
    <3> QED
      BY <1>3, <3>1
  <2>3. CASE Associate
    BY <1>3, <2>3 DEF Associate
  <2>4. CASE Answer
    BY <2>4 DEF Answer, StaleAnswer, InterfaceUp
  <2>5. CASE Lease
    <3>1. ~InterfaceUp
      BY <2>5 DEF Lease, Joining, Home
    <3>2. Len(events') = Len(events) + 1
      BY <1>1, <2>5, AppendEvents DEF Lease, Post, Event
    <3> QED
      BY <2>5, <3>1, <3>2 DEF Lease, StaleAnswer
  <2>6. CASE UNCHANGED vars
    BY <1>3, <2>6 DEF vars, driverVars
  <2> QED
    BY <1>4, <2>1, <2>2, <2>3, <2>4, <2>5, <2>6 DEF Next, Handler, Driver, Dhcp, Begin
<1> QED
  BY <1>2, <1>4 DEF Begin

\* Until the station has its address the events only get fewer.
LEMMA WaitingFalls ==
  ASSUME FewEvents, Sound, Sound', [Next]_vars, Joining, Joining'
  PROVE  Descent /\ (Steady(1) => [~Begin]_vars)
<1> DEFINE stale == IF StaleAnswer THEN 1 ELSE 0
<1>1. /\ Waiting = Len(events) + stale /\ Waiting' = Len(events') + stale'
      /\ Len(events) \in Nat /\ Len(events') \in Nat
      /\ Waiting \in Nat /\ Waiting < 256
      /\ Waiting' \in Nat /\ (Waiting < 256)'
  <2>1. IInv => events \in Seq(Event) /\ attempt \in 0 .. MaxAttempts
    BY IInvMeans
  <2>2. (IInv => events \in Seq(Event) /\ attempt \in 0 .. MaxAttempts)'
    BY IInvMeans, PTL
  <2>3. Waiting = Len(events) + stale /\ Waiting' = Len(events') + stale'
    BY DEF Waiting, Ended, Joining
  <2>4. stale \in {0, 1} /\ stale' \in {0, 1}
    OBVIOUS
  <2>5. Len(events) <= EventBound + attempt /\ Len(events') <= EventBound + attempt'
    BY DEF Joining, Sound, EventsBounded, PostedByCalls
  <2>6. Len(events) \in Nat /\ Len(events') \in Nat
    BY <2>1, <2>2, LenProperties DEF Sound
  <2> HIDE DEF stale
  <2> QED
    BY <2>1, <2>2, <2>3, <2>4, <2>5, <2>6, WifiAssumption DEF FewEvents, Sound
<1>2. /\ Begin => Len(events') = Len(events) - 1 /\ (StaleAnswer' => StaleAnswer)
      /\ ~Begin => \/ UNCHANGED events /\ (StaleAnswer' => StaleAnswer)
                   \/ Len(events') = Len(events) + 1 /\ StaleAnswer /\ ~StaleAnswer'
  BY WaitingStep DEF Sound, IInv
<1>3. CASE Begin
  <2>1. Waiting' <= Waiting /\ Waiting' # Waiting
    BY <1>1, <1>2, <1>3
  <2>2. ~Steady(1)
    <3>1. \A m \in Nat : m \div 1 = m
      OBVIOUS
    <3> QED
      BY <1>1, <2>1, <3>1 DEF Steady, Part
  <2> QED
    BY <1>1, <2>1, <2>2, Descends
<1>4. CASE ~Begin
  <2>1. Waiting' <= Waiting
    BY <1>1, <1>2, <1>4
  <2> QED
    BY <1>1, <1>4, <2>1, Descends
<1> QED
  BY <1>3, <1>4

\* What leads to the address.
LEMMA JoinStep ==
  ASSUME Sound, [Next]_vars, Joining, Joining', [~Begin]_vars
  PROVE  /\ Busy' => Busy
         /\ Waits => Waits'
         /\ <<Handler>>_vars => Busy /\ ~Busy'
         /\ ~LinkAt("idle") => ~LinkAt("idle")'
         /\ <<Driver>>_vars => LinkAt("connecting") /\ LinkAt("assoc")'
         /\ LinkAt("assoc") => LinkAt("assoc")'
         /\ <<Dhcp>>_vars /\ ~Waits' => ~Answered /\ Answered'
         /\ ~Waits' /\ Answered => Answered'
<1>1. ~Main /\ ~Lose /\ ~Expire /\ ~Network
  BY MainSteps DEF Joining, Sound, IInv, Lose, Expire, Network
<1>2. CASE Associate
  <2>1. UNCHANGED <<handling, events, answered>> /\ link = "connecting" /\ link' = "assoc"
    BY <1>2 DEF Associate, ElsewhereUnchanged, handlerVars
  <2>2. ~Handler /\ ~Dhcp
    BY <2>1 DEF Handler, BeginDisconnected, BeginGotIp, EndDisconnected, EndGotIp, Dhcp, Answer, Lease
  <2> QED
    BY <2>1, <2>2 DEF Busy, Waits, LinkAt, Answered
<1>3. CASE Answer
  <2>1. UNCHANGED <<handling, events, link>> /\ ~answered /\ answered'
    BY <1>3, Zenon DEF Answer, ElsewhereUnchanged, handlerVars
  <2>2. ~Handler /\ ~Driver
    BY <2>1, <1>1 DEF Handler, BeginDisconnected, BeginGotIp, EndDisconnected, EndGotIp, Driver, Associate
  <2> QED
    BY <2>1, <2>2 DEF Busy, Waits, LinkAt, Answered
<1>4. CASE Lease
  <2>1. ~InterfaceUp
    BY <1>4 DEF Lease, Joining, Home
  <2>2. UNCHANGED <<handling, link>>
    BY <1>4, <2>1 DEF Lease, ElsewhereUnchanged, handlerVars
  <2>3. events' # <<>>
    BY <1>4, AppendEvents DEF Lease, Post, Event, Sound, IInv, TypeOK
  <2>4. ~Handler /\ ~Driver
    <3>1. Len(events') = Len(events) + 1 /\ Len(events) \in Nat
      BY <1>4, AppendEvents DEF Lease, Post, Event, Sound, IInv, TypeOK
    <3>2. events' # events
      BY <3>1
    <3> QED
      BY <1>1, <1>4, <2>2, <3>2 DEF Lease, Handler, BeginDisconnected, BeginGotIp, EndDisconnected,
                                    EndGotIp, Driver, Associate, driverVars
  <2> QED
    BY <2>2, <2>3, <2>4 DEF Busy, Waits, LinkAt, Answered
<1>5. CASE EndDisconnected \/ EndGotIp
  <2>1. Busy /\ ~Busy' /\ events' = events /\ (link' = link \/ link = "idle") /\ answered' = answered
    BY <1>5 DEF EndDisconnected, EndGotIp, Busy, Connect, ConnectError, driverVars
  <2>2. ~Driver /\ ~Dhcp
    BY <2>1 DEF Driver, Associate, Lose, Dhcp, Answer, Lease, ElsewhereUnchanged, handlerVars, Busy
  <2>3. link' = "idle" => link = "idle"
    BY <1>5 DEF EndDisconnected, EndGotIp, Connect, ConnectError, driverVars
  <2> QED
    BY <2>1, <2>2, <2>3 DEF Waits, LinkAt, Answered
<1>6. CASE UNCHANGED vars
  BY <1>6 DEF vars, driverVars, handlerVars, Busy, Waits, LinkAt, Answered
<1> QED
  BY <1>1, <1>2, <1>3, <1>4, <1>5, <1>6 DEF Next, Handler, Driver, Dhcp, Begin

LEMMA JoinWanted ==
  ASSUME Sound, Joining, RejoinPossible
  PROVE  /\ Busy \/ Waits => ENABLED <<Handler>>_vars
         /\ LinkAt("connecting") => ENABLED <<Driver>>_vars
         /\ LinkAt("assoc") /\ ~Waits => ENABLED <<Dhcp>>_vars
         /\ LinkAt("idle") => Busy \/ Waits
         /\ LinkAt("idle") \/ LinkAt("connecting") \/ LinkAt("assoc")
<1>1. LinkAt("assoc") /\ ~Waits => ENABLED <<Dhcp>>_vars
  BY DEF RejoinPossible, Joining, LinkAt, Waits
<1>2. LinkAt("idle") => Busy \/ Waits
  <2>1. SUFFICES ASSUME link = "idle", handling = "none", events = <<>> PROVE FALSE
    BY Zenon DEF LinkAt, Busy, Waits
  <2>2. ~refused /\ "before" \notin late /\ staConnected /\ pc \in Joined
    BY DEF Joining, Sound, IInv, Tokens, Joined
  <2>3. DOMAIN events = {}
    BY <2>1
  <2> QED
    BY <2>1, <2>2, <2>3 DEF Sound, IInv, Attended
<1>3. LinkAt("idle") \/ LinkAt("connecting") \/ LinkAt("assoc")
  BY DEF Sound, IInv, TypeOK, Joining, Home, LinkAt
<1>4. Busy \/ Waits => ENABLED <<Handler>>_vars
  BY DEF RejoinPossible, Busy, Waits
<1> QED
  BY <1>1, <1>2, <1>3, <1>4 DEF RejoinPossible, Joining, LinkAt

LEMMA StaysHome ==
  ASSUME Sound, [Next]_vars
  PROVE  /\ pc = "sta" => (pc = "sta")'
         /\ pc = "sta" /\ net /\ net' /\ Home => Home'
<1>1. pc = "sta" => ~Main
  BY MainSteps DEF Sound, IInv
<1>2. pc = "sta" => (pc = "sta")'
  BY <1>1, OthersWait
<1>3. ASSUME pc = "sta", net, net', Home PROVE Home'
  <2>1. CASE Handler
    BY <1>3, <2>1 DEF Handler, BeginDisconnected, EndDisconnected, BeginGotIp, EndGotIp, Home, Connect,
                      ConnectError, driverVars
  <2>2. CASE Driver \/ Dhcp \/ Expire
    BY <1>3, <2>2 DEF Driver, Associate, Lose, Dhcp, Answer, Lease, Expire, InterfaceUp, Home
  <2>3. CASE Network \/ UNCHANGED vars
    BY <1>3, <2>3 DEF Network, Home, vars, driverVars
  <2> QED
    BY <1>1, <1>3, <2>1, <2>2, <2>3 DEF Next
<1> QED
  BY <1>2, <1>3

LEMMA SoundAlways == Spec => []Sound
  BY Invariance, QueueBounded, PTL DEF Sound

\* If the network is there for good, a station that had joined has an address for
\* good, unless it was stranded.  Without an address the events only get fewer; so
\* the handler comes to rest, with no event left; so the station is not idle; so
\* the driver, and then the DHCP client, go on to the address.
THEOREM Rejoins ==
  ASSUME FewEvents
  PROVE  FairSpec /\ []RejoinPossible => Reconnects
<1> DEFINE Onward == Sound /\ Sound' /\ [Next]_vars /\ Joining /\ Joining'
           Lasting == FairSpec /\ []RejoinPossible /\ <>[]Joining
           Fit == Sound /\ Joining /\ RejoinPossible
<1>1. Lasting => <>[]Fit
  BY SoundAlways, PTL DEF FairSpec
<1>2. Onward => Descent /\ (Steady(1) => [~Begin]_vars)
  BY WaitingFalls
<1>3. Lasting => <>[][~Begin]_vars
  <2>1. Lasting => <>[][Steady(16)]_vars
    BY <1>2, SteadyStutter, SoundAlways, PTL DEF FairSpec, Spec, Descent, Halves
  <2>2. Lasting => <>[][Steady(1)]_vars
    BY <1>2, <2>1, SteadyStutter, SoundAlways, PTL DEF FairSpec, Spec, Descent, Halves
  <2> QED
    BY <1>2, <2>2, SteadyStutter, SoundAlways, PTL DEF FairSpec, Spec
<1>4. Lasting => <>[]~Busy
  <2>1. Onward /\ [~Begin]_vars => (Busy' => Busy) /\ (<<Handler>>_vars => ~Busy')
    BY JoinStep
  <2>2. Fit => (Busy => ENABLED <<Handler>>_vars)
    BY JoinWanted
  <2> QED
    BY <1>1, <1>3, <2>1, <2>2, SoundAlways, PTL DEF FairSpec, Spec
<1>5. Lasting => <>[]~Waits
  <2>1. Onward /\ [~Begin]_vars => (Waits => Waits') /\ (<<Handler>>_vars => Busy)
    BY JoinStep
  <2>2. Fit => (Waits => ENABLED <<Handler>>_vars)
    BY JoinWanted
  <2> QED
    BY <1>1, <1>3, <1>4, <2>1, <2>2, SoundAlways, PTL DEF FairSpec, Spec
<1>6. Lasting => <>[]~LinkAt("idle")
  <2>1. Fit => (LinkAt("idle") => Busy \/ Waits)
    BY JoinWanted
  <2> QED
    BY <1>1, <1>4, <1>5, <2>1, PTL
<1>7. Lasting => <>[]LinkAt("assoc")
  <2>1. Onward /\ [~Begin]_vars => /\ <<Driver>>_vars => LinkAt("assoc")'
                                   /\ LinkAt("assoc") => LinkAt("assoc")'
    BY JoinStep
  <2>2. Fit => /\ LinkAt("connecting") => ENABLED <<Driver>>_vars
               /\ LinkAt("idle") \/ LinkAt("connecting") \/ LinkAt("assoc")
    BY JoinWanted
  <2> QED
    BY <1>1, <1>3, <1>6, <2>1, <2>2, SoundAlways, PTL DEF FairSpec, Spec
<1>8. ~Lasting
  <2>1. Onward /\ [~Begin]_vars => /\ <<Dhcp>>_vars /\ ~Waits' => ~Answered /\ Answered'
                                   /\ ~Waits' /\ Answered => Answered'
    BY JoinStep
  <2>2. Fit => (LinkAt("assoc") /\ ~Waits => ENABLED <<Dhcp>>_vars)
    BY JoinWanted
  <2> QED
    BY <1>1, <1>3, <1>5, <1>7, <2>1, <2>2, SoundAlways, PTL DEF FairSpec, Spec
<1>9. Sound /\ [Next]_vars =>
         /\ pc = "sta" => (pc = "sta")'
         /\ pc = "sta" /\ net /\ net' /\ Home => Home'
  BY StaysHome
<1>10. net /\ pc = "sta" /\ ~refused /\ "before" \notin late /\ ~Home => Joining
  BY DEF Joining
<1>11. FairSpec /\ []RejoinPossible /\ <>[]net /\ <>(pc = "sta") /\ []~refused
         /\ []("before" \notin late) => <>[]Home
  BY <1>8, <1>9, <1>10, SoundAlways, PTL DEF FairSpec, Spec
<1> QED
  BY <1>11 DEF Reconnects, Home
=============================================================================
