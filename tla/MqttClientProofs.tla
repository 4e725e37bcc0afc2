-------------------------- MODULE MqttClientProofs --------------------------
(***************************************************************************)
(* Proofs about the MQTT client and its broker, for every bound on the      *)
(* messages under way and on the wakeups.                                   *)
(***************************************************************************)
EXTENDS MqttClient, SequenceTheorems, WellFoundedInduction, TLAPS

-----------------------------------------------------------------------------
\* Messages.

LEMMA Distinct ==
  /\ Online # Subscribe /\ Online # Discovery /\ Subscribe # Discovery
  /\ \A on : Usb(on) # Online /\ Usb(on) # Subscribe /\ Usb(on) # Discovery
  /\ ~IsCount(Online) /\ ~IsCount(Subscribe) /\ ~IsCount(Discovery)
  /\ \A on : ~IsCount(Usb(on))
  /\ \A n : IsCount(Wakeups(n)) /\ Wakeups(n).count = n
<1>1. /\ Online.topic = "availability" /\ Subscribe.topic = "cmd/wakeup"
      /\ Discovery.topic = "config"
  BY DEF Online, Subscribe, Discovery
<1>2. \A on : Usb(on).topic = "state/usb"
  BY DEF Usb
<1>3. \A n : Wakeups(n).topic = "state/wakeup_count" /\ Wakeups(n).count = n
  BY DEF Wakeups
<1> QED
  BY <1>1, <1>2, <1>3 DEF IsCount

LEMMA Messages ==
  /\ Online \in Message /\ Subscribe \in Message /\ Discovery \in Message
  /\ \A on \in BOOLEAN : Usb(on) \in Message
  /\ \A n \in 0 .. MaxCount : Wakeups(n) \in Message
  /\ \A m \in Message : IsCount(m) => m.count \in 0 .. MaxCount
<1>1. /\ Online \in Message /\ Subscribe \in Message /\ Discovery \in Message
      /\ \A on \in BOOLEAN : Usb(on) \in Message
      /\ \A n \in 0 .. MaxCount : Wakeups(n) \in Message
  BY DEF Message
<1>2. ASSUME NEW m \in Message, IsCount(m) PROVE m.count \in 0 .. MaxCount
  <2>1. PICK n \in 0 .. MaxCount : m = Wakeups(n)
    BY <1>2, Distinct DEF Message
  <2> QED
    BY <2>1, Distinct
<1> QED
  BY <1>1, <1>2

\* The announcement of a connection that has carried nothing yet.
LEMMA AnnouncementProperties ==
  ASSUME mounted \in BOOLEAN
  PROVE  /\ Announcement \in Seq(Message)
         /\ Len(Announcement) = 4 /\ DOMAIN Announcement = 1 .. 4
         /\ Announcement[1] = Online /\ Announcement[2] = Subscribe
         /\ Announcement[3] = Discovery /\ Announcement[4] = Usb(mounted)
<1> DEFINE a == Online
           b == Subscribe
           c == Discovery
           d == Usb(mounted)
<1>1. a \in Message /\ b \in Message /\ c \in Message /\ d \in Message
  BY Messages
<1>2. Announcement = <<a, b, c, d>>
  BY DEF Announcement
<1> HIDE DEF a, b, c, d
<1>3. /\ <<a, b, c, d>> \in Seq(Message)
      /\ Len(<<a, b, c, d>>) = 4 /\ DOMAIN <<a, b, c, d>> = 1 .. 4
      /\ <<a, b, c, d>>[1] = a /\ <<a, b, c, d>>[2] = b
      /\ <<a, b, c, d>>[3] = c /\ <<a, b, c, d>>[4] = d
  BY <1>1
<1> QED
  BY <1>2, <1>3 DEF a, b, c, d

\* One message more.
LEMMA OneMore ==
  ASSUME NEW s \in Seq(Message), NEW m \in Message
  PROVE  /\ s \o <<m>> \in Seq(Message)
         /\ Len(s \o <<m>>) = Len(s) + 1
         /\ \A i \in 1 .. Len(s) : (s \o <<m>>)[i] = s[i]
         /\ (s \o <<m>>)[Len(s) + 1] = m
<1>1. <<m>> \in Seq(Message) /\ Len(<<m>>) = 1 /\ <<m>>[1] = m
  OBVIOUS
<1>2. Len(s) \in Nat
  BY LenProperties
<1> QED
  BY <1>1, <1>2, ConcatProperties

-----------------------------------------------------------------------------
LEMMA InitTypeOK == Init => TypeOK
<1> SUFFICES ASSUME Init PROVE TypeOK
  OBVIOUS
<1>1. wire \in Seq(Message) /\ Len(wire) = 0
  BY DEF Init
<1>2. /\ connected = (client = "up") /\ held \in BOOLEAN /\ mounted \in BOOLEAN
      /\ subscribed \in BOOLEAN /\ discovery \in BOOLEAN
      /\ orphan \in BOOLEAN /\ counted \in BOOLEAN
  BY Zenon DEF Init
<1> QED
  BY <1>1, <1>2, MqttAssumption DEF Init, TypeOK

\* A publication that adds one message.
LEMMA PublishOne ==
  ASSUME TypeOK, Room, client = "up", NEW m \in Message, Publish(<<m>>)
  PROVE  /\ wire' \in Seq(Message) /\ Len(wire') <= WireLen
         /\ wire' # <<>> => session = "live"
<1>1. CASE session = "live"
  <2>1. wire' = wire \o <<m>>
    BY <1>1 DEF Publish
  <2>2. Len(wire) \in Nat /\ Len(wire) < WireLen
    BY LenProperties DEF TypeOK, Room
  <2> QED
    BY <1>1, <2>1, <2>2, OneMore, MqttAssumption DEF TypeOK
<1>2. CASE session # "live"
  BY <1>2 DEF Publish, TypeOK
<1> QED
  BY <1>1, <1>2

\* The first message arrives.
LEMMA DeliverWire ==
  ASSUME TypeOK, Deliver
  PROVE  /\ Head(wire) \in Message /\ Head(wire) = wire[1]
         /\ wire' \in Seq(Message) /\ wire' = Tail(wire)
         /\ Len(wire) \in Nat \ {0} /\ Len(wire') = Len(wire) - 1
         /\ \A i \in 1 .. Len(wire') : wire'[i] = wire[i + 1]
<1>1. wire \in Seq(Message) /\ wire # <<>> /\ wire' = Tail(wire)
  BY DEF Deliver, TypeOK
<1> QED
  BY <1>1, HeadTailProperties, LenProperties, EmptySeq

LEMMA NextTypeOK == TypeOK /\ [Next]_vars => TypeOK'
<1> SUFFICES ASSUME TypeOK, [Next]_vars PROVE TypeOK'
  OBVIOUS
<1>0. /\ WireLen \in Nat /\ WireLen >= 4 /\ MaxCount \in Nat
      /\ <<>> \in Seq(Message) /\ Len(<<>>) = 0
  BY MqttAssumption
<1>1. CASE MqttSkipped \/ MqttStart \/ TelemetryStart \/ Host
  <2>1. CASE MqttSkipped
    BY <2>1 DEF MqttSkipped, brokerVars, retainedVars, TypeOK
  <2>2. CASE MqttStart
    BY <2>2 DEF MqttStart, brokerVars, retainedVars, TypeOK
  <2>3. CASE TelemetryStart
    BY <2>3 DEF TelemetryStart, brokerVars, retainedVars, TypeOK
  <2>4. CASE Host
    <3>1. mounted' \in BOOLEAN
      BY <2>4, Zenon DEF Host
    <3> QED
      BY <2>4, <3>1 DEF Host, deviceVars, brokerVars, retainedVars, TypeOK
  <2> QED
    BY <1>1, <2>1, <2>2, <2>3, <2>4
<1>2. CASE Connected
  <2>1. wire = <<>>
    BY <1>2 DEF Connected, TypeOK
  <2>2. wire' \in Seq(Message) /\ Len(wire') <= WireLen /\ (wire' # <<>> => session = "live")
    <3>1. CASE session = "live"
      <4>1. wire' = Announcement
        BY <1>2, <2>1, <3>1, AnnouncementProperties, ConcatEmptySeq DEF Connected, Publish, TypeOK
      <4> QED
        BY <1>0, <3>1, <4>1, AnnouncementProperties DEF TypeOK
    <3>2. CASE session # "live"
      BY <1>0, <1>2, <2>1, <3>2 DEF Connected, Publish
    <3> QED
      BY <3>1, <3>2
  <2>3. connected' = (client' = "up")
    BY <1>2, Zenon DEF Connected
  <2> QED
    BY <1>2, <2>2, <2>3 DEF Connected, retainedVars, TypeOK
<1>3. CASE Disconnected
  <2>1. connected' = (client' = "up")
    BY <1>3 DEF Disconnected, ConnectedAfterLoss
  <2> QED
    BY <1>3, <2>1 DEF Disconnected, brokerVars, retainedVars, TypeOK
<1>4. CASE TelemetryRead
  BY <1>4 DEF TelemetryRead, brokerVars, retainedVars, TypeOK
<1>5. CASE TelemetryPublish
  <2>1. wire' \in Seq(Message) /\ Len(wire') <= WireLen
        /\ (wire' # <<>> => session = "live" /\ client = "up")
    <3>1. CASE client = "up"
      <4>1. Usb(held) \in Message /\ Room /\ Publish(<<Usb(held)>>)
        BY <1>5, <3>1, Messages DEF TelemetryPublish, TypeOK
      <4> QED
        BY <3>1, <4>1, PublishOne
    <3>2. CASE client # "up"
      BY <1>5, <3>2 DEF TelemetryPublish, TypeOK
    <3> QED
      BY <3>1, <3>2
  <2> QED
    BY <1>5, <2>1 DEF TelemetryPublish, AfterTelemetry, retainedVars, TypeOK
<1>6. CASE Wakeup
  <2>1. count' \in 0 .. MaxCount /\ client = "up"
    <3>1. client = "up" /\ count \in 0 .. MaxCount
      BY <1>6, Zenon DEF Wakeup, TypeOK
    <3>2. count < MaxCount /\ count' = count + 1
      BY <1>6 DEF Wakeup, NextCount
    <3> QED
      BY <1>0, <3>1, <3>2
  <2>2. Wakeups(count') \in Message /\ Room /\ Publish(<<Wakeups(count')>>)
    BY <1>6, <2>1, Messages DEF Wakeup
  <2>3. /\ wire' \in Seq(Message) /\ Len(wire') <= WireLen
        /\ wire' # <<>> => session = "live"
    BY <2>1, <2>2, PublishOne
  <2>4. UNCHANGED <<app, client, connected, telemetry, held, mounted, session, subscribed,
                    availability, discovery, usb, wakeups, orphan, counted>>
    BY <1>6 DEF Wakeup, retainedVars
  <2> QED
    BY <2>1, <2>3, <2>4 DEF TypeOK
<1>7. CASE Connect
  <2>1. availability' \in {"none", "online", "offline"} /\ orphan' \in BOOLEAN
    BY <1>7, Zenon DEF Connect, Will, TypeOK
  <2> QED
    BY <1>0, <1>7, <2>1 DEF Connect, TypeOK
<1>8. CASE Expire
  <2>1. availability' \in {"none", "online", "offline"} /\ orphan' \in BOOLEAN
    BY <1>8, Zenon DEF Expire, Will
  <2> QED
    BY <1>8, <2>1 DEF Expire, deviceVars, TypeOK
<1>9. CASE Deliver
  <2> DEFINE m == Head(wire)
  <2>1. m \in Message /\ wire' \in Seq(Message) /\ Len(wire') <= WireLen
    BY <1>0, <1>9, DeliverWire DEF TypeOK
  <2>2. /\ subscribed' = (subscribed \/ m = Subscribe)
        /\ availability' = IF m = Online THEN "online" ELSE availability
        /\ orphan' = (orphan /\ m # Online)
        /\ discovery' = (discovery \/ m = Discovery)
        /\ usb' = IF m.topic = "state/usb" THEN (IF m.on THEN "ON" ELSE "OFF") ELSE usb
        /\ wakeups' = IF IsCount(m) THEN m.count ELSE wakeups
        /\ counted' = (counted \/ IsCount(m))
        /\ UNCHANGED <<deviceVars, mounted, session>>
    BY <1>9 DEF Deliver, IsCount
  <2>3. wakeups' \in 0 .. MaxCount
    BY <2>1, <2>2, Messages DEF TypeOK
  <2>4. wire' # <<>> => session = "live" /\ client = "up"
    BY <1>9 DEF Deliver, TypeOK
  <2> HIDE DEF m
  <2>5. /\ subscribed' \in BOOLEAN /\ orphan' \in BOOLEAN /\ discovery' \in BOOLEAN
        /\ counted' \in BOOLEAN
    BY <2>2, Zenon
  <2>6. usb' \in {"none", "ON", "OFF"} /\ availability' \in {"none", "online", "offline"}
    BY <2>2 DEF TypeOK
  <2> QED
    BY <2>1, <2>2, <2>3, <2>4, <2>5, <2>6 DEF deviceVars, TypeOK
<1>10. CASE BrokerKeeps
  <2>1. orphan' \in BOOLEAN
    BY <1>10, Zenon DEF BrokerKeeps
  <2>2. /\ session' = "none" /\ wire' = <<>> /\ subscribed' \in BOOLEAN
        /\ UNCHANGED <<app, client, connected, count, telemetry, held, mounted, availability,
                       discovery, usb, wakeups, counted>>
    BY <1>10 DEF BrokerKeeps, deviceVars, retainedVars
  <2> QED
    BY <1>0, <2>1, <2>2 DEF TypeOK
<1>11. CASE BrokerForgets
  <2>1. /\ session' = "none" /\ wire' = <<>> /\ availability' = "none" /\ usb' = "none"
        /\ wakeups' \in 0 .. MaxCount
        /\ UNCHANGED <<app, client, connected, count, telemetry, held, mounted>>
    BY <1>0, <1>11 DEF BrokerForgets, deviceVars
  <2>2. /\ subscribed' \in BOOLEAN /\ discovery' \in BOOLEAN /\ orphan' \in BOOLEAN
        /\ counted' \in BOOLEAN
    BY <1>11, Zenon DEF BrokerForgets
  <2> QED
    BY <1>0, <2>1, <2>2 DEF TypeOK
<1>12. CASE Cut
  BY <1>0, <1>12 DEF Cut, deviceVars, retainedVars, TypeOK
<1>13. CASE Dies
  <2>1. connected' = (client' = "up")
    BY <1>13 DEF Dies
  <2>2. /\ app' = "off" /\ client' = "down" /\ count' \in 0 .. MaxCount /\ telemetry' = "none"
        /\ session' \in {"none", "stale"} /\ wire' = <<>>
        /\ UNCHANGED <<subscribed, availability, discovery, usb, wakeups, orphan>>
    BY <1>0, <1>13 DEF Dies, retainedVars, TypeOK
  <2>3. held' \in BOOLEAN /\ mounted' \in BOOLEAN /\ counted' \in BOOLEAN
    BY <1>13, Zenon DEF Dies
  <2> QED
    BY <1>0, <2>1, <2>2, <2>3 DEF TypeOK
<1>14. CASE UNCHANGED vars
  BY <1>14 DEF vars, deviceVars, brokerVars, retainedVars, TypeOK
<1> QED
  BY <1>1, <1>2, <1>3, <1>4, <1>5, <1>6, <1>7, <1>8, <1>9, <1>10, <1>11, <1>12, <1>13, <1>14
     DEF Next, Trouble

\* Every variable keeps its type; among others, s_connected says what the client's
\* connection is, and only an announced connection carries messages.
THEOREM TypeCorrect == Spec => []TypeOK
  BY InitTypeOK, NextTypeOK, PTL DEF Spec

-----------------------------------------------------------------------------
\* What is under way stays under way or arrives.

LEMMA StillUnderWay ==
  ASSUME TypeOK, NEW m, UnderWay(m), NEW x \in Message, Publish(<<x>>)
  PROVE  UnderWay(m)'
<1>1. CASE session = "live"
  <2>1. wire' = wire \o <<x>>
    BY <1>1 DEF Publish
  <2>2. wire \in Seq(Message) /\ Len(wire) \in Nat /\ DOMAIN wire = 1 .. Len(wire)
    BY LenProperties DEF TypeOK
  <2>3. PICK i \in 1 .. Len(wire) : wire[i] = m
    BY <2>2 DEF UnderWay
  <2>4. wire'[i] = m /\ wire' \in Seq(Message) /\ Len(wire') = Len(wire) + 1
    BY <2>1, <2>2, <2>3, OneMore
  <2>5. i \in DOMAIN wire'
    BY <2>2, <2>3, <2>4, LenProperties
  <2> QED
    BY <2>4, <2>5 DEF UnderWay
<1>2. CASE session # "live"
  BY <1>2 DEF Publish, UnderWay
<1> QED
  BY <1>1, <1>2

LEMMA Arrives ==
  ASSUME TypeOK, Deliver, NEW m, UnderWay(m)
  PROVE  Head(wire) = m \/ UnderWay(m)'
<1>1. PICK i \in 1 .. Len(wire) : wire[i] = m
  BY LenProperties DEF UnderWay, TypeOK
<1>2. CASE i = 1
  BY <1>1, <1>2, DeliverWire
<1>3. CASE i # 1
  <2>1. i - 1 \in 1 .. Len(wire')
    BY <1>1, <1>3, DeliverWire
  <2>2. wire'[i - 1] = m
    BY <1>1, <2>1, DeliverWire
  <2>3. i - 1 \in DOMAIN wire'
    BY <2>1, DeliverWire, LenProperties
  <2> QED
    BY <2>2, <2>3 DEF UnderWay
<1> QED
  BY <1>2, <1>3

LEMMA NextAnnounced == TypeOK /\ Announced /\ [Next]_vars => Announced'
<1> SUFFICES ASSUME TypeOK, Announced, [Next]_vars, session' = "live", client' = "up"
             PROVE  /\ availability' = "online" \/ UnderWay(Online)'
                    /\ subscribed' \/ UnderWay(Subscribe)'
                    /\ discovery' \/ UnderWay(Discovery)'
  BY DEF Announced
\* A new connection is announced in one piece ...
<1>1. CASE Connected
  <2>1. wire = <<>> /\ session = "live"
    BY <1>1 DEF Connected, TypeOK
  <2>2. wire' = Announcement
    BY <1>1, <2>1, AnnouncementProperties, ConcatEmptySeq DEF Connected, Publish, TypeOK
  <2>3. /\ Announcement[1] = Online /\ Announcement[2] = Subscribe
        /\ Announcement[3] = Discovery
    BY AnnouncementProperties DEF TypeOK
  <2>4. UnderWay(Online)' /\ UnderWay(Subscribe)' /\ UnderWay(Discovery)'
    BY <2>2, <2>3, AnnouncementProperties DEF UnderWay, TypeOK
  <2> QED
    BY <2>4
\* ... and on one that is there, nothing of it is lost.
<1>2. CASE TelemetryPublish \/ Wakeup
  <2>1. session = "live" /\ client = "up" /\ UNCHANGED <<availability, subscribed, discovery>>
    BY <1>2 DEF TelemetryPublish, Wakeup, retainedVars
  <2>2. PICK x \in Message : Publish(<<x>>)
    <3>1. CASE TelemetryPublish
      BY <2>1, <3>1, Messages DEF TelemetryPublish, TypeOK
    <3>2. CASE Wakeup
      BY <3>2, Messages, NextTypeOK DEF Wakeup, TypeOK
    <3> QED
      BY <1>2, <3>1, <3>2
  <2> QED
    BY <2>1, <2>2, StillUnderWay DEF Announced
<1>3. CASE Deliver
  <2> DEFINE m == Head(wire)
  <2>1. session = "live" /\ client = "up"
    BY <1>3 DEF Deliver, deviceVars
  <2>2. /\ subscribed' = (subscribed \/ m = Subscribe)
        /\ availability' = IF m = Online THEN "online" ELSE availability
        /\ discovery' = (discovery \/ m = Discovery)
    BY <1>3 DEF Deliver
  <2>3. availability' = "online" \/ UnderWay(Online)'
    BY <1>3, <2>1, <2>2, Arrives DEF Announced
  <2>4. subscribed' \/ UnderWay(Subscribe)'
    BY <1>3, <2>1, <2>2, Arrives, Zenon DEF Announced
  <2>5. discovery' \/ UnderWay(Discovery)'
    BY <1>3, <2>1, <2>2, Arrives, Zenon DEF Announced
  <2> QED
    BY <2>3, <2>4, <2>5
<1>4. CASE \/ MqttSkipped \/ MqttStart \/ TelemetryStart \/ TelemetryRead \/ Host \/ UNCHANGED vars
  <2>1. UNCHANGED <<client, session, wire, availability, subscribed, discovery>>
    BY <1>4 DEF MqttSkipped, MqttStart, TelemetryStart, TelemetryRead, Host, vars, deviceVars,
       brokerVars, retainedVars
  <2> QED
    BY <2>1 DEF Announced, UnderWay
<1>5. CASE Disconnected \/ Connect \/ Expire \/ Trouble
  BY <1>5 DEF Disconnected, Connect, Expire, Trouble, BrokerKeeps, BrokerForgets, Cut, Dies
<1> QED
  BY <1>1, <1>2, <1>3, <1>4, <1>5 DEF Next

\* On a connection that works, all the broker must know is known to it or under way.
THEOREM AnnouncedAlways == Spec => []Announced
<1>1. Init => Announced
  BY DEF Init, Announced
<1> QED
  BY <1>1, NextAnnounced, TypeCorrect, PTL DEF Spec

-----------------------------------------------------------------------------
LEMMA NextFresh == TypeOK /\ Fresh /\ [Next]_vars => Fresh'
<1> SUFFICES ASSUME TypeOK, Fresh, [Next]_vars, availability' = "online", ~orphan'
             PROVE  session' # "none" /\ client' # "joined"
  BY DEF Fresh
\* The will comes before the "online" of the next connection.
<1>1. CASE Connect
  <2>1. session = "none" /\ UNCHANGED <<availability, orphan>>
    BY <1>1 DEF Connect, Will
  <2> QED
    BY <2>1 DEF Fresh
<1>2. CASE Deliver
  BY <1>2 DEF Deliver, deviceVars, TypeOK
<1>3. CASE Expire \/ BrokerKeeps \/ BrokerForgets
  BY <1>3 DEF Expire, Will, BrokerKeeps, BrokerForgets, retainedVars
<1>4. CASE Connected \/ Disconnected \/ Dies \/ Cut
  BY <1>4 DEF Connected, Disconnected, Dies, Cut, retainedVars, brokerVars, deviceVars, Fresh, TypeOK
<1>5. CASE \/ MqttSkipped \/ MqttStart \/ TelemetryStart \/ TelemetryRead \/ TelemetryPublish
           \/ Wakeup \/ Host \/ UNCHANGED vars
  <2>1. UNCHANGED <<client, session, availability, orphan>>
    BY <1>5 DEF MqttSkipped, MqttStart, TelemetryStart, TelemetryRead, TelemetryPublish, Wakeup,
       Host, vars, deviceVars, brokerVars, retainedVars
  <2> QED
    BY <2>1 DEF Fresh
<1> QED
  BY <1>1, <1>2, <1>3, <1>4, <1>5 DEF Next, Trouble

LEMMA FreshAlways == Spec => []Fresh
<1>1. Init => Fresh
  BY DEF Init, Fresh
<1> QED
  BY <1>1, NextFresh, TypeCorrect, PTL DEF Spec

\* A device shown as available has a session, but for what a broker brought back.
THEOREM OnlineSession == Spec => []OnlineHasSession
<1>1. Fresh => OnlineHasSession
  BY DEF Fresh, OnlineHasSession
<1> QED
  BY <1>1, FreshAlways, PTL

\* Its command is subscribed to, or the subscription is under way.
THEOREM OnlineServed == Spec => []OnlineIsServed
<1>1. TypeOK /\ Announced /\ Fresh => OnlineIsServed
  BY DEF TypeOK, Announced, Fresh, OnlineIsServed
<1> QED
  BY <1>1, TypeCorrect, AnnouncedAlways, FreshAlways, PTL

-----------------------------------------------------------------------------
\* The counts under way stay in order when the first message arrives.
LEMMA CountsShorter ==
  ASSUME TypeOK, Counts, Deliver
  PROVE  Counts' /\ (counted => wakeups' >= wakeups)
<1> DEFINE m == Head(wire)
<1>1. /\ m = wire[1] /\ m \in Message
      /\ Len(wire) \in Nat \ {0} /\ DOMAIN wire = 1 .. Len(wire)
      /\ DOMAIN wire' = 1 .. Len(wire) - 1
      /\ \A i \in 1 .. Len(wire) - 1 : wire'[i] = wire[i + 1]
  BY DeliverWire, LenProperties DEF TypeOK
<1>2. /\ wakeups' = IF IsCount(m) THEN m.count ELSE wakeups
      /\ counted' = (counted \/ IsCount(m))
      /\ count' = count
  BY DEF Deliver, IsCount, deviceVars
<1>3. count \in Nat /\ wakeups \in Nat
  BY MqttAssumption DEF TypeOK
<1>4. \A i \in DOMAIN wire : wire[i] \in Message /\ (IsCount(wire[i]) => wire[i].count \in Nat)
  BY <1>1, ElementOfSeq, Messages, MqttAssumption DEF TypeOK
<1>5. 1 \in DOMAIN wire
  BY <1>1
<1> HIDE DEF m
<1>6. counted' => wakeups' <= count'
  BY <1>1, <1>2, <1>5 DEF Counts
<1>7. ASSUME NEW i \in DOMAIN wire', IsCount(wire'[i])
      PROVE  /\ wire'[i].count <= count'
             /\ counted' => wakeups' <= wire'[i].count
  <2>1. i + 1 \in DOMAIN wire /\ wire'[i] = wire[i + 1] /\ 1 < i + 1
    BY <1>1, <1>7
  <2>2. wire[i + 1].count <= count /\ (counted => wakeups <= wire[i + 1].count)
    BY <1>7, <2>1 DEF Counts
  <2>3. IsCount(m) => m.count <= wire[i + 1].count
    BY <1>1, <1>5, <1>7, <2>1 DEF Counts
  <2> QED
    BY <1>2, <2>1, <2>2, <2>3
<1>8. ASSUME NEW i \in DOMAIN wire', NEW j \in DOMAIN wire', i < j,
             IsCount(wire'[i]), IsCount(wire'[j])
      PROVE  wire'[i].count <= wire'[j].count
  <2>1. /\ i + 1 \in DOMAIN wire /\ wire'[i] = wire[i + 1]
        /\ j + 1 \in DOMAIN wire /\ wire'[j] = wire[j + 1]
        /\ i + 1 < j + 1
    BY <1>1, <1>8
  <2> QED
    BY <1>8, <2>1 DEF Counts
<1>9. counted => wakeups' >= wakeups
  BY <1>1, <1>2, <1>3, <1>4, <1>5 DEF Counts
<1> QED
  BY <1>6, <1>7, <1>8, <1>9 DEF Counts, IsCount

\* A count that is put on the wire is the largest so far.
LEMMA CountsLonger ==
  ASSUME TypeOK, Counts, NEW x \in Message, Publish(<<x>>),
         UNCHANGED <<wakeups, counted>>,
         count' \in Nat, count <= count', IsCount(x) => x.count = count'
  PROVE  Counts'
<1>1. count \in Nat /\ wakeups \in Nat
  BY MqttAssumption DEF TypeOK
<1>2. /\ Len(wire) \in Nat /\ DOMAIN wire = 1 .. Len(wire)
      /\ wire \in Seq(Message)
      /\ \A i \in DOMAIN wire : IsCount(wire[i]) => wire[i].count \in Nat
  BY LenProperties, ElementOfSeq, Messages, MqttAssumption DEF TypeOK
<1>3. \A i \in DOMAIN wire' :
         \/ i \in DOMAIN wire /\ wire'[i] = wire[i]
         \/ wire'[i] = x /\ \A j \in DOMAIN wire' : j <= i
  <2>1. CASE session = "live"
    <3>1. wire' = wire \o <<x>>
      BY <2>1 DEF Publish
    <3>2. /\ wire' \in Seq(Message) /\ Len(wire') = Len(wire) + 1
          /\ \A i \in 1 .. Len(wire) : wire'[i] = wire[i]
          /\ wire'[Len(wire) + 1] = x
      BY <1>2, <3>1, OneMore
    <3>3. DOMAIN wire' = 1 .. Len(wire) + 1
      BY <3>2, LenProperties
    <3> QED
      BY <1>2, <3>2, <3>3
  <2>2. CASE session # "live"
    BY <2>2 DEF Publish
  <2> QED
    BY <2>1, <2>2
<1>4. \A i \in DOMAIN wire' : i \in Nat
  <2>1. wire' = wire \/ wire' = wire \o <<x>>
    BY DEF Publish
  <2>2. wire' \in Seq(Message)
    BY <1>2, <2>1, OneMore
  <2> QED
    BY <2>2, LenProperties
<1>5. counted' => wakeups' <= count'
  BY <1>1 DEF Counts
<1>6. ASSUME NEW i \in DOMAIN wire', IsCount(wire'[i])
      PROVE  wire'[i].count <= count' /\ (counted' => wakeups' <= wire'[i].count)
  BY <1>1, <1>2, <1>3, <1>6 DEF Counts
<1>7. ASSUME NEW i \in DOMAIN wire', NEW j \in DOMAIN wire', i < j,
             IsCount(wire'[i]), IsCount(wire'[j])
      PROVE  wire'[i].count <= wire'[j].count
  <2>1. i \in DOMAIN wire /\ wire'[i] = wire[i]
    BY <1>3, <1>4, <1>7
  <2>2. wire[i].count <= count /\ wire[i].count \in Nat
    BY <1>2, <1>7, <2>1 DEF Counts
  <2>3. CASE wire'[j] = x
    BY <1>1, <1>7, <2>1, <2>2, <2>3
  <2>4. CASE j \in DOMAIN wire /\ wire'[j] = wire[j]
    BY <1>7, <2>1, <2>4 DEF Counts
  <2> QED
    BY <1>3, <2>3, <2>4
<1> QED
  BY <1>5, <1>6, <1>7 DEF Counts, IsCount

\* Nothing under way: only what is shown matters.
LEMMA CountsEmpty ==
  ASSUME wire' = <<>>, counted' => wakeups' <= count'
  PROVE  Counts'
  BY DEF Counts

LEMMA NextCounts ==
  TypeOK /\ Counts /\ [Next]_vars => Counts' /\ (counted /\ counted' => wakeups' >= wakeups)
<1> SUFFICES ASSUME TypeOK, Counts, [Next]_vars
             PROVE  Counts' /\ (counted /\ counted' => wakeups' >= wakeups)
  OBVIOUS
<1>0. count \in Nat /\ wakeups \in Nat
  BY MqttAssumption DEF TypeOK
<1>1. CASE Deliver
  BY <1>1, CountsShorter
<1>2. CASE Wakeup
  <2>1. UNCHANGED <<wakeups, counted>> /\ count' = count + 1 /\ Publish(<<Wakeups(count')>>)
    BY <1>2 DEF Wakeup, NextCount, retainedVars
  <2>2. Wakeups(count') \in Message
    BY <1>0, <1>2, <2>1, Messages, MqttAssumption DEF Wakeup
  <2>3. Wakeups(count').count = count'
    BY Distinct
  <2> QED
    BY <1>0, <2>1, <2>2, <2>3, CountsLonger
<1>3. CASE TelemetryPublish
  <2>1. UNCHANGED <<wakeups, counted, count>>
    BY <1>3 DEF TelemetryPublish, retainedVars
  <2>2. CASE client = "up"
    <3>1. Usb(held) \in Message /\ ~IsCount(Usb(held)) /\ Publish(<<Usb(held)>>)
      BY <1>3, <2>2, Messages, Distinct DEF TelemetryPublish, TypeOK
    <3> QED
      BY <1>0, <2>1, <3>1, CountsLonger
  <2>3. CASE client # "up"
    BY <1>0, <1>3, <2>1, <2>3 DEF TelemetryPublish, Counts
  <2> QED
    BY <2>2, <2>3
<1>4. CASE Connected
  <2>1. wire = <<>> /\ UNCHANGED <<wakeups, counted, count>>
    BY <1>4 DEF Connected, retainedVars, TypeOK
  <2>2. wire' = <<>> \/ wire' = Announcement
    BY <1>4, <2>1, AnnouncementProperties, ConcatEmptySeq DEF Connected, Publish, TypeOK
  <2>3. \A i \in DOMAIN wire' : ~IsCount(wire'[i])
    <3>1. \A i \in 1 .. 4 : ~IsCount(Announcement[i])
      BY AnnouncementProperties, Distinct DEF TypeOK
    <3> QED
      BY <2>2, <3>1, AnnouncementProperties DEF TypeOK
  <2> QED
    BY <1>0, <2>1, <2>3 DEF Counts, IsCount
<1>5. CASE Connect \/ BrokerKeeps \/ BrokerForgets \/ Cut \/ Dies
  <2>1. wire' = <<>>
    BY <1>5 DEF Connect, BrokerKeeps, BrokerForgets, Cut, Dies
  <2>2. ~counted' \/ UNCHANGED <<wakeups, counted, count>>
    BY <1>5 DEF Connect, BrokerKeeps, BrokerForgets, Cut, Dies, retainedVars, deviceVars
  <2> QED
    BY <1>0, <2>1, <2>2, CountsEmpty DEF Counts
<1>6. CASE \/ MqttSkipped \/ MqttStart \/ TelemetryStart \/ TelemetryRead \/ Host \/ Expire
           \/ Disconnected \/ UNCHANGED vars
  <2>1. UNCHANGED <<wire, wakeups, counted, count>>
    BY <1>6 DEF MqttSkipped, MqttStart, TelemetryStart, TelemetryRead, Host, Expire, Disconnected,
       vars, deviceVars, brokerVars, retainedVars
  <2> QED
    BY <1>0, <2>1 DEF Counts, IsCount
<1> QED
  BY <1>1, <1>2, <1>3, <1>4, <1>5, <1>6 DEF Next, Trouble

\* In one run of the device, the count shown never goes back.
THEOREM CountNeverBack == Spec => CountGrows
<1>1. Init => Counts
  BY DEF Init, Counts
<1>2. TypeOK /\ Counts /\ [Next]_vars => [counted /\ counted' => wakeups' >= wakeups]_vars
  BY NextCounts
<1>3. TypeOK /\ Counts /\ [Next]_vars => Counts'
  BY NextCounts
<1> QED
  BY <1>1, <1>2, <1>3, InitTypeOK, NextTypeOK, PTL DEF Spec, CountGrows

-----------------------------------------------------------------------------
\* The announcement reaches the broker.

\* A publication does not come before what is on the wire.
LEMMA StaysNext ==
  ASSUME TypeOK, NEW k, NEW m, NextUp(k, m), NEW x \in Message, Publish(<<x>>)
  PROVE  NextUp(k, m)'
<1>1. CASE session = "live"
  <2>1. wire' = wire \o <<x>>
    BY <1>1 DEF Publish
  <2>2. wire \in Seq(Message) /\ Len(wire) \in Nat /\ k \in 1 .. Len(wire)
    BY LenProperties DEF TypeOK, NextUp
  <2>3. wire'[k] = m /\ wire' \in Seq(Message) /\ Len(wire') = Len(wire) + 1
    BY <2>1, <2>2, OneMore DEF NextUp
  <2>4. k \in DOMAIN wire'
    BY <2>2, <2>3, LenProperties
  <2> QED
    BY <2>3, <2>4 DEF NextUp
<1>2. CASE session # "live"
  BY <1>2 DEF Publish, NextUp
<1> QED
  BY <1>1, <1>2

\* A delivery brings the next message to the front.
LEMMA MovesUp ==
  ASSUME TypeOK, Deliver, NEW m
  PROVE  /\ NextUp(1, m) => Head(wire) = m
         /\ NextUp(2, m) => NextUp(1, m)'
         /\ NextUp(3, m) => NextUp(2, m)'
<1>1. /\ DOMAIN wire = 1 .. Len(wire) /\ DOMAIN wire' = 1 .. Len(wire')
      /\ Len(wire) \in Nat \ {0} /\ Len(wire') = Len(wire) - 1
      /\ Head(wire) = wire[1]
      /\ \A i \in 1 .. Len(wire') : wire'[i] = wire[i + 1]
  BY DeliverWire, LenProperties DEF TypeOK
<1> QED
  BY <1>1 DEF NextUp

\* How far the broker has come in learning what is announced.
Learnt(n) == CASE n = 0 -> NextUp(1, Online) /\ NextUp(2, Subscribe) /\ NextUp(3, Discovery)
               [] n = 1 -> availability = "online" /\ NextUp(1, Subscribe) /\ NextUp(2, Discovery)
               [] n = 2 -> availability = "online" /\ subscribed /\ NextUp(1, Discovery)
               [] n = 3 -> availability = "online" /\ subscribed /\ discovery

LEMMA LearntAnnouncing ==
  Announcing <=> (session = "live" /\ client = "up"
                  => Learnt(0) \/ Learnt(1) \/ Learnt(2) \/ Learnt(3))
  BY DEF Announcing, Learnt

\* A connection that works and stays: what has been learnt is not forgotten ...
LEMMA LearntStays ==
  ASSUME TypeOK, [Next]_vars, ~Deliver, session = "live", client = "up",
         session' = "live", client' = "up", NEW n \in 0 .. 3, Learnt(n)
  PROVE  Learnt(n)'
<1>1. CASE TelemetryPublish \/ Wakeup
  <2>1. UNCHANGED <<availability, subscribed, discovery>>
    BY <1>1 DEF TelemetryPublish, Wakeup, retainedVars
  <2>2. PICK x \in Message : Publish(<<x>>)
    <3>1. CASE TelemetryPublish
      BY <3>1, Messages DEF TelemetryPublish, TypeOK
    <3>2. CASE Wakeup
      BY <3>2, Messages, NextTypeOK DEF Wakeup, TypeOK
    <3> QED
      BY <1>1, <3>1, <3>2
  <2>3. /\ NextUp(1, Online) => NextUp(1, Online)'
        /\ NextUp(1, Subscribe) => NextUp(1, Subscribe)'
        /\ NextUp(2, Subscribe) => NextUp(2, Subscribe)'
        /\ NextUp(1, Discovery) => NextUp(1, Discovery)'
        /\ NextUp(2, Discovery) => NextUp(2, Discovery)'
        /\ NextUp(3, Discovery) => NextUp(3, Discovery)'
    BY <2>2, StaysNext
  <2>4. /\ Learnt(0) => Learnt(0)'
        /\ Learnt(1) => Learnt(1)'
        /\ Learnt(2) => Learnt(2)'
        /\ Learnt(3) => Learnt(3)'
    BY <2>1, <2>3 DEF Learnt
  <2> QED
    BY <2>4
<1>2. CASE \/ MqttSkipped \/ MqttStart \/ TelemetryStart \/ TelemetryRead \/ Host \/ UNCHANGED vars
  <2>1. UNCHANGED <<wire, availability, subscribed, discovery>>
    BY <1>2 DEF MqttSkipped, MqttStart, TelemetryStart, TelemetryRead, Host, vars, deviceVars,
       brokerVars, retainedVars
  <2> QED
    BY <2>1 DEF Learnt, NextUp
<1>3. ~(Connected \/ Disconnected \/ Connect \/ Expire \/ Trouble)
  BY DEF Connected, Disconnected, Connect, Expire, Trouble, BrokerKeeps, BrokerForgets, Cut, Dies
<1> QED
  BY <1>1, <1>2, <1>3 DEF Next

\* ... and every delivery brings the rest of it.
LEMMA LearntGrows ==
  ASSUME TypeOK, Deliver
  PROVE  /\ Learnt(0) => Learnt(1)'
         /\ Learnt(1) => Learnt(2)'
         /\ Learnt(2) => Learnt(3)'
         /\ Learnt(3) => Learnt(3)'
<1> DEFINE m == Head(wire)
<1>1. /\ m = Subscribe => subscribed'
      /\ subscribed => subscribed'
      /\ m = Discovery => discovery'
      /\ discovery => discovery'
      /\ m = Online \/ availability = "online" => availability' = "online"
  BY DEF Deliver
<1> QED
  BY <1>1, MovesUp DEF Learnt

LEMMA NextAnnouncing == TypeOK /\ Announcing /\ [Next]_vars => Announcing'
<1> SUFFICES ASSUME TypeOK, Announcing, [Next]_vars, session' = "live", client' = "up"
             PROVE  (Learnt(0) \/ Learnt(1) \/ Learnt(2) \/ Learnt(3))'
  BY LearntAnnouncing DEF Announcing, Learnt
<1>1. CASE Connected
  <2>1. wire = <<>> /\ session = "live"
    BY <1>1 DEF Connected, TypeOK
  <2>2. wire' = Announcement
    BY <1>1, <2>1, AnnouncementProperties, ConcatEmptySeq DEF Connected, Publish, TypeOK
  <2>3. /\ Announcement[1] = Online /\ Announcement[2] = Subscribe
        /\ Announcement[3] = Discovery /\ DOMAIN Announcement = 1 .. 4
    BY AnnouncementProperties DEF TypeOK
  <2> QED
    BY <2>2, <2>3 DEF Learnt, NextUp
<1>2. ASSUME ~Connected PROVE session = "live" /\ client = "up"
  BY <1>2 DEF Next, MqttSkipped, MqttStart, TelemetryStart, Disconnected, TelemetryRead,
     TelemetryPublish, Wakeup, Connect, Expire, Deliver, Host, Trouble, BrokerKeeps,
     BrokerForgets, Cut, Dies, vars, deviceVars, brokerVars, retainedVars
<1>3. CASE ~Connected /\ Deliver
  BY <1>2, <1>3, LearntAnnouncing, LearntGrows
<1>4. CASE ~Connected /\ ~Deliver
  BY <1>2, <1>4, LearntAnnouncing, LearntStays
<1> QED
  BY <1>1, <1>3, <1>4

\* What the broker has still to learn is next on the wire, in the order of the
\* announcement, whatever the other tasks publish meanwhile.
THEOREM AnnouncementInOrder == Spec => []Announcing
<1>1. Init => Announcing
  BY DEF Init, Announcing
<1> QED
  BY <1>1, NextAnnouncing, TypeCorrect, PTL DEF Spec

-----------------------------------------------------------------------------
\* What must eventually happen.  The hypotheses ExpirePossible and
\* ConnectionPossible say when the steps that fairness drives can be taken, for want
\* of a rule about ENABLED.

\* A device that is off is not shown as available for ever, unless the broker has
\* brought an "online" back: the keep-alive time of its session ends with the will.
THEOREM DeathShown == FairSpec /\ []ExpirePossible => DeathIsShown
<1> DEFINE Shown == availability = "online" /\ app = "off" /\ ~orphan
           Over == availability # "online" \/ app # "off" \/ orphan
<1>1. TypeOK /\ Fresh /\ Shown => session = "stale"
  BY DEF TypeOK, Fresh
<1>2. TypeOK /\ Fresh /\ Shown /\ [Next]_vars => Shown' \/ Over'
  OBVIOUS
<1>3. <<Expire>>_vars => Over'
  BY DEF Expire, Will
<1>4. ExpirePossible /\ session = "stale" => ENABLED <<Expire>>_vars
  BY DEF ExpirePossible
<1>5. Shown \/ Over
  OBVIOUS
<1> QED
  BY <1>1, <1>2, <1>3, <1>4, <1>5, TypeCorrect, FreshAlways, PTL
  DEF FairSpec, Fairness, DeathIsShown

\* A device that runs the client, on its way to a connection that works.
Running == app = "mqtt"
Dead == Running /\ client # "down" /\ session # "live"
Down == Running /\ client = "down"
Joined == Running /\ client = "joined" /\ session = "live"
Works == app = "mqtt" /\ client = "up" /\ session = "live"

\* Without trouble, a dead connection is noticed, dialled again, announced, and kept.
LEMMA ConnectionSteps ==
  ASSUME TypeOK, [Next]_vars, ~Trouble \/ UNCHANGED vars
  PROVE  /\ Running => Running'
         /\ ~Running => ~Running' \/ Down'
         /\ Dead => Dead' \/ Down'
         /\ Dead /\ Disconnected => Down'
         /\ Down => Down' \/ Joined'
         /\ Down /\ Connect => Joined'
         /\ Joined => Joined' \/ Works'
         /\ Joined /\ Connected => Works'
         /\ Works => Works'
<1> USE DEF Running, Dead, Down, Joined, Works, TypeOK
<1>1. CASE MqttSkipped \/ MqttStart
  BY <1>1 DEF MqttSkipped, MqttStart, brokerVars
<1>2. CASE TelemetryStart \/ TelemetryRead \/ Host \/ UNCHANGED vars
  <2>1. UNCHANGED <<app, client, session>>
    BY <1>2 DEF TelemetryStart, TelemetryRead, Host, vars, deviceVars, brokerVars
  <2>2. ~Disconnected /\ ~Connect /\ ~Connected
    BY <2>1 DEF Disconnected, Connect, Connected
  <2> QED
    BY <2>1, <2>2
<1>3. CASE TelemetryPublish \/ Wakeup \/ Expire \/ Deliver
  <2>1. UNCHANGED <<app, client>>
    BY <1>3 DEF TelemetryPublish, Wakeup, Expire, Deliver, deviceVars
  <2>2. \/ UNCHANGED session
        \/ session = "stale" /\ session' = "none"
    BY <1>3 DEF TelemetryPublish, Wakeup, Expire, Deliver
  <2>3. ~Disconnected /\ ~Connect /\ ~Connected
    BY <2>1 DEF Disconnected, Connect, Connected
  <2> QED
    BY <2>1, <2>2, <2>3
<1>4. CASE Connected
  BY <1>4 DEF Connected, Disconnected, Connect
<1>5. CASE Disconnected
  BY <1>5 DEF Connected, Disconnected, Connect, ConnectedAfterLoss, brokerVars
<1>6. CASE Connect
  BY <1>6 DEF Connected, Disconnected, Connect
<1> QED
  BY <1>1, <1>2, <1>3, <1>4, <1>5, <1>6 DEF Next

\* So the connection comes to work for good, unless the device stops running the
\* client for good.
LEMMA ConnectionSettles ==
  FairSpec /\ []ConnectionPossible /\ <>[][~Trouble]_vars => <>[]~Running \/ <>[]Works
<1>1. /\ TypeOK /\ Running /\ [Next]_vars /\ [~Trouble]_vars => Running'
      /\ TypeOK /\ Dead /\ [Next]_vars /\ [~Trouble]_vars => Dead' \/ Down'
      /\ TypeOK /\ Dead /\ <<Disconnected>>_vars /\ [~Trouble]_vars => Down'
      /\ TypeOK /\ Down /\ [Next]_vars /\ [~Trouble]_vars => Down' \/ Joined'
      /\ TypeOK /\ Down /\ <<Connect>>_vars /\ [~Trouble]_vars => Joined'
      /\ TypeOK /\ Joined /\ [Next]_vars /\ [~Trouble]_vars => Joined' \/ Works'
      /\ TypeOK /\ Joined /\ <<Connected>>_vars /\ [~Trouble]_vars => Works'
      /\ TypeOK /\ Works /\ [Next]_vars /\ [~Trouble]_vars => Works'
  BY ConnectionSteps DEF Next
<1>2. TypeOK /\ Running => Dead \/ Down \/ Joined \/ Works
  BY DEF TypeOK, Running, Dead, Down, Joined, Works
<1>3. /\ ConnectionPossible /\ Dead => ENABLED <<Disconnected>>_vars
      /\ ConnectionPossible /\ Down => ENABLED <<Connect>>_vars
      /\ ConnectionPossible /\ Joined => ENABLED <<Connected>>_vars
  BY DEF ConnectionPossible, Dead, Down, Joined, Running
<1> QED
  BY <1>1, <1>2, <1>3, TypeCorrect, PTL DEF FairSpec, Fairness, Spec

\* Once the failures are over, a device that runs the client is shown for good,
\* available and with its command subscribed to, for every bound on the messages
\* under way.
THEOREM OnlineForGood == FairSpec /\ []ConnectionPossible => OnlineSettles
<1> DEFINE Shown == app = "mqtt" => availability = "online" /\ subscribed /\ discovery
           L0 == Learnt(0)
           L1 == Learnt(1)
           L2 == Learnt(2)
           L3 == Learnt(3)
<1>1. ASSUME TypeOK, Works, Works', [Next]_vars
      PROVE  /\ L0 => L0' \/ L1'
             /\ L1 => L1' \/ L2'
             /\ L2 => L2' \/ L3'
             /\ L3 => L3'
             /\ Deliver => (L0 => L1') /\ (L1 => L2') /\ (L2 => L3')
  <2>1. CASE Deliver
    BY <1>1, <2>1, LearntGrows
  <2>2. CASE ~Deliver
    BY <1>1, <2>2, LearntStays DEF Works
  <2> QED
    BY <2>1, <2>2
<1>2. /\ TypeOK /\ Works /\ Works' /\ L0 /\ [Next]_vars => L0' \/ L1'
      /\ TypeOK /\ Works /\ Works' /\ L1 /\ [Next]_vars => L1' \/ L2'
      /\ TypeOK /\ Works /\ Works' /\ L2 /\ [Next]_vars => L2' \/ L3'
      /\ TypeOK /\ Works /\ Works' /\ L3 /\ [Next]_vars => L3'
      /\ TypeOK /\ Works /\ Works' /\ L0 /\ <<Deliver>>_vars => L1'
      /\ TypeOK /\ Works /\ Works' /\ L1 /\ <<Deliver>>_vars => L2'
      /\ TypeOK /\ Works /\ Works' /\ L2 /\ <<Deliver>>_vars => L3'
  BY <1>1 DEF Next
<1>3. Announcing /\ Works => L0 \/ L1 \/ L2 \/ L3
  BY LearntAnnouncing DEF Works
<1>4. TypeOK /\ (L0 \/ L1 \/ L2) => wire # <<>>
  BY DEF Learnt, NextUp
<1>5. ConnectionPossible /\ wire # <<>> => ENABLED <<Deliver>>_vars
  BY DEF ConnectionPossible
<1>6. (L3 => Shown) /\ (~Running => Shown)
  BY DEF Learnt, Running
<1> HIDE DEF L0, L1, L2, L3
<1>7. FairSpec /\ []ConnectionPossible /\ <>[]Works => <>[]L3
  BY <1>2, <1>3, <1>4, <1>5, TypeCorrect, AnnouncementInOrder, PTL
  DEF FairSpec, Fairness, Spec
<1> QED
  BY <1>6, <1>7, ConnectionSettles, PTL DEF OnlineSettles

-----------------------------------------------------------------------------
\* How far the USB state shown is from the host's, on a connection that works.

UsbText == IF mounted THEN "ON" ELSE "OFF"
Outdated(m) == m.topic = "state/usb" /\ m # Usb(mounted)

\* Once the first k messages have arrived, the state shown is right, and stays.
RightAfter(k) == /\ IF k = 0 THEN usb = UsbText ELSE k \in DOMAIN wire /\ wire[k] = Usb(mounted)
                 /\ \A i \in DOMAIN wire : i > k => ~Outdated(wire[i])

HoldsOutdated == telemetry = "holds" /\ held # mounted

\* The messages that must arrive yet; WireLen + 1 when the next publication is
\* needed, and one more when an outdated one is still to come.
Distance == IF HoldsOutdated THEN WireLen + 2
            ELSE IF \E k \in 0 .. WireLen : RightAfter(k)
            THEN CHOOSE k \in 0 .. WireLen :
                    RightAfter(k) /\ \A j \in 0 .. WireLen : RightAfter(j) => k <= j
            ELSE WireLen + 1

\* The wakeups that may still take the telemetry's place on the wire come on top.
Burden == Distance + (MaxCount - count)

\* Without trouble, and with a host that stands still, the burden only falls, and
\* falls with every arrival and every publication that is needed.
BurdenFalls ==
    [][Works /\ Works' /\ ~Trouble /\ ~Host =>
          /\ Burden' <= Burden
          /\ Wakeup \/ (Deliver /\ Distance \in 1 .. WireLen)
                    \/ (TelemetryPublish /\ Distance > WireLen)
             => Burden' < Burden]_vars

LEMMA LeastNumber ==
  ASSUME NEW S \in SUBSET Nat, S # {}
  PROVE  \E x \in S : \A y \in S : x <= y
<1>1. PICK x \in S : \A y \in S : ~(<<y, x>> \in OpToRel(<, Nat))
  BY WFMin, NatLessThanWellFounded
<1>2. \A y \in S : ~(y < x)
  BY <1>1 DEF OpToRel
<1> QED
  BY <1>2

LEMMA Sizes == WireLen \in Nat /\ WireLen >= 4 /\ MaxCount \in Nat
  BY MqttAssumption

\* What the distance says.
LEMMA DistanceIs ==
  /\ Distance \in 0 .. WireLen + 2
  /\ Distance = WireLen + 2 <=> HoldsOutdated
  /\ Distance <= WireLen => RightAfter(Distance)
  /\ \A k \in 0 .. WireLen : ~HoldsOutdated /\ RightAfter(k) => Distance <= k
<1>1. CASE HoldsOutdated
  <2>1. Distance = WireLen + 2
    BY <1>1 DEF Distance
  <2> QED
    BY <1>1, <2>1, Sizes
<1>2. CASE ~HoldsOutdated /\ ~\E k \in 0 .. WireLen : RightAfter(k)
  <2>1. Distance = WireLen + 1
    BY <1>2 DEF Distance
  <2> QED
    BY <1>2, <2>1, Sizes
<1>3. CASE ~HoldsOutdated /\ \E k \in 0 .. WireLen : RightAfter(k)
  <2> DEFINE S == {k \in 0 .. WireLen : RightAfter(k)}
             Least(k) == RightAfter(k) /\ \A j \in 0 .. WireLen : RightAfter(j) => k <= j
  <2>1. S \in SUBSET Nat /\ S # {}
    BY <1>3
  <2>2. \E x \in S : \A y \in S : x <= y
    BY <2>1, LeastNumber
  <2>3. \E k \in 0 .. WireLen : Least(k)
    BY <2>2
  <2>4. Distance = CHOOSE k \in 0 .. WireLen : Least(k)
    BY <1>3, Zenon DEF Distance
  <2> HIDE DEF Least
  <2>5. Distance \in 0 .. WireLen /\ Least(Distance)
    BY <2>3, <2>4, Zenon
  <2> QED
    BY <1>3, <2>5, Sizes DEF Least
<1> QED
  BY <1>1, <1>2, <1>3

LEMMA UsbMessage ==
  ASSUME mounted \in BOOLEAN
  PROVE  /\ ~Outdated(Usb(mounted)) /\ Usb(mounted).topic = "state/usb" /\ Usb(mounted) \in Message
         /\ (IF Usb(mounted).on THEN "ON" ELSE "OFF") = UsbText
         /\ \A n : ~Outdated(Wakeups(n))
<1>1. Usb(mounted).topic = "state/usb" /\ Usb(mounted).on = mounted
  BY DEF Usb
<1>2. \A n : Wakeups(n).topic = "state/wakeup_count"
  BY DEF Wakeups
<1>3. Usb(mounted) \in Message
  BY Messages
<1> QED
  BY <1>1, <1>2, <1>3, Zenon DEF Outdated, UsbText

\* One message more, that is not outdated.
LEMMA RightLonger ==
  ASSUME TypeOK, TypeOK', mounted' = mounted, usb' = usb, NEW m \in Message, ~Outdated(m),
         wire' = wire \o <<m>>
  PROVE  /\ \A k \in 0 .. WireLen : RightAfter(k) => RightAfter(k)'
         /\ m = Usb(mounted) => \E k \in 0 .. WireLen : RightAfter(k)'
<1>1. wire \in Seq(Message) /\ Len(wire) \in Nat /\ DOMAIN wire = 1 .. Len(wire)
  BY LenProperties DEF TypeOK
<1>2. /\ Len(wire') = Len(wire) + 1 /\ DOMAIN wire' = 1 .. Len(wire) + 1
      /\ \A i \in 1 .. Len(wire) : wire'[i] = wire[i]
      /\ wire'[Len(wire) + 1] = m
  BY <1>1, OneMore, LenProperties DEF TypeOK
<1>3. \A x : Outdated(x)' <=> Outdated(x)
  BY DEF Outdated, Usb
<1>4. UsbText' = UsbText /\ Usb(mounted)' = Usb(mounted)
  BY DEF UsbText, Usb
<1>5. ASSUME NEW k \in 0 .. WireLen, RightAfter(k)
      PROVE  RightAfter(k)'
  <2>1. IF k = 0 THEN usb' = UsbText' ELSE k \in DOMAIN wire' /\ wire'[k] = Usb(mounted)'
    BY <1>1, <1>2, <1>4, <1>5 DEF RightAfter
  <2>2. \A i \in DOMAIN wire' : i > k => ~Outdated(wire'[i])
    BY <1>1, <1>2, <1>5 DEF RightAfter
  <2>3. \A i \in DOMAIN wire' : i > k => ~Outdated(wire[i])'
    BY <1>3, <2>2
  <2> QED
    BY <2>1, <2>3 DEF RightAfter
<1>6. ASSUME m = Usb(mounted) PROVE \E k \in 0 .. WireLen : RightAfter(k)'
  <2>1. PICK k \in 0 .. WireLen : k = Len(wire) + 1
    BY <1>1, <1>2, Sizes DEF TypeOK
  <2>2. k # 0 /\ k \in DOMAIN wire' /\ wire'[k] = Usb(mounted)'
    BY <1>1, <1>2, <1>4, <1>6, <2>1
  <2>3. \A i \in DOMAIN wire' : ~(i > k)
    BY <1>1, <1>2, <2>1
  <2> QED
    BY <2>2, <2>3 DEF RightAfter
<1> QED
  BY <1>5, <1>6

\* A message arrives.
LEMMA RightSooner ==
  ASSUME TypeOK, Deliver, NEW k \in 0 .. WireLen, RightAfter(k)
  PROVE  /\ k = 0 => RightAfter(0)'
         /\ k > 0 => \A j \in Nat : j = k - 1 => RightAfter(j)'
<1>1. /\ Head(wire) = wire[1] /\ Head(wire) \in Message
      /\ Len(wire) \in Nat \ {0} /\ Len(wire') = Len(wire) - 1
      /\ DOMAIN wire = 1 .. Len(wire) /\ DOMAIN wire' = 1 .. Len(wire')
      /\ \A i \in 1 .. Len(wire') : wire'[i] = wire[i + 1]
  BY DeliverWire, LenProperties DEF TypeOK
<1>2. mounted' = mounted
  BY DEF Deliver
<1>3. \A x : Outdated(x)' <=> Outdated(x)
  BY <1>2 DEF Outdated, Usb
<1>4. UsbText' = UsbText /\ Usb(mounted)' = Usb(mounted)
  BY <1>2 DEF UsbText, Usb
<1>5. usb' = IF wire[1].topic = "state/usb" THEN (IF wire[1].on THEN "ON" ELSE "OFF") ELSE usb
  BY <1>1 DEF Deliver
<1>6. wire[1] = Usb(mounted) => usb' = UsbText'
  BY <1>4, <1>5, UsbMessage DEF TypeOK
<1>7. CASE k = 0
  <2>1. usb = UsbText /\ \A i \in DOMAIN wire : ~Outdated(wire[i])
    BY <1>1, <1>7 DEF RightAfter
  <2>2. usb' = UsbText'
    <3>1. CASE wire[1].topic = "state/usb"
      <4>1. wire[1] = Usb(mounted)
        BY <1>1, <2>1, <3>1 DEF Outdated
      <4> QED
        BY <1>6, <4>1
    <3>2. CASE wire[1].topic # "state/usb"
      BY <1>4, <1>5, <2>1, <3>2
    <3> QED
      BY <3>1, <3>2
  <2>3. \A i \in DOMAIN wire' : ~Outdated(wire[i + 1]) /\ wire'[i] = wire[i + 1]
    BY <1>1, <2>1
  <2>4. \A i \in DOMAIN wire' : ~Outdated(wire[i])'
    BY <1>3, <2>3
  <2> QED
    BY <1>7, <2>2, <2>4 DEF RightAfter
<1>8. ASSUME k > 0, NEW j \in Nat, j = k - 1
      PROVE  RightAfter(j)'
  <2>1. /\ k \in 1 .. Len(wire) /\ wire[k] = Usb(mounted)
        /\ \A i \in DOMAIN wire : i > k => ~Outdated(wire[i])
    BY <1>1, <1>8 DEF RightAfter
  <2>2. IF j = 0 THEN usb' = UsbText' ELSE j \in DOMAIN wire' /\ wire'[j] = Usb(mounted)'
    <3>1. CASE j = 0
      BY <1>6, <1>8, <2>1, <3>1
    <3>2. CASE j # 0
      BY <1>1, <1>4, <1>8, <2>1, <3>2
    <3> QED
      BY <3>1, <3>2
  <2>3. \A i \in DOMAIN wire' : i > j => ~Outdated(wire[i + 1]) /\ wire'[i] = wire[i + 1]
    BY <1>1, <1>8, <2>1
  <2>4. \A i \in DOMAIN wire' : i > j => ~Outdated(wire[i])'
    BY <1>3, <2>3
  <2> QED
    BY <2>2, <2>4 DEF RightAfter
<1> QED
  BY <1>7, <1>8

\* What is right after k messages stays so: the distance does not grow.
LEMMA NotFurther ==
  ASSUME HoldsOutdated' => HoldsOutdated,
         \A k \in 0 .. WireLen : RightAfter(k) => RightAfter(k)'
  PROVE  Distance' <= Distance
<1>1. /\ Distance' \in 0 .. WireLen + 2
      /\ Distance' = WireLen + 2 <=> HoldsOutdated'
      /\ Distance' <= WireLen => RightAfter(Distance)'
      /\ \A k \in 0 .. WireLen : ~HoldsOutdated' /\ RightAfter(k)' => Distance' <= k
  <2>1. (/\ Distance \in 0 .. WireLen + 2
         /\ Distance = WireLen + 2 <=> HoldsOutdated
         /\ Distance <= WireLen => RightAfter(Distance)
         /\ \A k \in 0 .. WireLen : ~HoldsOutdated /\ RightAfter(k) => Distance <= k)'
    BY DistanceIs, PTL
  <2> QED
    BY <2>1
<1>2. CASE Distance = WireLen + 2
  BY <1>1, <1>2, Sizes
<1>3. CASE Distance = WireLen + 1
  BY <1>1, <1>3, DistanceIs, Sizes
<1>4. CASE Distance \in 0 .. WireLen
  <2>1. ~HoldsOutdated /\ RightAfter(Distance)
    BY <1>4, DistanceIs, Sizes
  <2>2. PICK k \in 0 .. WireLen : k = Distance /\ RightAfter(k)
    BY <1>4, <2>1
  <2> QED
    BY <1>1, <2>1, <2>2
<1> QED
  BY <1>2, <1>3, <1>4, DistanceIs, Sizes

LEMMA DistanceMost == \A j \in 0 .. WireLen : ~HoldsOutdated /\ RightAfter(j) => Distance <= j
  BY DistanceIs

\* It is less than k once the state is right after fewer than k messages.
LEMMA Nearer ==
  ASSUME ~HoldsOutdated', NEW k \in 0 .. WireLen, RightAfter(k)'
  PROVE  Distance' <= k
<1>1. (\A j \in 0 .. WireLen : ~HoldsOutdated /\ RightAfter(j) => Distance <= j)'
  BY DistanceMost, PTL
<1> QED
  BY <1>1

Needed == Distance > WireLen
Coming == Distance \in 1 .. WireLen

\* What each step does to the burden, on a connection that works.
LEMMA BurdenStep ==
  ASSUME TypeOK, TypeOK', Works, Works', Next, ~Trouble, ~Host
  PROVE  /\ Distance' <= Distance
         /\ Deliver /\ Coming => Distance' < Distance
         /\ TelemetryPublish /\ Needed => Distance' < Distance
         /\ count' >= count
         /\ Wakeup => count' > count
<1>1. /\ wire \in Seq(Message) /\ Len(wire) \in Nat /\ count \in Nat /\ mounted \in BOOLEAN
      /\ held \in BOOLEAN
  BY LenProperties DEF TypeOK
<1>2. ~MqttSkipped /\ ~MqttStart /\ ~Connected /\ ~Disconnected /\ ~Connect /\ ~Expire
  BY DEF Works, MqttSkipped, MqttStart, Connected, Disconnected, Connect, Expire
<1>3. CASE TelemetryStart \/ TelemetryRead
  <2>1. UNCHANGED <<wire, usb, mounted, count>> /\ (HoldsOutdated' => HoldsOutdated)
    BY <1>3 DEF TelemetryStart, TelemetryRead, brokerVars, retainedVars, HoldsOutdated
  <2>2. \A k \in 0 .. WireLen : RightAfter(k) => RightAfter(k)'
    BY <2>1 DEF RightAfter, UsbText, Outdated, Usb
  <2>3. ~Deliver /\ ~TelemetryPublish /\ ~Wakeup
    <3>1. UNCHANGED <<wire, count>> /\ telemetry' # telemetry
      BY <1>3 DEF TelemetryStart, TelemetryRead, brokerVars
    <3> QED
      BY <1>1, <3>1, <1>3 DEF Deliver, deviceVars, TelemetryPublish, TelemetryStart, TelemetryRead, Wakeup
  <2> QED
    BY <1>1, <2>1, <2>2, <2>3, NotFurther
<1>4. CASE TelemetryPublish
  <2>1. /\ telemetry = "holds" /\ telemetry' = "due"
        /\ UNCHANGED <<usb, mounted, count>> /\ wire' = wire \o <<Usb(held)>>
    BY <1>4 DEF TelemetryPublish, AfterTelemetry, Publish, Works, retainedVars
  <2>2. ~HoldsOutdated'
    BY <2>1 DEF HoldsOutdated
  <2>3. ~Deliver /\ ~Wakeup
    BY <2>1 DEF Deliver, deviceVars, Wakeup
  <2>4. CASE held # mounted
    <3>1. Distance = WireLen + 2
      BY <2>1, <2>4, DistanceIs DEF HoldsOutdated
    <3>2. (Distance \in 0 .. WireLen + 2 /\ (Distance = WireLen + 2 <=> HoldsOutdated))'
      BY DistanceIs, PTL
    <3>3. Distance' < Distance
      BY <2>2, <3>1, <3>2, Sizes
    <3> QED
      BY <1>1, <2>1, <2>3, <3>1, <3>3, <3>2, Sizes
  <2>5. CASE held = mounted
    <3>1. Usb(held) = Usb(mounted) /\ Usb(held) \in Message /\ ~Outdated(Usb(held))
      BY <1>1, <2>5, UsbMessage
    <3>2. /\ \A k \in 0 .. WireLen : RightAfter(k) => RightAfter(k)'
          /\ \E k \in 0 .. WireLen : RightAfter(k)'
      BY <2>1, <3>1, RightLonger
    <3>3. Distance' <= Distance
      BY <2>2, <3>2, NotFurther
    <3>4. Distance' <= WireLen
      <4>1. PICK k \in 0 .. WireLen : RightAfter(k)'
        BY <3>2
      <4>2. Distance' <= k
        BY <2>2, <4>1, Nearer
      <4>3. (Distance \in 0 .. WireLen + 2)'
        BY DistanceIs, PTL
      <4> QED
        BY <4>2, <4>3, Sizes
    <3>5. Needed => Distance' < Distance
      <4>1. (Distance \in 0 .. WireLen + 2)'
        BY DistanceIs, PTL
      <4> QED
        BY <3>4, <4>1, DistanceIs, Sizes DEF Needed
    <3> QED
      BY <1>1, <2>1, <2>3, <3>3, <3>5
  <2> QED
    BY <2>4, <2>5
<1>5. CASE Wakeup
  <2>1. /\ UNCHANGED <<usb, mounted, telemetry, held>> /\ count' = count + 1
        /\ wire' = wire \o <<Wakeups(count')>>
    BY <1>5 DEF Wakeup, NextCount, Publish, Works, retainedVars
  <2>2. Wakeups(count') \in Message /\ ~Outdated(Wakeups(count'))
    BY <1>1, Messages, UsbMessage DEF TypeOK
  <2>3. \A k \in 0 .. WireLen : RightAfter(k) => RightAfter(k)'
    BY <2>1, <2>2, RightLonger
  <2>4. HoldsOutdated' => HoldsOutdated
    BY <2>1 DEF HoldsOutdated
  <2>5. ~Deliver /\ ~TelemetryPublish
    BY <1>1, <2>1 DEF Deliver, deviceVars, TelemetryPublish
  <2> QED
    BY <1>1, <2>1, <2>3, <2>4, <2>5, NotFurther
<1>6. CASE Deliver
  <2>1. UNCHANGED <<telemetry, held, mounted, count>>
    BY <1>6 DEF Deliver, deviceVars
  <2>2. HoldsOutdated' <=> HoldsOutdated
    BY <2>1 DEF HoldsOutdated
  <2>3. ~Wakeup /\ ~TelemetryPublish
    BY <1>1, <2>1 DEF Wakeup, NextCount, TelemetryPublish, AfterTelemetry
  <2>4. (Distance \in 0 .. WireLen + 2 /\ (Distance = WireLen + 2 <=> HoldsOutdated))'
    BY DistanceIs, PTL
  <2>5. CASE Needed
    BY <1>1, <2>1, <2>2, <2>3, <2>4, <2>5, DistanceIs, Sizes DEF Needed, Coming
  <2>6. CASE ~Needed
    <3>1. Distance \in 0 .. WireLen /\ RightAfter(Distance) /\ ~HoldsOutdated
      BY <2>6, DistanceIs, Sizes DEF Needed
    <3>2. PICK k \in 0 .. WireLen : k = Distance /\ RightAfter(k)
      BY <3>1
    <3>3. CASE k = 0
      <4>1. RightAfter(0)'
        BY <1>6, <3>2, <3>3, RightSooner
      <4>2. Distance' <= 0
        BY <2>2, <3>1, <4>1, Nearer, Sizes
      <4> QED
        BY <1>1, <2>1, <2>3, <3>2, <3>3, <4>2 DEF Coming
    <3>4. CASE k > 0
      <4>1. PICK j \in 0 .. WireLen : j = k - 1
        BY <3>4, Sizes
      <4>2. RightAfter(j)'
        BY <1>6, <3>2, <3>4, <4>1, RightSooner
      <4>3. Distance' <= j
        BY <2>2, <3>1, <4>2, Nearer
      <4>4. Distance' < Distance
        BY <2>4, <3>2, <4>1, <4>3
      <4> QED
        BY <1>1, <2>1, <2>3, <2>4, <3>2, <4>4
    <3> QED
      BY <3>2, <3>3, <3>4
  <2> QED
    BY <2>5, <2>6
<1> QED
  BY <1>2, <1>3, <1>4, <1>5, <1>6 DEF Next

\* The burden is bounded; of a number below Ceiling the binary digits, the highest
\* first, come to rest while it falls.
Ceiling == 65536
Part(k) == Burden \div k
Steady(k) == Part(k)' = Part(k)
Odd(k) == Part(k) % 2 = 1

\* The digit at k, once those from j on stand still.
Halves(k, j) == /\ Steady(j) /\ Odd(k)' => Odd(k)
                /\ Steady(j) /\ (Odd(k)' <=> Odd(k)) => Steady(k)

\* All the digits of a number below Ceiling.
Descent == /\ Steady(Ceiling)
           /\ Halves(1, 2) /\ Halves(2, 4) /\ Halves(4, 8) /\ Halves(8, 16)
           /\ Halves(16, 32) /\ Halves(32, 64) /\ Halves(64, 128) /\ Halves(128, 256)
           /\ Halves(256, 512) /\ Halves(512, 1024) /\ Halves(1024, 2048)
           /\ Halves(2048, 4096) /\ Halves(4096, 8192) /\ Halves(8192, 16384)
           /\ Halves(16384, 32768) /\ Halves(32768, Ceiling)

LEMMA Halving ==
  ASSUME NEW a \in Nat, NEW b \in Nat, b <= a, b \div 2 = a \div 2
  PROVE  (b % 2 = 1 => a % 2 = 1) /\ ((b % 2 = 1 <=> a % 2 = 1) => b = a)
  OBVIOUS

LEMMA HalvesStep ==
  ASSUME NEW k, NEW j, Part(k) \in Nat, Part(k)' \in Nat, Part(k)' <= Part(k),
         Part(j) = Part(k) \div 2, Part(j)' = Part(k)' \div 2
  PROVE  Halves(k, j)
  BY Halving DEF Halves, Steady, Odd

LEMMA Descends ==
  ASSUME Burden \in Nat, Burden < Ceiling, Burden' \in Nat, (Burden < Ceiling)', Burden' <= Burden
  PROVE  Descent
<1>1. Halves(1, 2)
  BY HalvesStep DEF Part
<1>2. Halves(2, 4)
  BY HalvesStep DEF Part
<1>3. Halves(4, 8)
  BY HalvesStep DEF Part
<1>4. Halves(8, 16)
  BY HalvesStep DEF Part
<1>5. Halves(16, 32)
  BY HalvesStep DEF Part
<1>6. Halves(32, 64)
  BY HalvesStep DEF Part
<1>7. Halves(64, 128)
  BY HalvesStep DEF Part
<1>8. Halves(128, 256)
  BY HalvesStep DEF Part
<1>9. Halves(256, 512)
  BY HalvesStep DEF Part
<1>10. Halves(512, 1024)
  BY HalvesStep DEF Part
<1>11. Halves(1024, 2048)
  BY HalvesStep DEF Part
<1>12. Halves(2048, 4096)
  BY HalvesStep DEF Part
<1>13. Halves(4096, 8192)
  BY HalvesStep DEF Part
<1>14. Halves(8192, 16384)
  BY HalvesStep DEF Part
<1>15. Halves(16384, 32768)
  BY HalvesStep DEF Part
<1>16. Halves(32768, Ceiling)
  BY HalvesStep DEF Part, Ceiling
<1>17. Steady(Ceiling)
  <2>1. \A n \in Nat : n < Ceiling => n \div Ceiling = 0
    BY DEF Ceiling
  <2>2. Part(Ceiling) = 0 /\ Part(Ceiling)' = 0
    BY <2>1 DEF Part
  <2> QED
    BY <2>2 DEF Steady
<1> QED
  BY <1>1, <1>2, <1>3, <1>4, <1>5, <1>6, <1>7, <1>8, <1>9, <1>10, <1>11,
     <1>12, <1>13, <1>14, <1>15, <1>16, <1>17 DEF Descent

\* The bounds on the messages under way and on the wakeups counted are not huge.
ModestBounds == WireLen + 2 + MaxCount < Ceiling

LEMMA BurdenRange ==
  TypeOK => Burden \in Nat /\ Burden <= WireLen + 2 + MaxCount
  BY DistanceIs, Sizes DEF Burden, TypeOK

LEMMA DistanceRange == Distance \in 0 .. WireLen + 2
  BY DistanceIs

Calm == /\ TypeOK /\ TypeOK' /\ [Next]_vars /\ [~Trouble /\ ~Host]_vars
        /\ Works /\ Works'

LEMMA SameDistance == UNCHANGED vars => UNCHANGED <<Distance, count>>
  BY DEF vars, deviceVars, brokerVars, retainedVars, Distance, HoldsOutdated, RightAfter, UsbText, Outdated,
         Usb

LEMMA SumsTight ==
  ASSUME NEW d \in Nat, NEW e \in Nat, NEW m \in Nat, NEW b \in 0 .. m, NEW c \in 0 .. m,
         e <= d, c >= b,
         e + (m - c) = d + (m - b)
  PROVE  e = d /\ c = b
OBVIOUS

LEMMA Sums ==
  ASSUME NEW d \in Nat, NEW e \in Nat, NEW m \in Nat, NEW b \in 0 .. m, NEW c \in 0 .. m,
         e <= d, c >= b
  PROVE  /\ e + (m - c) <= d + (m - b)
         /\ e < d \/ c > b => e + (m - c) < d + (m - b)
  OBVIOUS

\* Without trouble, and with a host that stands still, the burden only falls, and
\* falls with every arrival and every publication that is needed.
THEOREM BurdenOnlyFalls == Spec => BurdenFalls
<1>1. ASSUME TypeOK, TypeOK', [Next]_vars
      PROVE  [Works /\ Works' /\ ~Trouble /\ ~Host =>
                /\ Burden' <= Burden
                /\ Wakeup \/ (Deliver /\ Distance \in 1 .. WireLen)
                          \/ (TelemetryPublish /\ Distance > WireLen)
                   => Burden' < Burden]_vars
  <2>1. SUFFICES ASSUME Next, Works, Works', ~Trouble, ~Host
                 PROVE  /\ Burden' <= Burden
                        /\ Wakeup \/ (Deliver /\ Distance \in 1 .. WireLen)
                                  \/ (TelemetryPublish /\ Distance > WireLen)
                           => Burden' < Burden
    BY <1>1
  <2>2. (Distance \in 0 .. WireLen + 2)'
    BY DistanceRange, PTL
  <2>3. /\ count \in 0 .. MaxCount /\ count' \in 0 .. MaxCount
        /\ Distance \in Nat /\ Distance' \in Nat /\ MaxCount \in Nat
    BY <1>1, <2>2, DistanceRange, Sizes DEF TypeOK
  <2>4. /\ Distance' <= Distance
        /\ Deliver /\ Coming => Distance' < Distance
        /\ TelemetryPublish /\ Needed => Distance' < Distance
        /\ count' >= count
        /\ Wakeup => count' > count
    BY <1>1, <2>1, BurdenStep
  <2>5. Burden = Distance + (MaxCount - count) /\ Burden' = Distance' + (MaxCount - count')
    BY DEF Burden
  <2>6. Burden' <= Burden /\ (Distance' < Distance \/ count' > count => Burden' < Burden)
    <3>1. Distance' <= Distance /\ count' >= count
      BY <2>4
    <3> QED
      BY <2>3, <2>5, <3>1, Sums, Zenon
  <2>7. (Coming <=> Distance \in 1 .. WireLen) /\ (Needed <=> Distance > WireLen)
    BY DEF Coming, Needed
  <2> QED
    BY <2>4, <2>6, <2>7, Zenon
<1> QED
  BY <1>1, TypeCorrect, PTL DEF Spec, BurdenFalls

LEMMA CalmBurden ==
  ASSUME ModestBounds, Calm
  PROVE  /\ Descent
         /\ Steady(1) => /\ [~Wakeup]_vars
                         /\ Needed => [~TelemetryPublish]_vars
                         /\ Coming => [~Deliver]_vars
                         /\ Needed <=> Needed'
                         /\ Coming <=> Coming'
<1>1. /\ (Distance \in 0 .. WireLen + 2)'
      /\ (TypeOK => Burden \in Nat /\ Burden <= WireLen + 2 + MaxCount)'
  BY DistanceRange, BurdenRange, PTL
<1>2. /\ count \in 0 .. MaxCount /\ count' \in 0 .. MaxCount
      /\ Distance \in Nat /\ Distance' \in Nat /\ MaxCount \in Nat /\ WireLen \in Nat
  BY <1>1, DistanceRange, Sizes DEF Calm, TypeOK
<1>3. Burden \in Nat /\ Burden < Ceiling /\ Burden' \in Nat /\ (Burden < Ceiling)'
  <2>1. Burden <= WireLen + 2 + MaxCount /\ Burden' <= WireLen + 2 + MaxCount
        /\ Burden \in Nat /\ Burden' \in Nat
    BY <1>1, BurdenRange DEF Calm
  <2>2. Ceiling \in Nat
    BY DEF Ceiling
  <2> QED
    BY <1>2, <2>1, <2>2 DEF ModestBounds
<1>4. CASE UNCHANGED vars
  <2>1. Distance' = Distance /\ count' = count
    BY <1>4, SameDistance
  <2>2. Burden' <= Burden
    BY <1>3, <2>1 DEF Burden
  <2>3. (Needed <=> Needed') /\ (Coming <=> Coming')
    BY <2>1 DEF Needed, Coming
  <2> QED
    BY <1>3, <1>4, <2>2, <2>3, Descends
<1>5. CASE ~UNCHANGED vars
  <2>1. Next /\ ~Trouble /\ ~Host /\ TypeOK /\ TypeOK' /\ Works /\ Works'
    BY <1>5 DEF Calm
  <2>2. /\ Distance' <= Distance
        /\ Deliver /\ Coming => Distance' < Distance
        /\ TelemetryPublish /\ Needed => Distance' < Distance
        /\ count' >= count
        /\ Wakeup => count' > count
    BY <2>1, BurdenStep
  <2>3. Burden' <= Burden /\ (Burden' = Burden => Distance' = Distance /\ count' = count)
    <3>1. Distance' <= Distance /\ count' >= count
      BY <2>2
    <3>2. Burden = Distance + (MaxCount - count) /\ Burden' = Distance' + (MaxCount - count')
      BY DEF Burden
    <3>3. Distance' + (MaxCount - count') <= Distance + (MaxCount - count)
      BY <1>2, <3>1, Sums, Zenon
    <3>4. Distance' + (MaxCount - count') = Distance + (MaxCount - count)
            => Distance' = Distance /\ count' = count
      <4> SUFFICES ASSUME Distance' + (MaxCount - count') = Distance + (MaxCount - count)
                   PROVE  Distance' = Distance /\ count' = count
        OBVIOUS
      <4> QED
        BY <1>2, <3>1, SumsTight, Zenon
    <3> QED
      BY <3>2, <3>3, <3>4
  <2>4. Steady(1) => Distance' = Distance /\ count' = count
    <3>1. \A n \in Nat : n \div 1 = n
      OBVIOUS
    <3>2. Part(1) = Burden /\ Part(1)' = Burden'
      BY <1>3, <3>1 DEF Part
    <3> QED
      BY <2>3, <3>2 DEF Steady
  <2>5. ASSUME Steady(1)
        PROVE  ~Wakeup /\ ~(Deliver /\ Coming) /\ ~(TelemetryPublish /\ Needed)
    BY <1>2, <2>2, <2>4, <2>5
  <2>6. Steady(1) => (Needed <=> Needed') /\ (Coming <=> Coming')
    BY <2>4 DEF Needed, Coming
  <2>7. Descent
    BY <1>3, <2>3, Descends
  <2> QED
    BY <2>5, <2>6, <2>7
<1> QED
  BY <1>4, <1>5

LEMMA SteadyStutter ==
  UNCHANGED vars => Steady(4096) /\ Steady(256) /\ Steady(16) /\ Steady(1)
<1>1. UNCHANGED vars => Burden' = Burden
  BY SameDistance DEF Burden
<1> QED
  BY <1>1 DEF Steady, Part

TelemetryAt(t) == telemetry = t
Carrying == wire # <<>>

\* What leads to the next publication.
LEMMA TelemetryStep ==
  ASSUME TypeOK, TypeOK', [Next]_vars, Works, Works'
  PROVE  /\ [~TelemetryPublish]_vars =>
              /\ TelemetryAt("none") => TelemetryAt("none")' \/ TelemetryAt("due")'
              /\ TelemetryAt("due") => TelemetryAt("due")' \/ TelemetryAt("holds")'
              /\ TelemetryAt("holds") => TelemetryAt("holds")'
         /\ <<TelemetryStart>>_vars => ~TelemetryAt("none")'
         /\ <<TelemetryRead>>_vars => ~TelemetryAt("due")'
         /\ [~TelemetryPublish]_vars /\ [~Wakeup]_vars => (Room => Room')
         /\ <<Deliver>>_vars => Room'
<1>1. Len(wire) \in Nat /\ Len(wire) <= WireLen /\ WireLen \in Nat
  BY LenProperties, Sizes DEF TypeOK
<1>2. /\ ~MqttSkipped /\ ~MqttStart /\ ~Connected /\ ~Disconnected /\ ~Connect /\ ~Expire
      /\ ~Dies /\ ~Cut /\ ~BrokerKeeps /\ ~BrokerForgets
  BY DEF Works, MqttSkipped, MqttStart, Connected, Disconnected, Connect, Expire, Dies, Cut, BrokerKeeps,
         BrokerForgets
<1>3. CASE UNCHANGED vars
  BY <1>3 DEF vars, deviceVars, brokerVars, TelemetryAt, Room
<1>4. CASE TelemetryStart \/ TelemetryRead \/ Host
  <2>1. wire' = wire
    BY <1>4 DEF TelemetryStart, TelemetryRead, Host, brokerVars
  <2>2. \/ telemetry = "none" /\ telemetry' = "due"
        \/ telemetry = "due" /\ telemetry' = "holds"
        \/ telemetry' = telemetry /\ ~TelemetryStart /\ ~TelemetryRead
    BY <1>4 DEF TelemetryStart, TelemetryRead, Host, deviceVars
  <2>3. ~Deliver
    BY <1>1, <2>1, DeliverWire
  <2>4. Room' <=> Room
    BY <2>1 DEF Room
  <2>5. /\ TelemetryAt("none") => TelemetryAt("none")' \/ TelemetryAt("due")'
        /\ TelemetryAt("due") => TelemetryAt("due")' \/ TelemetryAt("holds")'
        /\ TelemetryAt("holds") => TelemetryAt("holds")'
        /\ TelemetryStart => ~TelemetryAt("none")'
        /\ TelemetryRead => ~TelemetryAt("due")'
    BY <2>2 DEF TelemetryAt, TelemetryStart, TelemetryRead
  <2> QED
    BY <2>3, <2>4, <2>5
<1>5. CASE Deliver
  <2>1. telemetry' = telemetry /\ Len(wire') = Len(wire) - 1
    BY <1>5, DeliverWire DEF Deliver, deviceVars
  <2>2. Room'
    BY <1>1, <2>1 DEF Room
  <2>3. ~TelemetryStart /\ ~TelemetryRead
    BY <2>1 DEF TelemetryStart, TelemetryRead
  <2> QED
    BY <2>1, <2>2, <2>3 DEF TelemetryAt
<1>6. CASE Wakeup
  <2>1. telemetry' = telemetry /\ count' # count
    BY <1>6 DEF Wakeup, NextCount, TypeOK
  <2>2. ~TelemetryStart /\ ~TelemetryRead /\ ~Deliver /\ ~UNCHANGED vars
    BY <2>1 DEF TelemetryStart, TelemetryRead, Deliver, deviceVars, vars
  <2> QED
    BY <1>6, <2>1, <2>2 DEF TelemetryAt
<1>7. CASE TelemetryPublish
  <2>1. telemetry = "holds" /\ telemetry' = "due"
    BY <1>7 DEF TelemetryPublish, AfterTelemetry
  <2>2. ~TelemetryStart /\ ~TelemetryRead /\ ~Deliver /\ ~UNCHANGED vars
    BY <2>1 DEF TelemetryStart, TelemetryRead, Deliver, deviceVars, vars
  <2> QED
    BY <1>7, <2>2
<1> QED
  BY <1>2, <1>3, <1>4, <1>5, <1>6, <1>7 DEF Next, Trouble

LEMMA TelemetryWanted ==
  ASSUME TypeOK, Works, TelemetryPossible, ConnectionPossible
  PROVE  /\ TelemetryAt("none") => ENABLED <<TelemetryStart>>_vars
         /\ TelemetryAt("due") => ENABLED <<TelemetryRead>>_vars
         /\ TelemetryAt("holds") /\ Room => ENABLED <<TelemetryPublish>>_vars
         /\ Carrying => ENABLED <<Deliver>>_vars
         /\ ~Room \/ Coming => Carrying
         /\ TelemetryAt("none") \/ TelemetryAt("due") \/ TelemetryAt("holds")
<1>1. connected
  BY DEF TypeOK, Works
<1>2. ~Room => Carrying
  BY Sizes, EmptySeq DEF Room, Carrying
<1>3. Coming => Carrying
  <2>1. SUFFICES ASSUME Coming PROVE Carrying
    OBVIOUS
  <2>2. RightAfter(Distance) /\ Distance # 0
    BY <2>1, DistanceIs, Sizes DEF Coming
  <2>3. DOMAIN wire # {}
    BY <2>2 DEF RightAfter
  <2> QED
    BY <2>3 DEF Carrying
<1>4. TelemetryAt("none") \/ TelemetryAt("due") \/ TelemetryAt("holds")
  BY DEF TypeOK, TelemetryAt
<1>5. TelemetryAt("holds") /\ Room => ENABLED <<TelemetryPublish>>_vars
  BY DEF TelemetryPossible, TelemetryAt
<1>6. TelemetryAt("due") => ENABLED <<TelemetryRead>>_vars
  BY <1>1 DEF TelemetryPossible, TelemetryAt
<1>7. TelemetryAt("none") => ENABLED <<TelemetryStart>>_vars
  BY DEF TelemetryPossible, TelemetryAt, Works
<1> QED
  BY <1>2, <1>3, <1>4, <1>5, <1>6, <1>7 DEF ConnectionPossible, Carrying

\* On a connection that works for good, with a host that stands still, the state
\* shown is right in the end: the burden comes to rest, so no message is to come and
\* no publication is needed any more.
LEMMA ShownRight ==
  ASSUME ModestBounds
  PROVE  FairSpec /\ []ConnectionPossible /\ []TelemetryPossible
            /\ <>[][~Trouble /\ ~Host]_vars /\ <>[]Works => <>[](usb = UsbText)
<1> DEFINE Onward == /\ TypeOK /\ TypeOK' /\ [Next]_vars /\ [~Trouble /\ ~Host]_vars
                     /\ Works /\ Works'
           Fit == TypeOK /\ Works /\ TelemetryPossible /\ ConnectionPossible
           Lasting == /\ FairSpec /\ []ConnectionPossible /\ []TelemetryPossible
                      /\ <>[][~Trouble /\ ~Host]_vars /\ <>[]Works
           Resting == Onward /\ Steady(1)
<1>1. Onward => Descent
  BY CalmBurden DEF Calm
<1>2. Lasting => <>[][Steady(1)]_vars
  <2>1. Lasting => <>[][Steady(4096)]_vars
    BY <1>1, SteadyStutter, TypeCorrect, PTL DEF FairSpec, Spec, Descent, Halves
  <2>2. Lasting => <>[][Steady(256)]_vars
    BY <1>1, <2>1, SteadyStutter, TypeCorrect, PTL DEF FairSpec, Spec, Descent, Halves
  <2>3. Lasting => <>[][Steady(16)]_vars
    BY <1>1, <2>2, SteadyStutter, TypeCorrect, PTL DEF FairSpec, Spec, Descent, Halves
  <2> QED
    BY <1>1, <2>3, SteadyStutter, TypeCorrect, PTL DEF FairSpec, Spec, Descent, Halves
<1>3. Lasting => <>[]Fit
  BY TypeCorrect, PTL DEF FairSpec
<1>4. Lasting => <>[]~Coming
  <2>1. Resting => (Coming <=> Coming') /\ (Coming => [~Deliver]_vars)
    BY CalmBurden DEF Calm
  <2>2. Fit => (Coming => Carrying) /\ (Carrying => ENABLED <<Deliver>>_vars)
    BY TelemetryWanted
  <2> QED
    BY <1>2, <1>3, <2>1, <2>2, SteadyStutter, TypeCorrect, PTL DEF FairSpec, Fairness, Spec
<1>5. Lasting => <>[]~Needed
  <2> DEFINE Silent == Lasting /\ <>[][~TelemetryPublish]_vars /\ <>[][~Wakeup]_vars
  <2>1. Resting => (Needed <=> Needed') /\ [~Wakeup]_vars /\ (Needed => [~TelemetryPublish]_vars)
    BY CalmBurden DEF Calm
  <2>2. Onward => /\ [~TelemetryPublish]_vars =>
                       /\ TelemetryAt("none") => TelemetryAt("none")' \/ TelemetryAt("due")'
                       /\ TelemetryAt("due") => TelemetryAt("due")' \/ TelemetryAt("holds")'
                       /\ TelemetryAt("holds") => TelemetryAt("holds")'
                  /\ <<TelemetryStart>>_vars => ~TelemetryAt("none")'
                  /\ <<TelemetryRead>>_vars => ~TelemetryAt("due")'
    BY TelemetryStep
  <2>3. Fit => /\ TelemetryAt("none") => ENABLED <<TelemetryStart>>_vars
               /\ TelemetryAt("due") => ENABLED <<TelemetryRead>>_vars
               /\ TelemetryAt("none") \/ TelemetryAt("due") \/ TelemetryAt("holds")
    BY TelemetryWanted
  <2>4. Silent => <>[]TelemetryAt("holds")
    BY <1>3, <2>2, <2>3, TypeCorrect, PTL DEF FairSpec, Fairness, Spec
  <2>5. Silent => <>[]Room
    <3>1. Onward => /\ [~TelemetryPublish]_vars /\ [~Wakeup]_vars => (Room => Room')
                    /\ <<Deliver>>_vars => Room'
      BY TelemetryStep
    <3>2. Fit => (~Room => Carrying) /\ (Carrying => ENABLED <<Deliver>>_vars)
      BY TelemetryWanted
    <3> QED
      BY <1>3, <3>1, <3>2, TypeCorrect, PTL DEF FairSpec, Fairness, Spec
  <2>6. ~Silent
    <3>1. Fit => (TelemetryAt("holds") /\ Room => ENABLED <<TelemetryPublish>>_vars)
      BY TelemetryWanted
    <3> QED
      BY <1>3, <2>4, <2>5, <3>1, PTL DEF FairSpec, Fairness
  <2> QED
    BY <1>2, <2>1, <2>6, SteadyStutter, TypeCorrect, PTL DEF FairSpec, Spec
<1>6. ~Coming /\ ~Needed => usb = UsbText
  <2>1. SUFFICES ASSUME ~Coming, ~Needed PROVE usb = UsbText
    OBVIOUS
  <2>2. RightAfter(Distance) /\ Distance = 0
    BY <2>1, DistanceIs, Sizes DEF Coming, Needed
  <2> QED
    BY <2>2 DEF RightAfter
<1> QED
  BY <1>4, <1>5, <1>6, PTL

\* Once the failures are over and the host stands still, what is shown of it is true,
\* although two publishers may publish what they read in the other order.
THEOREM UsbShown ==
  ASSUME ModestBounds
  PROVE  FairSpec /\ []ConnectionPossible /\ []TelemetryPossible => UsbSettles
<1> DEFINE Told == app = "mqtt" => usb = (IF mounted THEN "ON" ELSE "OFF")
<1>1. FairSpec /\ []ConnectionPossible /\ <>[][~Trouble]_vars => <>[]~Running \/ <>[]Works
  BY ConnectionSettles
<1>2. (~Running => Told) /\ (usb = UsbText => Told)
  BY DEF Running, UsbText
<1> HIDE DEF Told
<1>3. FairSpec /\ []ConnectionPossible /\ []TelemetryPossible /\ <>[][~Trouble /\ ~Host]_vars
        => <>[]Told
  BY <1>1, <1>2, ShownRight, PTL
<1> QED
  BY <1>3 DEF UsbSettles, Told
=============================================================================
