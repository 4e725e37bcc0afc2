----------------------------- MODULE MqttClient -----------------------------
(***************************************************************************)
(* The device as Home Assistant sees it through an MQTT broker              *)
(* (src/native-firmware/main/mqtt.c; esp-mqtt and the broker are external). *)
(*                                                                         *)
(* Everything is shown by retained messages: the availability, which the    *)
(* client sets to "online" and the broker, by the client's will, to         *)
(* "offline"; the discovery configurations, of which one stands for the     *)
(* six; the USB state, which stands for the four of the telemetry; and the  *)
(* wakeup count.                                                            *)
(*                                                                         *)
(* esp-mqtt runs the event handler under the lock that publishing takes, so *)
(* what a handler publishes goes out in one piece.  A publication on a      *)
(* connection that is dead, or on none, is lost: those the client repeats   *)
(* (QoS 1) are those the handler sends again anyway.  The session is clean: *)
(* the broker forgets the subscription with the connection.                 *)
(*                                                                         *)
(* The command that DATA brings is the request of an MQTT task in           *)
(* WakeupPath, the caller of Wakeup its UsbNotify.  orphan and counted are  *)
(* history.                                                                 *)
(***************************************************************************)
EXTENDS Naturals, Sequences

CONSTANTS WireLen,  \* bound: messages under way on a connection
          MaxCount  \* bound: wakeups counted in one run of the device

ASSUME MqttAssumption == WireLen \in Nat /\ WireLen >= 4 /\ MaxCount \in Nat

VARIABLES
    app,        \* "off", "plain" (runs without MQTT), "mqtt"
    client,     \* esp-mqtt: "down", "joined" (CONNECTED not handled yet), "up"
    connected,  \* s_connected
    count,      \* s_wakeup_count
    telemetry,  \* the telemetry task: "none", "due", "holds" a value to be published
    held,       \* that value
    mounted,    \* tud_mounted()
    session,    \* at the broker: "none", "live", "stale" (its connection is dead)
    wire,       \* on their way to the broker
    subscribed, \* the session's subscription
    availability, discovery, usb, wakeups,  \* retained
    orphan,     \* history: the broker restarted and kept an "online"
    counted     \* history: the retained count is of this run of the device

deviceVars == <<app, client, connected, count, telemetry, held>>
retainedVars == <<availability, discovery, usb, wakeups>>
brokerVars == <<session, wire, subscribed, retainedVars, orphan, counted>>
vars == <<deviceVars, mounted, brokerVars>>

Online     == [topic |-> "availability"]
Subscribe  == [topic |-> "cmd/wakeup"]
Discovery  == [topic |-> "config"]
Usb(on)    == [topic |-> "state/usb", on |-> on]
Wakeups(n) == [topic |-> "state/wakeup_count", count |-> n]

Message == {Online, Subscribe, Discovery} \union {Usb(on) : on \in BOOLEAN}
           \union {Wakeups(n) : n \in 0 .. MaxCount}

\* The device has never been switched on.
Init == /\ app = "off"
        /\ client = "down"
        /\ connected = FALSE
        /\ count = 0
        /\ telemetry = "none"
        /\ held = FALSE
        /\ mounted = FALSE
        /\ session = "none"
        /\ wire = <<>>
        /\ subscribed = FALSE
        /\ availability = "none"
        /\ discovery = FALSE
        /\ usb = "none"
        /\ wakeups = 0
        /\ orphan = FALSE
        /\ counted = FALSE

-----------------------------------------------------------------------------
\* mqtt_init.

\* No configuration, switched off, no broker, or esp_mqtt_client_init fails.
MqttSkipped == /\ app = "off"
               /\ app' = "plain"
               /\ UNCHANGED <<client, connected, count, telemetry, held, mounted, brokerVars>>

\* esp_mqtt_client_start ...
MqttStart == /\ app = "off"
             /\ app' = "mqtt"
             /\ UNCHANGED <<client, connected, count, telemetry, held, mounted, brokerVars>>

\* ... and then the telemetry task, when the client may be connected already.
TelemetryStart == /\ app = "mqtt"
                  /\ telemetry = "none"
                  /\ telemetry' = "due"
                  /\ UNCHANGED <<app, client, connected, count, held, mounted, brokerVars>>

-----------------------------------------------------------------------------
\* The client's events.

\* esp_mqtt_client_publish and _subscribe, once connected.
Publish(messages) == wire' = IF session = "live" THEN wire \o messages ELSE wire

\* Mutant: what the broker has been told once is not told again.
Announcement_Once == IF discovery THEN <<Usb(mounted)>>
                     ELSE <<Online, Subscribe, Discovery, Usb(mounted)>>

\* What the handler of MQTT_EVENT_CONNECTED sends, in order.
Announcement == <<Online, Subscribe, Discovery, Usb(mounted)>>

Connected == /\ client = "joined"
             /\ client' = "up"
             /\ connected' = TRUE
             /\ Publish(Announcement)
             /\ UNCHANGED <<app, count, telemetry, held, mounted, session, subscribed,
                            retainedVars, orphan, counted>>

\* Mutant: the flag outlives the connection.
ConnectedAfterLoss_Kept == connected

ConnectedAfterLoss == FALSE

\* MQTT_EVENT_DISCONNECTED, when the client finds its connection dead.
Disconnected == /\ client # "down"
                /\ session # "live"
                /\ client' = "down"
                /\ connected' = ConnectedAfterLoss
                /\ UNCHANGED <<app, count, telemetry, held, mounted, brokerVars>>

-----------------------------------------------------------------------------
\* Other tasks that publish.

\* publish_telemetry tests s_connected and reads the USB state ...
TelemetryRead == /\ telemetry = "due"
                 /\ connected
                 /\ telemetry' = "holds"
                 /\ held' = mounted
                 /\ UNCHANGED <<app, client, connected, count, mounted, brokerVars>>

\* Mutant: the task publishes once.
AfterTelemetry_Ends == "ends"

\* vTaskDelay, and again.
AfterTelemetry == "due"

Room == Len(wire) < WireLen

\* ... and publishes it, perhaps on a later connection, perhaps after a newer one.
TelemetryPublish == /\ telemetry = "holds"
                    /\ Room
                    /\ telemetry' = AfterTelemetry
                    /\ IF client = "up" THEN Publish(<<Usb(held)>>) ELSE UNCHANGED wire
                    /\ UNCHANGED <<app, client, connected, count, held, mounted, session,
                                   subscribed, retainedVars, orphan, counted>>

\* Mutant: the counter is too narrow.
NextCount_Narrow == (count + 1) % 2

NextCount == count + 1

\* mqtt_notify_wakeup, called by usb_task.
Wakeup == /\ connected
          /\ count < MaxCount
          /\ Room
          /\ count' = NextCount
          /\ Publish(<<Wakeups(count')>>)
          /\ UNCHANGED <<app, client, connected, telemetry, held, mounted, session,
                         subscribed, retainedVars, orphan, counted>>

-----------------------------------------------------------------------------
\* The broker.

\* Mutant: the will is not retained.
Will_NotRetained == UNCHANGED <<availability, orphan>>

\* The will of a session that ends without DISCONNECT: last_will.msg, retained.
Will == availability' = "offline" /\ orphan' = FALSE

\* CONNECT; the will of the session it takes over is published first.
Connect == /\ app = "mqtt"
           /\ client = "down"
           /\ client' = "joined"
           /\ session' = "live"
           /\ wire' = <<>>
           /\ subscribed' = FALSE
           /\ IF session = "none" THEN UNCHANGED <<availability, orphan>> ELSE Will
           /\ UNCHANGED <<app, connected, count, telemetry, held, mounted, discovery, usb,
                          wakeups, counted>>

\* The keep-alive time of a dead connection is over.
Expire == /\ session = "stale"
          /\ session' = "none"
          /\ subscribed' = FALSE
          /\ Will
          /\ UNCHANGED <<deviceVars, mounted, wire, discovery, usb, wakeups, counted>>

\* A message arrives, and is retained.
Deliver ==
    /\ wire # <<>>
    /\ LET m == Head(wire) IN
       /\ subscribed' = (subscribed \/ m = Subscribe)
       /\ availability' = IF m = Online THEN "online" ELSE availability
       /\ orphan' = (orphan /\ m # Online)
       /\ discovery' = (discovery \/ m = Discovery)
       /\ usb' = IF m.topic = "state/usb" THEN (IF m.on THEN "ON" ELSE "OFF") ELSE usb
       /\ wakeups' = IF m.topic = "state/wakeup_count" THEN m.count ELSE wakeups
       /\ counted' = (counted \/ m.topic = "state/wakeup_count")
    /\ wire' = Tail(wire)
    /\ UNCHANGED <<deviceVars, mounted, session>>

\* A restart of the broker ends all sessions without their wills.
BrokerKeeps == /\ session' = "none"
               /\ wire' = <<>>
               /\ subscribed' = FALSE
               /\ orphan' = (availability = "online")
               /\ UNCHANGED <<deviceVars, mounted, retainedVars, counted>>

BrokerForgets == /\ session' = "none"
                 /\ wire' = <<>>
                 /\ subscribed' = FALSE
                 /\ availability' = "none"
                 /\ discovery' = FALSE
                 /\ usb' = "none"
                 /\ wakeups' = 0
                 /\ orphan' = FALSE
                 /\ counted' = FALSE
                 /\ UNCHANGED <<deviceVars, mounted>>

-----------------------------------------------------------------------------
\* Surroundings.

\* The network loses the connection; neither end knows yet.
Cut == /\ session = "live"
       /\ session' = "stale"
       /\ wire' = <<>>
       /\ UNCHANGED <<deviceVars, mounted, subscribed, retainedVars, orphan, counted>>

\* A restart, a crash, a power failure: no DISCONNECT is sent.
Dies == /\ app # "off"
        /\ app' = "off"
        /\ client' = "down"
        /\ connected' = FALSE
        /\ count' = 0
        /\ telemetry' = "none"
        /\ held' = FALSE
        /\ mounted' = FALSE
        /\ session' = IF session = "live" THEN "stale" ELSE session
        /\ wire' = <<>>
        /\ counted' = FALSE
        /\ UNCHANGED <<subscribed, retainedVars, orphan>>

\* The host mounts or unmounts the keyboard.
Host == /\ app # "off"
        /\ mounted' = ~mounted
        /\ UNCHANGED <<deviceVars, brokerVars>>

Trouble == BrokerKeeps \/ BrokerForgets \/ Cut \/ Dies

Next == \/ MqttSkipped \/ MqttStart \/ TelemetryStart
        \/ Connected \/ Disconnected
        \/ TelemetryRead \/ TelemetryPublish \/ Wakeup
        \/ Connect \/ Expire \/ Deliver
        \/ Host \/ Trouble

Spec == Init /\ [][Next]_vars

\* The tasks run, esp-mqtt notices a dead connection and dials again, the network
\* delivers, keep-alive times end.  Nobody need switch the device on.
Fairness == /\ WF_vars(TelemetryStart)
            /\ WF_vars(Connect) /\ WF_vars(Connected) /\ WF_vars(Disconnected)
            /\ WF_vars(TelemetryRead) /\ WF_vars(TelemetryPublish)
            /\ WF_vars(Deliver)
            /\ WF_vars(Expire)

FairSpec == Spec /\ Fairness

-----------------------------------------------------------------------------
TypeOK == /\ app \in {"off", "plain", "mqtt"}
          /\ client \in {"down", "joined", "up"}
          /\ app # "mqtt" => client = "down" /\ telemetry = "none"
          /\ connected = (client = "up")
          /\ count \in 0 .. MaxCount
          /\ telemetry \in {"none", "due", "holds"}
          /\ held \in BOOLEAN
          /\ mounted \in BOOLEAN
          /\ session \in {"none", "live", "stale"}
          /\ session = "live" => client # "down"
          /\ wire \in Seq(Message)
          /\ Len(wire) <= WireLen
          /\ wire # <<>> => session = "live" /\ client = "up"
          /\ subscribed \in BOOLEAN
          /\ availability \in {"none", "online", "offline"}
          /\ discovery \in BOOLEAN
          /\ usb \in {"none", "ON", "OFF"}
          /\ wakeups \in 0 .. MaxCount
          /\ orphan \in BOOLEAN
          /\ counted \in BOOLEAN

UnderWay(m) == \E i \in DOMAIN wire : wire[i] = m

\* On a connection that works, all the broker must know to show the button and to
\* forward its command is known to it or under way, after every reconnection and
\* every restart of either side.
Announced ==
    session = "live" /\ client = "up" =>
        /\ availability = "online" \/ UnderWay(Online)
        /\ subscribed \/ UnderWay(Subscribe)
        /\ discovery \/ UnderWay(Discovery)

\* A device shown as available has a session, but for an "online" that the broker
\* itself brought back.
OnlineHasSession == availability = "online" /\ ~orphan => session # "none"

\* "online" is published before the command is subscribed to (mqtt.c:167, 170).  A
\* button shown as available is served all the same, or the subscription is next;
\* never is it the "online" of an earlier connection that is still shown.
OnlineIsServed ==
    availability = "online" /\ ~orphan /\ session = "live" => subscribed \/ UnderWay(Subscribe)

\* "state_class": "total_increasing" (mqtt.c:103): in one run of the device the
\* count shown never goes back, through all reconnections, unless the broker forgets.
CountGrows == [][counted /\ counted' => wakeups' >= wakeups]_vars

\* "when the ESP loses power / crashes, HA marks the device unavailable"
\* (README.md:123-124), if the broker does not restart meanwhile.
DeathIsShown == app = "off" ~> \/ availability # "online"
                               \/ app # "off"
                               \/ orphan

\* Once the failures are over, a device that runs the client is shown for good,
\* available and with its command subscribed to.
OnlineSettles ==
    <>[][~Trouble]_vars
    => <>[](app = "mqtt" => availability = "online" /\ subscribed /\ discovery)

\* And once the host has settled too, what is shown of it is true, although two
\* publishers may publish what they read in the other order.
UsbSettles ==
    <>[][~Trouble /\ ~Host]_vars
    => <>[](app = "mqtt" => usb = (IF mounted THEN "ON" ELSE "OFF"))

-----------------------------------------------------------------------------
\* The inductive invariant, in parts.

\* An "online" shown is that of the present connection, or an orphan.
Fresh ==
    availability = "online" /\ ~orphan => session # "none" /\ client # "joined"

\* What the broker has still to learn on a connection that works is next on the
\* wire, in the order of the announcement.
NextUp(k, m) == k \in DOMAIN wire /\ wire[k] = m

Announcing ==
    session = "live" /\ client = "up" =>
        \/ NextUp(1, Online) /\ NextUp(2, Subscribe) /\ NextUp(3, Discovery)
        \/ availability = "online" /\ NextUp(1, Subscribe) /\ NextUp(2, Discovery)
        \/ availability = "online" /\ subscribed /\ NextUp(1, Discovery)
        \/ availability = "online" /\ subscribed /\ discovery

IsCount(m) == m.topic = "state/wakeup_count"

\* The counts under way grow, from the one shown to the counter.
Counts == /\ counted => wakeups <= count
          /\ \A i \in DOMAIN wire : IsCount(wire[i]) =>
                /\ wire[i].count <= count
                /\ counted => wakeups <= wire[i].count
          /\ \A i, j \in DOMAIN wire :
                i < j /\ IsCount(wire[i]) /\ IsCount(wire[j]) => wire[i].count <= wire[j].count

IInv == TypeOK /\ Announced /\ Fresh /\ Announcing /\ Counts

\* The steps that fairness drives are possible in the states they are wanted in.
ConnectionPossible ==
    /\ app = "mqtt" /\ client = "down" => ENABLED <<Connect>>_vars
    /\ client = "joined" => ENABLED <<Connected>>_vars
    /\ client # "down" /\ session # "live" => ENABLED <<Disconnected>>_vars
    /\ wire # <<>> => ENABLED <<Deliver>>_vars
TelemetryPossible ==
    /\ app = "mqtt" /\ telemetry = "none" => ENABLED <<TelemetryStart>>_vars
    /\ telemetry = "due" /\ connected => ENABLED <<TelemetryRead>>_vars
    /\ telemetry = "holds" /\ Room => ENABLED <<TelemetryPublish>>_vars
ExpirePossible == session = "stale" => ENABLED <<Expire>>_vars
=============================================================================
