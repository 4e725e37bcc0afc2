---------------------------- MODULE WifiManager -----------------------------
(***************************************************************************)
(* Joining the Wi-Fi network in the native firmware                         *)
(* (src/native-firmware/main/wifi.c).  Four actors share the station:       *)
(* wifi_init(), run by app_main, with its bounded retry loop; the event     *)
(* loop task, which runs the handlers one event at a time, in order; the    *)
(* Wi-Fi driver, which moves the link and posts its loss; and the DHCP      *)
(* client, which posts an address.                                          *)
(*                                                                         *)
(* A handler may wait for room in the LED queue, so it is two steps around  *)
(* its LED call.  net is the environment: the configured network is there,  *)
(* accepts the station, leases it an address and lets it keep that.         *)
(*                                                                         *)
(* late is history: an address was posted behind the news that its link has *)
(* gone, before the gate of the disconnect handler was open, or after.      *)
(*                                                                         *)
(* EventBound caps the events that may be waiting when another is posted;   *)
(* who posts waits for room, as at the 32 entries of the event loop.        *)
(***************************************************************************)
EXTENDS Naturals, Sequences

CONSTANTS MaxAttempts,      \* APP_WIFI_STA_MAX_ATTEMPTS
          EventBound

ASSUME WifiAssumption == /\ MaxAttempts \in Nat \ {0}
                         /\ EventBound \in Nat \ {0}

VARIABLES
    pc,             \* where wifi_init() is
    attempt,        \* the loop variable of wifi_connect_sta(); 0 before the loop
    mode,           \* the driver is "off", or started as "sta" or "ap"
    link,           \* the station: "idle", "connecting", "assoc", "ip"
    answered,       \* the DHCP server's answer is there, not yet taken
    net,            \* environment
    events,         \* the default event loop's queue
    handling,       \* the event whose handler has begun, or "none"
    ipToken,        \* wifi_semph_get_ip4_addrs
    staConnected,   \* s_sta_connected
    refused,        \* history: esp_wifi_connect has failed in the disconnect handler
    late,           \* history
    led             \* the last Wi-Fi event given to the LED: "up" or "down"

driverVars == <<mode, link, answered, net, events, late>>
handlerVars == <<handling, staConnected, refused>>
vars == <<pc, attempt, driverVars, handlerVars, ipToken, led>>

Event == {"disconnected", "got_ip"}

Init == /\ pc = "creds"
        /\ attempt = 0
        /\ mode = "off"
        /\ link = "idle"
        /\ answered = FALSE
        /\ net \in BOOLEAN
        /\ events = <<>>
        /\ handling = "none"
        /\ ipToken = FALSE
        /\ staConnected = FALSE
        /\ refused = FALSE
        /\ late = {}
        /\ led = "down"

-----------------------------------------------------------------------------
\* The driver's calls.

\* esp_wifi_connect(): starts nothing unless there is an idle station.
Connect == link' = IF mode = "sta" /\ link = "idle" THEN "connecting" ELSE link

\* It may return an error of its own.
ConnectError == link' = link

\* esp_wifi_disconnect(), and the station's end in esp_wifi_stop(): a link that
\* was up is reported, an attempt that is cut short may be.
TearDown == /\ link' = "idle"
            /\ \/ link # "idle" /\ events' = Append(events, "disconnected")
               \/ link \in {"idle", "connecting"} /\ events' = events

-----------------------------------------------------------------------------
\* wifi_init() and wifi_connect_sta().

\* Credentials are there: station mode is started and the loop entered.
StartStation == /\ pc = "creds"
                /\ pc' = "connect"
                /\ attempt' = 1
                /\ mode' = "sta"
                /\ UNCHANGED <<link, answered, net, events, late, handlerVars, ipToken, led>>

NoCredentials == /\ pc = "creds"
                 /\ pc' = "ap_stop"
                 /\ UNCHANGED <<attempt, driverVars, handlerVars, ipToken, led>>

Attempt == /\ pc = "connect"
           /\ \/ Connect /\ pc' = "take"
              \/ ConnectError /\ pc' = "delay"
           /\ UNCHANGED <<attempt, mode, answered, net, events, late, handlerVars, ipToken, led>>

\* xSemaphoreTake(wifi_semph_get_ip4_addrs) succeeds ...
TakeIp == /\ pc = "take"
          /\ ipToken
          /\ ipToken' = FALSE
          /\ pc' = "ip6"
          /\ UNCHANGED <<attempt, driverVars, handlerVars, led>>

\* ... and the wait for a link-local IPv6 address ends, with or without one.
EndIp6 == /\ pc = "ip6"
          /\ pc' = "sta"
          /\ UNCHANGED <<attempt, driverVars, handlerVars, ipToken, led>>

\* Mutant: the address is waited for without a limit.
GivesUp_Never == FALSE

\* 15 s have passed.
GivesUp == ~ipToken

Timeout == /\ pc = "take"
           /\ GivesUp
           /\ pc' = "disconnect"
           /\ UNCHANGED <<attempt, driverVars, handlerVars, ipToken, led>>

Disconnect == /\ pc = "disconnect"
              /\ TearDown
              /\ pc' = "delay"
              /\ UNCHANGED <<attempt, mode, answered, net, late, handlerVars, ipToken, led>>

\* Mutant: one attempt too many.
AttemptsLeft_OneMore == attempt <= MaxAttempts

\* The loop's condition after its increment.
AttemptsLeft == attempt + 1 <= MaxAttempts

\* After the delay of 2 s.
Again == /\ pc = "delay"
         /\ IF AttemptsLeft
            THEN pc' = "connect" /\ attempt' = attempt + 1
            ELSE pc' = "ap_stop" /\ UNCHANGED attempt
         /\ UNCHANGED <<driverVars, handlerVars, ipToken, led>>

\* wifi_start_softap(): stop, start as an access point, show it.
StopStation == /\ pc = "ap_stop"
               /\ TearDown
               /\ mode' = "off"
               /\ pc' = "ap_start"
               /\ UNCHANGED <<attempt, answered, net, late, handlerVars, ipToken, led>>

StartAp == /\ pc = "ap_start"
           /\ mode' = "ap"
           /\ pc' = "ap_led"
           /\ UNCHANGED <<attempt, link, answered, net, events, late, handlerVars, ipToken, led>>

ShowAp == /\ pc = "ap_led"
          /\ led' = "down"
          /\ pc' = "ap"
          /\ UNCHANGED <<attempt, driverVars, handlerVars, ipToken>>

Main == \/ StartStation \/ NoCredentials \/ Attempt \/ TakeIp \/ EndIp6 \/ Timeout
        \/ Disconnect \/ Again \/ StopStation \/ StartAp \/ ShowAp

-----------------------------------------------------------------------------
\* The event handlers.

\* Mutant: the LED is left alone.
DisconnectedLed_None == led

\* ESP-IDF's own handler, which comes first, stops the DHCP client; then
\* led_handle_wifi_disconnected() is the first call of the code's.
DisconnectedLed == "down"

BeginDisconnected == /\ handling = "none"
                     /\ events # <<>>
                     /\ Head(events) = "disconnected"
                     /\ events' = Tail(events)
                     /\ handling' = "disconnected"
                     /\ answered' = FALSE
                     /\ led' = DisconnectedLed
                     /\ UNCHANGED <<pc, attempt, mode, link, net, late, ipToken, staConnected,
                                    refused>>

\* Mutant: the gate is the end of wifi_init() instead.
MayReconnect_AfterInit == pc = "sta"

\* The gate on the initial phase.
MayReconnect == staConnected

EndDisconnected == /\ handling = "disconnected"
                   /\ handling' = "none"
                   /\ \/ MayReconnect /\ Connect /\ UNCHANGED refused
                      \/ MayReconnect /\ ConnectError /\ refused' = TRUE
                      \/ ~MayReconnect /\ UNCHANGED <<link, refused>>
                   /\ UNCHANGED <<pc, attempt, mode, answered, net, events, late, ipToken,
                                  staConnected, led>>

BeginGotIp == /\ handling = "none"
              /\ events # <<>>
              /\ Head(events) = "got_ip"
              /\ events' = Tail(events)
              /\ handling' = "got_ip"
              /\ staConnected' = TRUE
              /\ ipToken' = TRUE
              /\ UNCHANGED <<pc, attempt, mode, link, answered, net, late, refused, led>>

EndGotIp == /\ handling = "got_ip"
            /\ handling' = "none"
            /\ led' = "up"
            /\ UNCHANGED <<pc, attempt, driverVars, ipToken, staConnected, refused>>

Handler == BeginDisconnected \/ EndDisconnected \/ BeginGotIp \/ EndGotIp

-----------------------------------------------------------------------------
\* The driver, the DHCP client and their environment.

Post(e) == /\ Len(events) < EventBound
           /\ events' = Append(events, e)

ElsewhereUnchanged == UNCHANGED <<pc, attempt, mode, handlerVars, ipToken, led>>

Associate == /\ net
             /\ link = "connecting"
             /\ link' = "assoc"
             /\ UNCHANGED <<answered, net, events, late>> /\ ElsewhereUnchanged

\* An attempt fails, or the link breaks, which it does without a network only.
Lose == /\ ~net
        /\ link # "idle"
        /\ link' = "idle"
        /\ Post("disconnected")
        /\ UNCHANGED <<answered, net, late>> /\ ElsewhereUnchanged

Driver == Associate \/ Lose

\* The event loop, which starts and stops the DHCP client, has come past the last
\* disconnect.
InterfaceUp == link = "assoc" /\ \A i \in DOMAIN events : events[i] # "disconnected"

Answer == /\ net
          /\ InterfaceUp
          /\ ~answered
          /\ answered' = TRUE
          /\ UNCHANGED <<link, net, events, late>> /\ ElsewhereUnchanged

\* The client takes the answer, perhaps after the driver has posted that the link
\* it came by is gone.
Lease == /\ answered
         /\ answered' = FALSE
         /\ link' = IF InterfaceUp THEN "ip" ELSE link
         /\ late' = IF InterfaceUp THEN late
                    ELSE late \union {IF staConnected THEN "after" ELSE "before"}
         /\ Post("got_ip")
         /\ UNCHANGED net /\ ElsewhereUnchanged

Dhcp == Answer \/ Lease

\* The address is lost, the association is not: IP_EVENT_STA_LOST_IP is posted, for
\* which there is no handler.
Expire == /\ ~net
          /\ link = "ip"
          /\ link' = "assoc"
          /\ UNCHANGED <<answered, net, events, late>> /\ ElsewhereUnchanged

\* The network appears or disappears.
Network == /\ net' = ~net
           /\ UNCHANGED <<link, answered, events, late>> /\ ElsewhereUnchanged

Next == Main \/ Handler \/ Driver \/ Dhcp \/ Expire \/ Network

Spec == Init /\ [][Next]_vars

\* Delays and time-outs end, the event loop, the driver and the DHCP client run;
\* the network comes and goes as it likes.
FairSpec == Spec /\ WF_vars(Main) /\ WF_vars(Handler) /\ WF_vars(Driver) /\ WF_vars(Dhcp)

-----------------------------------------------------------------------------
Retrying == {"connect", "take", "disconnect", "delay"}
Joined == {"ip6", "sta"}
FallingBack == {"ap_stop", "ap_start", "ap_led", "ap"}

TypeOK == /\ pc \in {"creds"} \union Retrying \union Joined \union FallingBack
          /\ attempt \in 0 .. MaxAttempts
          /\ mode \in {"off", "sta", "ap"}
          /\ link \in {"idle", "connecting", "assoc", "ip"}
          /\ answered \in BOOLEAN
          /\ net \in BOOLEAN
          /\ events \in Seq(Event)
          /\ handling \in Event \union {"none"}
          /\ ipToken \in BOOLEAN
          /\ staConnected \in BOOLEAN
          /\ refused \in BOOLEAN
          /\ late \subseteq {"before", "after"}
          /\ led \in {"up", "down"}

\* Whenever every event has been handled: a station that has an address is never
\* shown as disconnected; and one without a link, also in access-point mode, is not
\* shown as connected, unless its address came behind the news that the link has
\* gone.  A station that has lost its lease alone stays green: nobody handles that.
LedTells == events = <<>> /\ handling = "none"
            => /\ link = "ip" => led = "up"
               /\ link \in {"idle", "connecting"} /\ late = {} => led = "down"

\* Once wifi_init() has joined, an idle station is never on its own: a disconnect
\* event that will start it again is queued or being handled.  Two things strand it:
\* an error of esp_wifi_connect in the handler, which is logged and not retried; and
\* a first address that came behind the news that its link has gone, for then the
\* handler leaves the station to a loop that takes it for joined.
NeverStranded ==
    pc \in Joined /\ link = "idle" /\ ~refused /\ "before" \notin late
    => handling = "disconnected" \/ \E i \in DOMAIN events : events[i] = "disconnected"

\* The inductive invariant, in parts.

\* The driver is started as wifi_init() has left it; the attempts are counted.
Modes == /\ pc \in Retrying \union Joined => mode = "sta" /\ attempt \in 1 .. MaxAttempts
         /\ pc = "creds" => attempt = 0
         /\ pc \in FallingBack => attempt \in {0, MaxAttempts}
         /\ pc \in {"creds", "ap_start", "ap_led", "ap"} => mode # "sta"
         /\ link # "idle" => mode = "sta"

\* The last thing the LED will have been told, when all that is queued is done.
Told == IF events # <<>> THEN events[Len(events)]
        ELSE IF handling # "none" THEN handling
        ELSE IF led = "up" THEN "got_ip" ELSE "disconnected"

LedFollows ==
    /\ handling = "disconnected" => led = "down"
    /\ link = "ip" => Told = "got_ip"
    /\ link \in {"idle", "connecting"} /\ late = {} => Told = "disconnected"

Tokens == ipToken \/ pc \in Joined => staConnected

\* With the gate still closed, an address whose link is gone is followed by the
\* news of it.
StaleIpFollowed ==
    ~staConnected /\ link \in {"idle", "connecting"} /\ "before" \notin late
    => \A i \in DOMAIN events : events[i] = "got_ip" =>
           \E j \in DOMAIN events : j > i /\ events[j] = "disconnected"

\* The gate is open and the loop is not about to connect: an idle station has
\* its event.
Attended ==
    /\ ~refused /\ "before" \notin late
    /\ staConnected /\ link = "idle" /\ pc \in {"take"} \union Joined
    => handling = "disconnected" \/ \E i \in DOMAIN events : events[i] = "disconnected"

IInv == TypeOK /\ Modes /\ LedFollows /\ Tokens /\ StaleIpFollowed /\ Attended

\* wifi_init() implements the documented state machine.
Boot == INSTANCE WifiBoot WITH
            Attempts <- MaxAttempts,
            tries <- attempt,
            phase <- IF pc \in Joined THEN "sta"
                     ELSE IF pc = "ap" THEN "ap"
                     ELSE IF attempt = 0 THEN "boot" ELSE "trying"
BootSpec == Boot!Spec

\* Until it returns, one of its steps is possible.
MainPossible == pc \notin {"sta", "ap"} => ENABLED <<Main>>_vars

\* wifi_init() returns, whatever the network does.
BootEnds == <>(pc \in {"sta", "ap"})

\* If the network is there for good, a station that had joined has an address
\* for good, unless it was stranded (NeverStranded).
Reconnects ==
    <>[]net /\ <>(pc = "sta") /\ []~refused /\ []("before" \notin late) => <>[](link = "ip")

\* The event loop, the driver and the DHCP client can take the steps that are
\* wanted of them.
RejoinPossible ==
    /\ handling # "none" \/ events # <<>> => ENABLED <<Handler>>_vars
    /\ net /\ link = "connecting" => ENABLED <<Driver>>_vars
    /\ net /\ link = "assoc" /\ events = <<>> => ENABLED <<Dhcp>>_vars

\* "If the WiFi network later disappears [...] the ESP retries 3x then falls
\* back to SoftAP" (README.md:83-85).
FallsBackLater ==
    <>[]~net /\ <>(pc = "sta") /\ []~refused /\ []("before" \notin late) => <>(pc = "ap")
=============================================================================
