---------------------------- MODULE Provisioning ----------------------------
(***************************************************************************)
(* Configuring the native firmware over HTTP (src/native-firmware/main:     *)
(* the form handlers and the delayed restart of httpd.c, auth.c, the store  *)
(* of nvs_config.c, and the order of app_main).                             *)
(*                                                                         *)
(* One task serves all requests, one at a time, and is the only writer of   *)
(* the store.  An answer that needs a restart only starts a task that       *)
(* restarts the device 2 s later, when the server may be half way through   *)
(* another request.  Power may fail at any time.                            *)
(*                                                                         *)
(* A form is what its sender typed.  The browser sends its fields as        *)
(* application/x-www-form-urlencoded (URLSearchParams, web/setup.html:48),  *)
(* in which the texts in Special look different, and the handlers take      *)
(* them as they are sent.                                                   *)
(*                                                                         *)
(* Home is what the user's network expects.  The outcome of wifi_init is    *)
(* that of WifiManager: station with the right credentials and a network,   *)
(* access point otherwise.                                                  *)
(*                                                                         *)
(* plan, torn, blanked and known are history, but for the writes of plan    *)
(* that are still to come.                                                  *)
(***************************************************************************)
EXTENDS ConfigStore

CONSTANTS Special,  \* texts the encoding changes: with : / @ ! and the like
          Escaped,  \* what it makes of them
          Forms,    \* requests: [kind, fields], fields by name as typed
          Home      \* [ssid, password] of the user's network

FieldsOf(kind) ==
    CASE kind \in {"setup", "wifi"} -> {"ssid", "password"}
      [] kind = "passwords" -> {"wakeup", "admin"}
      [] kind = "hostname"  -> {"hostname"}
      [] kind = "mqtt"      -> {"broker", "user", "password", "discovery_prefix", "enabled"}
      [] kind = "reboot"    -> {}

Kind == {"setup", "wifi", "passwords", "hostname", "mqtt", "reboot"}

IsForm(r) == /\ r.kind \in Kind
             /\ DOMAIN r.fields \subseteq FieldsOf(r.kind)
             /\ \A f \in DOMAIN r.fields : r.fields[f] \in Text

\* The form of the setup page as the user fills it in.
HomeForm == [kind |-> "setup", fields |-> Home]

ASSUME ProvisioningAssumption == /\ Special \subseteq Text \ {Empty}
                                 /\ Escaped \in [Special -> Text \ {Empty}]
                                 /\ \A r \in Forms : IsForm(r)
                                 /\ Home \in [{"ssid", "password"} -> Text]

VARIABLES
    pc,         \* app_main: "off", "seed", "join"; then the HTTP task: "idle", "body", "write"
    seeded,     \* how many of SeededKeys nvs_config_init has seen to
    mode,       \* of wifi_init: "none", "sta", "ap"
    request,    \* the form being handled, or NoForm
    plan,       \* the writes of the last request
    written,    \* how many of them are done
    answer,     \* to that request: "pending", "ok", "none"
    rebootDue,  \* a restart task is waiting
    torn,       \* the writing of the Wi-Fi pair was cut between the two
    blanked,    \* the last MQTT request could not read what is stored
    known       \* admin passwords typed: the last one acknowledged and later ones

requestVars == <<request, plan, written, answer>>
vars == <<store, pc, seeded, mode, request, plan, written, answer, rebootDue, torn,
          blanked, known>>

NoForm == [kind |-> "reboot", fields |-> << >>]

Init == /\ store = [k \in Key |-> Absent]
        /\ pc = "off"
        /\ seeded = 0
        /\ mode = "none"
        /\ request = NoForm
        /\ plan = <<>>
        /\ written = 0
        /\ answer = "none"
        /\ rebootDue = FALSE
        /\ torn = FALSE
        /\ blanked = FALSE
        /\ known = {Default["admin_hash"]}

-----------------------------------------------------------------------------
\* app_main

Boot == /\ pc = "off"
        /\ pc' = "seed"
        /\ seeded' = 0
        /\ UNCHANGED <<store, mode, requestVars, rebootDue, torn, blanked, known>>

\* NVS is full or of another version: everything is erased.
BootErased == /\ pc = "off"
              /\ pc' = "seed"
              /\ seeded' = 0
              /\ store' = [k \in Key |-> Absent]
              /\ plan' = <<>> /\ written' = 0 /\ answer' = "none"
              /\ torn' = FALSE
              /\ known' = {Default["admin_hash"]}
              /\ UNCHANGED <<mode, request, rebootDue, blanked>>

SeedNext == /\ pc = "seed"
            /\ seeded' = seeded + 1
            /\ pc' = IF seeded' = Len(SeededKeys) THEN "join" ELSE "seed"
            /\ UNCHANGED <<mode, requestVars, rebootDue, torn, blanked, known>>

Seed == SeedNext /\ store' = Seeded(SeededKeys[seeded + 1])

\* nvs_config_init ignores what ensure_*_default returns.
SeedFails == /\ SeedNext
             /\ store[SeededKeys[seeded + 1]] = Absent
             /\ UNCHANGED store

AtHome == HasWifi /\ store["wifi_ssid"] = Home["ssid"] /\ store["wifi_pass"] = Home["password"]

Serve(m) == /\ pc = "join"
            /\ pc' = "idle"
            /\ mode' = m
            /\ UNCHANGED <<store, seeded, requestVars, rebootDue, torn, blanked, known>>

Join == Serve(IF AtHome THEN "sta" ELSE "ap")

\* The network is away during the three attempts.
JoinFails == AtHome /\ Serve("ap")

-----------------------------------------------------------------------------
\* A request arrives.

\* auth_require_admin: the password arrives as it was typed, in base64.
Authorised == \E p \in known : CheckPassword("admin_hash", p)

\* What the server finds in a field of the body.
Posted(r, f) == IF r.fields[f] \in Special THEN Escaped[r.fields[f]] ELSE r.fields[f]

Has(r, f) == f \in DOMAIN r.fields

\* httpd_query_key_value fails for a password that was not posted: "".
PostedOrEmpty(r, f) == IF Has(r, f) THEN Posted(r, f) ELSE Empty

Filled(r, f) == PostedOrEmpty(r, f) # Empty

Arrive(r) == /\ pc = "idle"
             /\ r.kind # "reboot"
             /\ r.kind = "setup" \/ Authorised
             /\ pc' = "body"
             /\ request' = r
             /\ UNCHANGED <<store, seeded, mode, plan, written, answer, rebootDue, torn,
                            blanked, known>>

\* schedule_reboot
ScheduleReboot == rebootDue' = TRUE

\* httpd_admin_reboot_handler: nothing to read.
RebootRequest == /\ pc = "idle"
                 /\ Authorised
                 /\ ScheduleReboot
                 /\ UNCHANGED <<store, pc, seeded, mode, requestVars, torn, blanked, known>>

-----------------------------------------------------------------------------
\* The body has been read.

\* The checks that answer 400.
Acceptable(r) ==
    CASE r.kind \in {"setup", "wifi"} -> Filled(r, "ssid")
      [] r.kind = "passwords" -> Filled(r, "wakeup") \/ Filled(r, "admin")
      [] r.kind = "hostname"  -> Filled(r, "hostname")
      [] r.kind = "mqtt"      -> DOMAIN r.fields # {}

PasswordWrites(r, f, k) == IF Filled(r, f) THEN SetPassword(k, Posted(r, f)) ELSE <<>>

\* Mutant: the two passwords change places.
Passwords_Swapped(r) == PasswordWrites(r, "wakeup", "admin_hash")
                        \o PasswordWrites(r, "admin", "httpd_hash")

\* httpd_admin_passwords_handler
Passwords(r) == PasswordWrites(r, "wakeup", "httpd_hash")
                \o PasswordWrites(r, "admin", "admin_hash")

\* Mutant: an empty password is taken like any other.
Overwrites_Any(r, f) == Has(r, f)

\* An empty MQTT password keeps the current one.
Overwrites(r, f) == Has(r, f) /\ (f = "password" => Filled(r, f))

\* The key each MQTT field is stored under.
FieldOf(k) == CASE k = "mqtt_en" -> "enabled"
                [] k = "mqtt_broker" -> "broker"
                [] k = "mqtt_user" -> "user"
                [] k = "mqtt_pass" -> "password"
                [] k = "mqtt_pfx" -> "discovery_prefix"

\* The first character decides: 1, t or o.
AsFlag(t) == IF t = Yes THEN Yes ELSE No

\* httpd_admin_mqtt_post_handler: what is posted over what is stored.
Merged(r, old) ==
    [k \in MqttKey |-> IF ~Overwrites(r, FieldOf(k)) THEN old[k]
                       ELSE IF k = "mqtt_en" THEN AsFlag(Posted(r, FieldOf(k)))
                       ELSE Posted(r, FieldOf(k))]

\* The writes a request asks for; old is the MQTT configuration it reads.
Writes(r, old) ==
    CASE r.kind \in {"setup", "wifi"} -> SetWifi(Posted(r, "ssid"), PostedOrEmpty(r, "password"))
      [] r.kind = "passwords" -> Passwords(r)
      [] r.kind = "hostname"  -> SetHostname(Posted(r, "hostname"))
      [] r.kind = "mqtt"      -> SetMqtt(Merged(r, old))

Refuse == /\ pc = "body"
          /\ ~Acceptable(request)
          /\ pc' = "idle"
          /\ request' = NoForm
          /\ UNCHANGED <<store, seeded, mode, plan, written, answer, rebootDue, torn,
                         blanked, known>>

Accept(old) == /\ pc = "body"
               /\ Acceptable(request)
               /\ pc' = "write"
               /\ plan' = Writes(request, old)
               /\ written' = 0
               /\ answer' = "pending"
               /\ known' = IF request.kind = "passwords" /\ Filled(request, "admin")
                           THEN known \union {request.fields["admin"]} ELSE known
               /\ UNCHANGED <<store, seeded, mode, request, rebootDue, torn>>

Receive == Accept(GetMqtt) /\ blanked' = FALSE

\* What nvs_config_get_mqtt returns is not looked at.
ReceiveBlank == request.kind = "mqtt" /\ Accept(BlankMqtt) /\ blanked' = TRUE

\* The connection breaks: 500 (or the body is too long: 400).  A time-out is no
\* such thing: read_body goes on.
ReceiveFails == /\ pc = "body"
                /\ pc' = "idle"
                /\ request' = NoForm
                /\ UNCHANGED <<store, seeded, mode, plan, written, answer, rebootDue,
                               torn, blanked, known>>

-----------------------------------------------------------------------------
\* Writing and answering.

\* Mutant: the answer does not wait for the last write.
AllWritten_ButOne == written + 1 >= Len(plan)

AllWritten == written = Len(plan)

IsWifi(r) == r.kind \in {"setup", "wifi"}

Write == /\ pc = "write"
         /\ written < Len(plan)
         /\ written' = written + 1
         /\ store' = [store EXCEPT ![plan[written'][1]] = plan[written'][2]]
         /\ torn' = (torn /\ ~(IsWifi(request) /\ written' = Len(plan)))
         /\ UNCHANGED <<pc, seeded, mode, request, plan, answer, rebootDue, blanked, known>>

\* The request is over before its last write: an error, or a reset.
CutShort == /\ torn' = (torn \/ (pc = "write" /\ IsWifi(request) /\ 0 < written /\ written < Len(plan)))
            /\ request' = NoForm
            /\ IF pc = "write" THEN plan' = <<>> /\ written' = 0 /\ answer' = "none"
                               ELSE UNCHANGED <<plan, written, answer>>

\* nvs_open, nvs_set_* or nvs_commit fails: 500.
WriteFails == /\ pc = "write"
              /\ CutShort
              /\ pc' = "idle"
              /\ UNCHANGED <<store, seeded, mode, rebootDue, blanked, known>>

Answered == /\ pc = "write"
            /\ AllWritten
            /\ pc' = "idle"
            /\ request' = NoForm
            /\ answer' = "ok"
            /\ known' = IF request.kind = "passwords" /\ Filled(request, "admin")
                        THEN {request.fields["admin"]} ELSE known
            /\ UNCHANGED <<store, seeded, mode, plan, written, torn, blanked>>

Answer == Answered /\ IF request.kind = "passwords" THEN UNCHANGED rebootDue
                                                     ELSE ScheduleReboot

\* xTaskCreate fails, and nobody looks.
RebootLost == /\ Answered
              /\ request.kind # "passwords"
              /\ UNCHANGED rebootDue

-----------------------------------------------------------------------------
\* The end of a run.

Stop == /\ CutShort
        /\ pc' = "off"
        /\ mode' = "none"
        /\ rebootDue' = FALSE
        /\ UNCHANGED <<store, seeded, blanked, known>>

\* delayed_restart_task asks nobody.
Restart == rebootDue /\ Stop

PowerFails == pc # "off" /\ Stop

\* The user repeats the setup as long as the access point is there.
UserSetup == mode = "ap" /\ Arrive(HomeForm)

SomeArrival == RebootRequest \/ \E r \in Forms : Arrive(r)

Next == \/ Boot \/ BootErased \/ Seed \/ SeedFails \/ Join \/ JoinFails
        \/ UserSetup \/ SomeArrival
        \/ Refuse \/ Receive \/ ReceiveBlank \/ ReceiveFails
        \/ Write \/ WriteFails \/ Answer \/ RebootLost
        \/ Restart \/ PowerFails

Spec == Init /\ [][Next]_vars

\* The device runs, the restart task's delay ends, and the user has patience.
\* Nothing is assumed of the client whose body is being read.
Fairness == /\ WF_vars(Boot) /\ WF_vars(Seed) /\ WF_vars(Join)
            /\ WF_vars(Write) /\ WF_vars(Answer)
            /\ WF_vars(Restart)
            /\ WF_vars(UserSetup)

FairSpec == Spec /\ Fairness

-----------------------------------------------------------------------------
\* Every form that can arrive.
Sendable == Forms \union {HomeForm}

TypeOK == /\ store \in [Key -> Value \union {Absent}]
          /\ pc \in {"off", "seed", "join", "idle", "body", "write"}
          /\ seeded \in 0 .. Len(SeededKeys)
          /\ pc = "seed" => seeded < Len(SeededKeys)
          /\ mode \in {"none", "sta", "ap"}
          /\ request \in Sendable \union {NoForm}
          /\ pc \in {"body", "write"} => request \in Sendable /\ request.kind # "reboot"
          /\ pc = "write" => Acceptable(request)
          /\ plan \in Seq(Key \X Value)
          /\ written \in 0 .. Len(plan)
          /\ answer \in {"pending", "ok", "none"}
          /\ answer = "pending" <=> pc = "write"
          /\ rebootDue \in BOOLEAN
          /\ torn \in BOOLEAN
          /\ blanked \in BOOLEAN
          /\ known \subseteq Text

\* What a client has been told is stored is what every later boot reads, until
\* another request is accepted: no power failure, restart, failed seeding or cut
\* request between takes it back.  Only the erasure at boot does, which
\* nvs_config_init does without a word to anybody.
AckedIsStored ==
    answer = "ok" => \A i \in DOMAIN plan : store[plan[i][1]] = plan[i][2]

WifiPairs == {<<Default["wifi_ssid"], Default["wifi_pass"]>>} \union
             {<<Posted(r, "ssid"), PostedOrEmpty(r, "password")>> :
                r \in {f \in Sendable : IsWifi(f) /\ Has(f, "ssid")}}

BetweenWifiWrites == pc = "write" /\ IsWifi(request) /\ written = 1

\* The network and the password in store were entered together, in one form or in
\* the build, although they are two keys: a request whose writes were cut between
\* them is the only way to mix them, and the next complete one mends it.
WifiPaired ==
    ~torn /\ ~BetweenWifiWrites
    => <<GetOrDefault("wifi_ssid"), GetOrDefault("wifi_pass")>> \in WifiPairs

\* The admin page opens with the last admin password acknowledged, or with one
\* typed since: a change that was stored and cut before its answer, or answered and
\* cut before its storing, does not lock the owner out.  Admin passwords in Special
\* are another matter: they do.
OwnerKnowsPassword ==
    store["admin_hash"] # Absent => \E p \in known : CheckPassword("admin_hash", p)

\* What a form asks for, read off its fields alone: the field that a key is set by,
\* what a text means under it, and the keys that the form is about.  A Wi-Fi form
\* without a password means an open network; elsewhere an empty password means "as it
\* is".
SetBy(kind) ==
    CASE kind \in {"setup", "wifi"} -> [wifi_ssid |-> "ssid", wifi_pass |-> "password"]
      [] kind = "passwords" -> [httpd_hash |-> "wakeup", admin_hash |-> "admin"]
      [] kind = "hostname"  -> [hostname |-> "hostname"]
      [] kind = "mqtt"      -> [k \in MqttKey |-> FieldOf(k)]
      [] kind = "reboot"    -> << >>

Meant(k, t) == CASE k \in {"httpd_hash", "admin_hash"} -> Sha256(t)
                 [] k = "mqtt_en" -> AsFlag(t)
                 [] k = "mqtt_pfx" -> IF t = Empty THEN Default[k] ELSE t
                 [] OTHER -> t

About(r) == {k \in DOMAIN SetBy(r.kind) :
                \/ IsWifi(r)
                \/ Filled(r, SetBy(r.kind)[k])
                \/ r.kind = "mqtt" /\ k # "mqtt_pass" /\ Has(r, SetBy(r.kind)[k])}

Asks == [r \in Sendable |->
            {<<k, Meant(k, PostedOrEmpty(r, SetBy(r.kind)[k]))>> : k \in About(r)}]

\* An MQTT form whose handler could not read the store blanks what it is not about.
Loses == [r \in Sendable |->
             {<<k, Meant(k, Empty)>> : k \in IF r.kind = "mqtt" THEN MqttKey \ About(r) ELSE {}}]

Asked == IF pc # "write" THEN {}
         ELSE Asks[request] \union (IF blanked THEN Loses[request] ELSE {})

\* The handlers, with their plans of writes, and the store implement Settings: a
\* request changes the settings its form asks for and no others (the unposted ones,
\* when they cannot be read), "ok" means that all of them were stored, and no
\* restart, failed seeding or failed write changes any other.
Promised == INSTANCE Settings WITH
                Request <- Sendable,
                Initially <- [k \in Key |-> Initial(k)],
                value <- [k \in Key |-> GetOrDefault(k)],
                asked <- Asked
SettingsSpec == Promised!Spec

\* "start with current to preserve fields not posted", "only overwrite if a
\* non-empty value is provided" (httpd.c:314, 321): an MQTT setting changes only by
\* a request that posts it, an erasure, or a request that could not read it.
MqttKept ==
    [][pc # "off" => \A k \in MqttKey : GetOrDefault(k)' # GetOrDefault(k) =>
         /\ request.kind = "mqtt"
         /\ \/ blanked
            \/ Has(request, FieldOf(k)) /\ (k = "mqtt_pass" => Filled(request, "password"))]_vars

\* The inductive invariant, in parts.

\* What has been written of the plan is still there; "ok" means all of it.
Progress == /\ \A i, j \in DOMAIN plan : plan[i][1] = plan[j][1] => i = j
            /\ \A i \in 1 .. written : store[plan[i][1]] = plan[i][2]
            /\ answer = "ok" => written = Len(plan)

\* The plan is that of the request: only the Wi-Fi forms write the pair, ssid first.
PlanOfRequest ==
    pc = "write" =>
      /\ IsWifi(request) =>
           plan = << <<"wifi_ssid", Posted(request, "ssid")>>,
                     <<"wifi_pass", PostedOrEmpty(request, "password")>> >>
      /\ ~IsWifi(request) => \A i \in DOMAIN plan : plan[i][1] \notin {"wifi_ssid", "wifi_pass"}

IInv == TypeOK /\ Progress /\ PlanOfRequest /\ WifiPaired

\* The steps that fairness drives are possible in the states they are wanted in.
RestartPossible == rebootDue => ENABLED <<Restart>>_vars
StepsPossible ==
    /\ pc = "off" => ENABLED <<Boot>>_vars
    /\ pc = "seed" => ENABLED <<Seed>>_vars
    /\ pc = "join" => ENABLED <<Join>>_vars
    /\ pc = "write" /\ written < Len(plan) => ENABLED <<Write>>_vars
    /\ pc = "write" /\ AllWritten => ENABLED <<Answer>>_vars
    /\ pc = "idle" /\ mode = "ap" => ENABLED <<UserSetup>>_vars

\* Failures, and requests other than the user's repeated setup.  While a restart
\* is due, the loss of another one changes nothing and a power failure is a restart.
Trouble == \/ BootErased \/ SeedFails \/ JoinFails
           \/ ReceiveBlank \/ ReceiveFails \/ WriteFails
           \/ (RebootLost \/ PowerFails) /\ ~rebootDue
           \/ SomeArrival /\ ~UserSetup

\* "Enter your home WiFi SSID + password, hit save, the ESP reboots into STA mode"
\* (README.md:75-76): once the failures are over, a user who repeats the setup
\* while the access point is there gets the device into the network for good,
\* whatever was half done before; no client may stall the server for ever.
Provisioned ==
    <>[][~Trouble]_vars /\ []<>(pc # "body")
    => <>[](mode = "sta" /\ pc = "idle")
=============================================================================
