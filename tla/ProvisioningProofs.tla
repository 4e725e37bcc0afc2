------------------------- MODULE ProvisioningProofs -------------------------
(***************************************************************************)
(* Proofs about provisioning, for all texts, forms and encodings.           *)
(***************************************************************************)
EXTENDS Provisioning, SequenceTheorems, TLAPS

\* What the handlers read in a form is a text.
LEMMA PostedText ==
  ASSUME NEW r \in Sendable, NEW f, Has(r, f)
  PROVE  Posted(r, f) \in Text
<1>1. IsForm(r) \/ r = HomeForm
  BY ProvisioningAssumption DEF Sendable
<1>2. r.fields[f] \in Text
  <2>1. CASE IsForm(r)
    BY <2>1 DEF IsForm, Has
  <2>2. CASE r = HomeForm
    BY <2>2, ProvisioningAssumption DEF HomeForm, Has
  <2> QED
    BY <1>1, <2>1, <2>2
<1> QED
  BY <1>2, ProvisioningAssumption DEF Posted

LEMMA PostedOrEmptyText ==
  ASSUME NEW r \in Sendable, NEW f
  PROVE  PostedOrEmpty(r, f) \in Text
  BY PostedText, StoreAssumption DEF PostedOrEmpty

LEMMA Kinds ==
  ASSUME NEW r \in Sendable
  PROVE  r.kind \in Kind
<1>1. IsForm(r) \/ r = HomeForm
  BY ProvisioningAssumption DEF Sendable
<1> QED
  BY <1>1 DEF IsForm, HomeForm, Kind

\* What is read from the store is a value, and texts are read from the MQTT keys.
LEMMA InitialValue ==
  ASSUME NEW k \in Key
  PROVE  Initial(k) \in Value /\ Initial(k) # Absent /\ (k \in MqttKey => Initial(k) \in Text)
<1>1. Default[k] \in Text
  BY StoreAssumption
<1>2. Initial(k) \in Value
  BY <1>1 DEF Initial, Value
<1> QED
  BY <1>1, <1>2, StoreAssumption DEF Initial, MqttKey

LEMMA Pair == ASSUME NEW w, NEW a PROVE <<w>> \o <<a>> = <<w, a>>
<1> DEFINE S == {w, a}
<1>1. <<w>> \in Seq(S) /\ <<a>> \in Seq(S) /\ <<w, a>> \in Seq(S)
  OBVIOUS
<1>2. Len(<<w>>) = 1 /\ Len(<<a>>) = 1 /\ Len(<<w, a>>) = 2
  OBVIOUS
<1> HIDE DEF S
<1>3. /\ <<w>> \o <<a>> \in Seq(S)
      /\ Len(<<w>> \o <<a>>) = 2
      /\ (<<w>> \o <<a>>)[1] = w /\ (<<w>> \o <<a>>)[2] = a
  BY <1>1, <1>2, ConcatProperties
<1>4. \A i \in 1 .. 2 : (<<w>> \o <<a>>)[i] = <<w, a>>[i]
  BY <1>3
<1> QED
  BY <1>1, <1>2, <1>3, <1>4, SeqEqual

\* The passwords handler writes one of these.
LEMMA PasswordPlans ==
  ASSUME NEW r
  PROVE  LET w == <<"httpd_hash", Sha256(Posted(r, "wakeup"))>>
             a == <<"admin_hash", Sha256(Posted(r, "admin"))>>
         IN  /\ Filled(r, "wakeup") /\ Filled(r, "admin") => Passwords(r) = <<w, a>>
             /\ Filled(r, "wakeup") /\ ~Filled(r, "admin") => Passwords(r) = <<w>>
             /\ ~Filled(r, "wakeup") /\ Filled(r, "admin") => Passwords(r) = <<a>>
<1> DEFINE w == <<"httpd_hash", Sha256(Posted(r, "wakeup"))>>
           a == <<"admin_hash", Sha256(Posted(r, "admin"))>>
<1>1. PasswordWrites(r, "wakeup", "httpd_hash") = IF Filled(r, "wakeup") THEN <<w>> ELSE <<>>
  BY DEF PasswordWrites, SetPassword
<1>2. PasswordWrites(r, "admin", "admin_hash") = IF Filled(r, "admin") THEN <<a>> ELSE <<>>
  BY DEF PasswordWrites, SetPassword
<1> HIDE DEF w, a
<1>3. <<w>> \in Seq({w}) /\ <<a>> \in Seq({a})
  OBVIOUS
<1>4. <<w>> \o <<a>> = <<w, a>> /\ <<w>> \o <<>> = <<w>> /\ <<>> \o <<a>> = <<a>>
  BY <1>3, Pair, ConcatEmptySeq
<1>5. Passwords(r) = PasswordWrites(r, "wakeup", "httpd_hash") \o PasswordWrites(r, "admin", "admin_hash")
  BY DEF Passwords
<1> QED
  BY <1>1, <1>2, <1>4, <1>5 DEF w, a

\* A plan of writes: of values, to distinct keys.
IsPlan(p) == /\ p \in Seq(Key \X Value)
             /\ \A i, j \in DOMAIN p : p[i][1] = p[j][1] => i = j

LEMMA ShaValue == ASSUME NEW t \in Text PROVE Sha256(t) \in Value
  BY DEF Value

LEMMA TextValue == Text \subseteq Value
  BY DEF Value

LEMMA PasswordsPlan ==
  ASSUME NEW r \in Sendable, Filled(r, "wakeup") \/ Filled(r, "admin")
  PROVE  /\ IsPlan(Passwords(r))
         /\ \A i \in DOMAIN Passwords(r) : Passwords(r)[i][1] \in {"httpd_hash", "admin_hash"}
<1> DEFINE w == <<"httpd_hash", Sha256(Posted(r, "wakeup"))>>
           a == <<"admin_hash", Sha256(Posted(r, "admin"))>>
<1>1. /\ Filled(r, "wakeup") => Has(r, "wakeup")
      /\ Filled(r, "admin") => Has(r, "admin")
  BY DEF Filled, PostedOrEmpty
<1>2. /\ Filled(r, "wakeup") => w \in Key \X Value
      /\ Filled(r, "admin") => a \in Key \X Value
  BY <1>1, PostedText, ShaValue DEF Key
<1>3. w[1] = "httpd_hash" /\ a[1] = "admin_hash"
  OBVIOUS
<1>4. \/ w \in Key \X Value /\ a \in Key \X Value /\ Passwords(r) = <<w, a>>
      \/ w \in Key \X Value /\ Passwords(r) = <<w>>
      \/ a \in Key \X Value /\ Passwords(r) = <<a>>
  BY <1>2, PasswordPlans
<1> HIDE DEF w, a
<1>5. CASE w \in Key \X Value /\ a \in Key \X Value /\ Passwords(r) = <<w, a>>
  <2>1. <<w, a>> \in Seq(Key \X Value) /\ DOMAIN <<w, a>> = 1 .. 2
    BY <1>5
  <2> QED
    BY <1>3, <1>5, <2>1 DEF IsPlan
<1>6. CASE w \in Key \X Value /\ Passwords(r) = <<w>>
  <2>1. <<w>> \in Seq(Key \X Value) /\ DOMAIN <<w>> = 1 .. 1
    BY <1>6
  <2> QED
    BY <1>3, <1>6, <2>1 DEF IsPlan
<1>7. CASE a \in Key \X Value /\ Passwords(r) = <<a>>
  <2>1. <<a>> \in Seq(Key \X Value) /\ DOMAIN <<a>> = 1 .. 1
    BY <1>7
  <2> QED
    BY <1>3, <1>7, <2>1 DEF IsPlan
<1> QED
  BY <1>4, <1>5, <1>6, <1>7

LEMMA MergedValue ==
  ASSUME NEW r \in Sendable, NEW old \in [MqttKey -> Value]
  PROVE  Merged(r, old) \in [MqttKey -> Value]
<1> SUFFICES ASSUME NEW k \in MqttKey
             PROVE  (IF ~Overwrites(r, FieldOf(k)) THEN old[k]
                     ELSE IF k = "mqtt_en" THEN AsFlag(Posted(r, FieldOf(k)))
                     ELSE Posted(r, FieldOf(k))) \in Value
  BY DEF Merged
<1>1. Overwrites(r, FieldOf(k)) => Posted(r, FieldOf(k)) \in Value
  BY PostedText, TextValue DEF Overwrites
<1>2. AsFlag(Posted(r, FieldOf(k))) \in Value
  BY StoreAssumption, TextValue DEF AsFlag
<1> QED
  BY <1>1, <1>2

LEMMA MqttPlan ==
  ASSUME NEW cfg \in [MqttKey -> Value]
  PROVE  /\ IsPlan(SetMqtt(cfg))
         /\ \A i \in DOMAIN SetMqtt(cfg) : SetMqtt(cfg)[i][1] \in MqttKey
<1> DEFINE pfx == IF cfg["mqtt_pfx"] = Empty THEN Default["mqtt_pfx"] ELSE cfg["mqtt_pfx"]
<1>1. pfx \in Value
  BY StoreAssumption, TextValue DEF MqttKey, Key
<1>2. /\ cfg["mqtt_en"] \in Value /\ cfg["mqtt_broker"] \in Value
      /\ cfg["mqtt_user"] \in Value /\ cfg["mqtt_pass"] \in Value
  BY DEF MqttKey
<1>3. SetMqtt(cfg) = << <<"mqtt_en", cfg["mqtt_en"]>>, <<"mqtt_broker", cfg["mqtt_broker"]>>,
                        <<"mqtt_user", cfg["mqtt_user"]>>, <<"mqtt_pass", cfg["mqtt_pass"]>>,
                        <<"mqtt_pfx", pfx>> >>
  BY DEF SetMqtt
<1> HIDE DEF pfx
<1>4. SetMqtt(cfg) \in Seq(Key \X Value)
  BY <1>1, <1>2, <1>3 DEF Key
<1>5. DOMAIN SetMqtt(cfg) = 1 .. 5
  BY <1>3
<1> QED
  BY <1>3, <1>4, <1>5 DEF IsPlan, MqttKey

\* The plan of an accepted request.
LEMMA WritesPlan ==
  ASSUME NEW r \in Sendable, r.kind # "reboot", Acceptable(r), NEW old \in [MqttKey -> Value]
  PROVE  /\ IsPlan(Writes(r, old))
         /\ IsWifi(r) =>
              Writes(r, old) = << <<"wifi_ssid", Posted(r, "ssid")>>,
                                  <<"wifi_pass", PostedOrEmpty(r, "password")>> >>
         /\ ~IsWifi(r) =>
              \A i \in DOMAIN Writes(r, old) : Writes(r, old)[i][1] \notin {"wifi_ssid", "wifi_pass"}
<1>1. CASE IsWifi(r)
  <2> DEFINE s == <<"wifi_ssid", Posted(r, "ssid")>>
             p == <<"wifi_pass", PostedOrEmpty(r, "password")>>
  <2>1. Filled(r, "ssid")
    BY <1>1 DEF Acceptable, IsWifi
  <2>2. Posted(r, "ssid") \in Value /\ PostedOrEmpty(r, "password") \in Value
    BY <2>1, PostedText, PostedOrEmptyText, TextValue DEF Filled, PostedOrEmpty
  <2>3. s \in Key \X Value /\ p \in Key \X Value /\ s[1] # p[1]
    BY <2>2 DEF Key
  <2>4. Writes(r, old) = <<s, p>>
    BY <1>1 DEF Writes, SetWifi, IsWifi
  <2> HIDE DEF s, p
  <2>5. IsPlan(<<s, p>>)
    <3>1. <<s, p>> \in Seq(Key \X Value) /\ DOMAIN <<s, p>> = 1 .. 2
      BY <2>3
    <3> QED
      BY <2>3, <3>1 DEF IsPlan
  <2> QED
    BY <1>1, <2>4, <2>5 DEF s, p
<1>2. CASE r.kind = "passwords"
  <2>1. Writes(r, old) = Passwords(r) /\ (Filled(r, "wakeup") \/ Filled(r, "admin"))
    BY <1>2 DEF Writes, Acceptable
  <2> QED
    BY <1>2, <2>1, PasswordsPlan DEF IsWifi
<1>3. CASE r.kind = "hostname"
  <2> DEFINE h == <<"hostname", Posted(r, "hostname")>>
  <2>1. Posted(r, "hostname") \in Value
    BY <1>3, PostedText, TextValue DEF Acceptable, Filled, PostedOrEmpty
  <2>2. h \in Key \X Value /\ h[1] = "hostname"
    BY <2>1 DEF Key
  <2>3. Writes(r, old) = <<h>>
    BY <1>3 DEF Writes, SetHostname
  <2> HIDE DEF h
  <2>4. <<h>> \in Seq(Key \X Value) /\ DOMAIN <<h>> = 1 .. 1
    BY <2>2
  <2> QED
    BY <1>3, <2>2, <2>3, <2>4 DEF IsPlan, IsWifi
<1>4. CASE r.kind = "mqtt"
  <2>1. Writes(r, old) = SetMqtt(Merged(r, old))
    BY <1>4 DEF Writes
  <2> QED
    BY <1>4, <2>1, MergedValue, MqttPlan DEF IsWifi, MqttKey
<1> QED
  BY <1>1, <1>2, <1>3, <1>4, Kinds DEF Kind, IsWifi

\* What the MQTT handler reads.
LEMMA ReadValue ==
  ASSUME TypeOK
  PROVE  /\ \A k \in Key : GetOrDefault(k) \in Value
         /\ GetMqtt \in [MqttKey -> Value]
         /\ BlankMqtt \in [MqttKey -> Value]
<1>1. \A k \in Key : GetOrDefault(k) \in Value
  BY InitialValue DEF GetOrDefault, TypeOK
<1>2. MqttKey \subseteq Key
  BY DEF MqttKey, Key
<1> QED
  BY <1>1, <1>2, StoreAssumption, TextValue DEF GetMqtt, BlankMqtt

\* A seeding changes no more than a key that was absent, and makes it its default.
LEMMA SeedChanges ==
  ASSUME TypeOK, pc = "seed"
  PROVE  LET k == SeededKeys[seeded + 1]
         IN  /\ k \in Key /\ seeded + 1 \in 1 .. 5
             /\ Seeded(k) \in [Key -> Value \union {Absent}]
             /\ \A j \in Key : Seeded(k)[j] = store[j] \/ (store[j] = Absent /\ Seeded(k)[j] = Initial(j))
<1> DEFINE k == SeededKeys[seeded + 1]
<1>1. seeded + 1 \in 1 .. 5
  BY DEF TypeOK, SeededKeys
<1>2. k \in Key
  BY <1>1 DEF SeededKeys, Key
<1> HIDE DEF k
<1>3. store \in [Key -> Value \union {Absent}]
  BY DEF TypeOK
<1> QED
  BY <1>1, <1>2, <1>3, InitialValue DEF Seeded, k

LEMMA InitTypeOK == Init => TypeOK
<1> SUFFICES ASSUME Init PROVE TypeOK
  OBVIOUS
<1>1. <<>> \in Seq(Key \X Value) /\ Len(<<>>) = 0
  OBVIOUS
<1>2. Default["admin_hash"] \in Text
  BY StoreAssumption DEF Key
<1>3. Len(SeededKeys) = 5
  BY DEF SeededKeys
<1>4. plan \in Seq(Key \X Value) /\ written \in 0 .. Len(plan)
  BY <1>1 DEF Init
<1>5. rebootDue \in BOOLEAN /\ torn \in BOOLEAN /\ blanked \in BOOLEAN
  BY Zenon DEF Init
<1>6. store \in [Key -> Value \union {Absent}] /\ known \subseteq Text
  BY <1>2 DEF Init
<1> QED
  BY <1>3, <1>4, <1>5, <1>6 DEF Init, TypeOK

\* What no handler step touches keeps its type.
LEMMA CutShortType ==
  ASSUME TypeOK, CutShort
  PROVE  /\ torn' \in BOOLEAN
         /\ request' = NoForm
         /\ plan' \in Seq(Key \X Value)
         /\ written' \in 0 .. Len(plan')
         /\ answer' \in {"ok", "none"}
<1>1. torn' \in BOOLEAN
  BY Zenon DEF CutShort, TypeOK
<1>2. CASE pc = "write"
  <2>1. plan' = <<>> /\ written' = 0 /\ answer' = "none"
    BY <1>2 DEF CutShort
  <2>2. <<>> \in Seq(Key \X Value) /\ Len(<<>>) = 0
    OBVIOUS
  <2> QED
    BY <1>1, <2>1, <2>2 DEF CutShort
<1>3. CASE pc # "write"
  BY <1>1, <1>3 DEF CutShort, TypeOK
<1> QED
  BY <1>2, <1>3

LEMMA NextTypeOK == TypeOK /\ [Next]_vars => TypeOK'
<1> SUFFICES ASSUME TypeOK, [Next]_vars PROVE TypeOK'
  OBVIOUS
<1>0. Len(SeededKeys) = 5
  BY DEF SeededKeys
<1>1. CASE Boot
  BY <1>0, <1>1 DEF Boot, requestVars, TypeOK
<1>2. CASE BootErased
  <2>1. <<>> \in Seq(Key \X Value) /\ Len(<<>>) = 0
    OBVIOUS
  <2>2. plan' \in Seq(Key \X Value) /\ written' \in 0 .. Len(plan')
    BY <1>2, <2>1 DEF BootErased
  <2>3. store' \in [Key -> Value \union {Absent}] /\ known' \subseteq Text
    BY <1>2, StoreAssumption DEF BootErased, Key
  <2>4. torn' \in BOOLEAN
    BY <1>2, Zenon DEF BootErased
  <2> QED
    BY <1>0, <1>2, <2>2, <2>3, <2>4 DEF BootErased, TypeOK
<1>3. CASE Seed \/ SeedFails
  <2>1. store' \in [Key -> Value \union {Absent}]
    BY <1>3, SeedChanges DEF Seed, SeedFails, SeedNext, TypeOK
  <2>2. SeedNext
    BY <1>3 DEF Seed, SeedFails
  <2> QED
    BY <1>0, <2>1, <2>2 DEF SeedNext, requestVars, TypeOK
<1>4. CASE Join \/ JoinFails
  <2>1. PICK m \in {"sta", "ap"} : Serve(m)
    BY <1>4 DEF Join, JoinFails
  <2> QED
    BY <2>1 DEF Serve, requestVars, TypeOK
<1>5. ASSUME NEW r \in Sendable, Arrive(r) PROVE TypeOK'
  BY <1>5 DEF Arrive, TypeOK
<1>6. CASE RebootRequest
  BY <1>6 DEF RebootRequest, ScheduleReboot, requestVars, TypeOK
<1>7. CASE Refuse \/ ReceiveFails
  BY <1>7 DEF Refuse, ReceiveFails, TypeOK
<1>8. ASSUME NEW old \in [MqttKey -> Value], Accept(old), blanked' \in BOOLEAN PROVE TypeOK'
  <2>1. request \in Sendable /\ request.kind # "reboot" /\ Acceptable(request)
    BY <1>8 DEF Accept, TypeOK
  <2>2. plan' \in Seq(Key \X Value) /\ written' \in 0 .. Len(plan')
    BY <1>8, <2>1, WritesPlan, LenProperties DEF Accept, IsPlan
  <2>3. known' \subseteq Text
    <3>1. Filled(request, "admin") => request.fields["admin"] \in Text
      BY <2>1, ProvisioningAssumption DEF Filled, PostedOrEmpty, Has, Sendable, IsForm, HomeForm
    <3> QED
      BY <1>8, <3>1 DEF Accept, TypeOK
  <2> QED
    BY <1>8, <2>1, <2>2, <2>3 DEF Accept, TypeOK
<1>9. CASE Receive \/ ReceiveBlank
  BY <1>8, <1>9, ReadValue DEF Receive, ReceiveBlank
<1>10. CASE Write
  <2>1. written' \in 1 .. Len(plan)
    BY <1>10, LenProperties DEF Write, TypeOK
  <2>2. plan[written'][1] \in Key /\ plan[written'][2] \in Value
    <3>1. plan[written'] \in Key \X Value
      BY <2>1, ElementOfSeq DEF TypeOK
    <3> QED
      BY <3>1
  <2>3. store' \in [Key -> Value \union {Absent}]
    BY <1>10, <2>2 DEF Write, TypeOK
  <2>4. torn' \in BOOLEAN
    BY <1>10, Zenon DEF Write, TypeOK
  <2>5. /\ written' \in 0 .. Len(plan)
        /\ UNCHANGED <<pc, seeded, mode, request, plan, answer, rebootDue, blanked, known>>
    BY <1>10, <2>1, LenProperties DEF Write, TypeOK
  <2>6. Acceptable(request)' <=> Acceptable(request)
    BY <2>5 DEF Acceptable, Filled, PostedOrEmpty, Has, Posted
  <2> QED
    BY <2>3, <2>4, <2>5, <2>6 DEF TypeOK
<1>11. CASE WriteFails
  BY <1>11, CutShortType DEF WriteFails, TypeOK
<1>12. CASE Answer \/ RebootLost
  <2>1. Answered /\ rebootDue' \in BOOLEAN
    BY <1>12 DEF Answer, RebootLost, ScheduleReboot, TypeOK
  <2>2. known' \subseteq Text
    <3>1. request \in Sendable
      BY <2>1 DEF Answered, TypeOK
    <3>2. Filled(request, "admin") => request.fields["admin"] \in Text
      BY <3>1, ProvisioningAssumption DEF Filled, PostedOrEmpty, Has, Sendable, IsForm, HomeForm
    <3> QED
      BY <2>1, <3>2 DEF Answered, TypeOK
  <2> QED
    BY <2>1, <2>2 DEF Answered, TypeOK
<1>13. CASE Restart \/ PowerFails
  <2>1. Stop
    BY <1>13 DEF Restart, PowerFails
  <2> QED
    BY <2>1, CutShortType DEF Stop, TypeOK
<1>14. CASE UNCHANGED vars
  BY <1>14 DEF vars, TypeOK, Acceptable, Filled, PostedOrEmpty, Has, Posted
<1> QED
  BY <1>1, <1>2, <1>3, <1>4, <1>5, <1>6, <1>7, <1>9, <1>10, <1>11, <1>12, <1>13, <1>14
     DEF Next, UserSetup, SomeArrival, Sendable

\* Every variable keeps its type: for one, only values are stored, and what is
\* being handled is a request that passed its checks.
THEOREM TypeCorrect == Spec => []TypeOK
  BY InitTypeOK, NextTypeOK, PTL DEF Spec

-----------------------------------------------------------------------------
\* What is written of a plan goes on being stored.
LEMMA NextProgress == TypeOK /\ Progress /\ [Next]_vars => Progress'
<1> SUFFICES ASSUME TypeOK, Progress, [Next]_vars PROVE Progress'
  OBVIOUS
<1>0. /\ store \in [Key -> Value \union {Absent}]
      /\ plan \in Seq(Key \X Value) /\ Len(plan) \in Nat /\ DOMAIN plan = 1 .. Len(plan)
      /\ written \in 0 .. Len(plan)
      /\ \A i \in DOMAIN plan : plan[i][1] \in Key /\ plan[i][2] \in Value
  <2>1. plan \in Seq(Key \X Value)
    BY DEF TypeOK
  <2>2. \A i \in DOMAIN plan : plan[i] \in Key \X Value
    BY <2>1, ElementOfSeq
  <2> QED
    BY <2>1, <2>2, LenProperties DEF TypeOK
<1>1. CASE UNCHANGED <<store, plan, written>> /\ (answer' = answer \/ answer' # "ok")
  BY <1>1 DEF Progress
<1>2. CASE plan' = <<>> /\ written' = 0 /\ answer' # "ok"
  BY <1>2 DEF Progress
\* Seeding changes absent keys only, and a value is not absent.
<1>3. CASE Seed \/ SeedFails
  <2>1. \A j \in Key : store'[j] = store[j] \/ store[j] = Absent
    BY <1>3, SeedChanges DEF Seed, SeedFails, SeedNext
  <2>2. \A i \in 1 .. written : store'[plan[i][1]] = plan[i][2]
    <3> SUFFICES ASSUME NEW i \in 1 .. written PROVE store'[plan[i][1]] = plan[i][2]
      OBVIOUS
    <3>1. i \in DOMAIN plan
      BY <1>0
    <3>2. store[plan[i][1]] = plan[i][2] /\ plan[i][2] # Absent
      BY <1>0, <3>1, StoreAssumption DEF Progress
    <3> QED
      BY <1>0, <2>1, <3>1, <3>2
  <2>3. UNCHANGED <<plan, written, answer>>
    BY <1>3 DEF Seed, SeedFails, SeedNext, requestVars
  <2> QED
    BY <2>2, <2>3 DEF Progress
\* A new plan has distinct keys, and nothing of it is written.
<1>4. ASSUME NEW old \in [MqttKey -> Value], Accept(old) PROVE Progress'
  <2>1. request \in Sendable /\ request.kind # "reboot" /\ Acceptable(request)
    BY <1>4 DEF Accept, TypeOK
  <2>2. \A i, j \in DOMAIN plan' : plan'[i][1] = plan'[j][1] => i = j
    BY <1>4, <2>1, WritesPlan DEF Accept, IsPlan
  <2> QED
    BY <1>4, <2>2 DEF Accept, Progress
<1>5. CASE Receive \/ ReceiveBlank
  BY <1>4, <1>5, ReadValue DEF Receive, ReceiveBlank
\* The next write is to a key of its own.
<1>6. CASE Write
  <2>1. written' = written + 1 /\ written' \in DOMAIN plan /\ UNCHANGED <<plan, answer>>
    <3>1. written' = written + 1 /\ written < Len(plan) /\ UNCHANGED <<plan, answer>>
      BY <1>6 DEF Write
    <3> QED
      BY <1>0, <3>1
  <2>2. answer # "ok"
    BY <1>6 DEF Write, TypeOK
  <2>3. \A i \in 1 .. written' : store'[plan[i][1]] = plan[i][2]
    <3> SUFFICES ASSUME NEW i \in 1 .. written' PROVE store'[plan[i][1]] = plan[i][2]
      OBVIOUS
    <3>1. store' = [store EXCEPT ![plan[written'][1]] = plan[written'][2]]
      BY <1>6 DEF Write
    <3>2. i \in DOMAIN plan
      BY <1>0, <2>1
    <3>3. CASE i = written'
      BY <1>0, <2>1, <3>1, <3>2, <3>3
    <3>4. CASE i # written'
      <4>1. i \in 1 .. written
        BY <1>0, <2>1, <3>4
      <4>2. \A j \in DOMAIN plan : plan[i][1] = plan[j][1] => i = j
        BY <3>2 DEF Progress
      <4>3. plan[i][1] # plan[written'][1]
        BY <2>1, <3>4, <4>2
      <4>4. store[plan[i][1]] = plan[i][2]
        BY <4>1 DEF Progress
      <4> QED
        BY <1>0, <3>1, <3>2, <4>3, <4>4
    <3> QED
      BY <3>3, <3>4
  <2> QED
    BY <2>1, <2>2, <2>3 DEF Progress
<1>7. CASE Answer \/ RebootLost
  BY <1>7 DEF Answer, RebootLost, Answered, AllWritten, Progress
<1>8. CASE Restart \/ PowerFails \/ WriteFails
  BY <1>1, <1>2, <1>8 DEF Restart, PowerFails, WriteFails, Stop, CutShort
<1>9. CASE \/ Boot \/ Join \/ JoinFails \/ UserSetup \/ SomeArrival
           \/ Refuse \/ ReceiveFails \/ UNCHANGED vars
  BY <1>1, <1>9 DEF Boot, Join, JoinFails, Serve, UserSetup, SomeArrival, RebootRequest, Arrive,
     Refuse, ReceiveFails, vars, requestVars
<1>10. CASE BootErased
  BY <1>2, <1>10 DEF BootErased
<1> QED
  BY <1>3, <1>5, <1>6, <1>7, <1>8, <1>9, <1>10 DEF Next

LEMMA InitProgress == Init => Progress
  BY DEF Init, Progress

\* What a client was told is stored is what every later boot reads, until another
\* request is accepted.
THEOREM AckedStored == Spec => []AckedIsStored
<1>1. Progress /\ TypeOK => AckedIsStored
  BY LenProperties DEF Progress, AckedIsStored, TypeOK
<1> QED
  BY <1>1, InitProgress, NextProgress, TypeCorrect, PTL DEF Spec

-----------------------------------------------------------------------------
\* The plan stays that of the request.
LEMMA NextPlanOfRequest == TypeOK /\ PlanOfRequest /\ [Next]_vars => PlanOfRequest'
<1> SUFFICES ASSUME TypeOK, PlanOfRequest, [Next]_vars PROVE PlanOfRequest'
  OBVIOUS
<1>1. CASE pc' # "write"
  BY <1>1 DEF PlanOfRequest
<1>2. CASE UNCHANGED <<pc, request, plan>>
  BY <1>2 DEF PlanOfRequest, IsWifi, Posted, PostedOrEmpty, Has
<1>3. ASSUME NEW old \in [MqttKey -> Value], Accept(old) PROVE PlanOfRequest'
  <2>1. request \in Sendable /\ request.kind # "reboot" /\ Acceptable(request)
    BY <1>3 DEF Accept, TypeOK
  <2>2. plan' = Writes(request, old) /\ request' = request
    BY <1>3 DEF Accept
  <2> QED
    BY <2>1, <2>2, WritesPlan DEF PlanOfRequest, IsWifi, Posted, PostedOrEmpty, Has
<1>4. CASE Receive \/ ReceiveBlank
  BY <1>3, <1>4, ReadValue DEF Receive, ReceiveBlank
<1>5. CASE \/ Boot \/ BootErased \/ Seed \/ SeedFails \/ Join \/ JoinFails \/ UserSetup \/ SomeArrival
           \/ Refuse \/ ReceiveFails \/ WriteFails \/ Answer \/ RebootLost \/ Restart \/ PowerFails
  <2>1. \/ pc' # "write"
        \/ RebootRequest
    BY <1>5 DEF Boot, BootErased, Seed, SeedFails, SeedNext, Join, JoinFails, Serve, UserSetup,
       SomeArrival, Arrive, Refuse, ReceiveFails, WriteFails, Answer, RebootLost, Answered,
       Restart, PowerFails, Stop
  <2> QED
    BY <1>1, <1>2, <2>1 DEF RebootRequest, requestVars
<1>6. CASE Write \/ UNCHANGED vars
  BY <1>2, <1>6 DEF Write, vars
<1> QED
  BY <1>4, <1>5, <1>6 DEF Next

\* The pair, read as it would be seeded.
WifiPair == <<GetOrDefault("wifi_ssid"), GetOrDefault("wifi_pass")>>

LEMMA PairKept ==
  ASSUME WifiPaired, UNCHANGED WifiPair,
         torn' = torn, BetweenWifiWrites => BetweenWifiWrites'
  PROVE  WifiPaired'
  BY DEF WifiPaired, WifiPair

\* Where nothing of the store changes but what seeding changes, the pair is as it was.
LEMMA SamePair ==
  ASSUME TypeOK, UNCHANGED store \/ Seed \/ SeedFails
  PROVE  UNCHANGED WifiPair
<1>1. CASE UNCHANGED store
  BY <1>1 DEF WifiPair, GetOrDefault
<1>2. CASE Seed \/ SeedFails
  <2>1. \A j \in Key : store'[j] = store[j] \/ (store[j] = Absent /\ store'[j] = Initial(j))
    BY <1>2, SeedChanges DEF Seed, SeedFails, SeedNext
  <2>2. "wifi_ssid" \in Key /\ "wifi_pass" \in Key
    BY DEF Key
  <2> QED
    BY <2>1, <2>2 DEF WifiPair, GetOrDefault
<1> QED
  BY <1>1, <1>2

\* The second of the two writes completes a pair that was entered together.
LEMMA PairWritten ==
  ASSUME TypeOK, PlanOfRequest, Progress, Write, IsWifi(request), written' = 2
  PROVE  WifiPair' \in WifiPairs
<1> DEFINE s == Posted(request, "ssid")
           p == PostedOrEmpty(request, "password")
<1>1. /\ pc = "write" /\ request \in Sendable /\ Acceptable(request)
      /\ written = 1
      /\ store \in [Key -> Value \union {Absent}]
      /\ plan = << <<"wifi_ssid", s>>, <<"wifi_pass", p>> >>
  BY DEF Write, TypeOK, PlanOfRequest
<1>2. Filled(request, "ssid")
  BY <1>1 DEF Acceptable, IsWifi
<1>3. Has(request, "ssid") /\ s \in Value /\ p \in Value
  BY <1>1, <1>2, PostedText, PostedOrEmptyText, TextValue DEF Filled, PostedOrEmpty
<1> HIDE DEF s, p
<1>4. store["wifi_ssid"] = s
  <2>1. plan[1][1] = "wifi_ssid" /\ plan[1][2] = s
    BY <1>1
  <2>2. store[plan[1][1]] = plan[1][2]
    BY <1>1 DEF Progress
  <2> QED
    BY <2>1, <2>2
<1>5. store' = [store EXCEPT !["wifi_pass"] = p]
  <2>1. plan[2][1] = "wifi_pass" /\ plan[2][2] = p
    BY <1>1
  <2>2. store' = [store EXCEPT ![plan[2][1]] = plan[2][2]]
    BY DEF Write
  <2> QED
    BY <2>1, <2>2
<1>6. store'["wifi_ssid"] = s /\ store'["wifi_pass"] = p
  BY <1>1, <1>4, <1>5 DEF Key
<1>7. WifiPair' = <<s, p>>
  BY <1>3, <1>6, StoreAssumption DEF WifiPair, GetOrDefault
<1> QED
  BY <1>1, <1>3, <1>7 DEF WifiPairs, s, p

LEMMA NextWifiPaired ==
  TypeOK /\ Progress /\ PlanOfRequest /\ WifiPaired /\ [Next]_vars => WifiPaired'
<1> SUFFICES ASSUME TypeOK, Progress, PlanOfRequest, WifiPaired, [Next]_vars PROVE WifiPaired'
  OBVIOUS
<1>1. CASE pc # "write" /\ UNCHANGED torn /\ (UNCHANGED store \/ Seed \/ SeedFails)
  BY <1>1, SamePair, PairKept DEF BetweenWifiWrites
<1>2. CASE BootErased
  <2>1. WifiPair' = <<Default["wifi_ssid"], Default["wifi_pass"]>>
    BY <1>2 DEF BootErased, WifiPair, GetOrDefault, Initial, Key
  <2> QED
    BY <2>1 DEF WifiPaired, WifiPair, WifiPairs
<1>3. CASE \/ Boot \/ Seed \/ SeedFails \/ Join \/ JoinFails \/ UserSetup \/ SomeArrival
           \/ Refuse \/ Receive \/ ReceiveBlank \/ ReceiveFails
  <2>1. pc # "write" /\ UNCHANGED torn /\ (UNCHANGED store \/ Seed \/ SeedFails)
    BY <1>3 DEF Boot, Seed, SeedFails, SeedNext, Join, JoinFails, Serve, UserSetup, SomeArrival, Arrive,
       RebootRequest, Refuse, ReceiveFails, Receive, ReceiveBlank, Accept
  <2> QED
    BY <1>1, <2>1
<1>4. CASE Write /\ IsWifi(request)
  <2>1. Len(plan) = 2 /\ written \in Nat /\ written < 2 /\ written' = written + 1
    <3>1. Len(plan) = 2
      BY <1>4 DEF Write, PlanOfRequest
    <3> QED
      BY <1>4, <3>1 DEF Write, TypeOK
  <2>2. CASE written' = 2
    BY <1>4, <2>2, PairWritten DEF WifiPaired, WifiPair
  <2>3. CASE written' = 1
    BY <1>4, <2>3 DEF Write, WifiPaired, BetweenWifiWrites, IsWifi
  <2> QED
    BY <2>1, <2>2, <2>3
\* Other requests leave the pair alone.
<1>5. CASE Write /\ ~IsWifi(request)
  <2>1. written' \in DOMAIN plan /\ plan[written'][1] \notin {"wifi_ssid", "wifi_pass"}
    <3>1. written' = written + 1 /\ written < Len(plan) /\ pc = "write"
      BY <1>5 DEF Write
    <3>2. written' \in DOMAIN plan
      BY <3>1, LenProperties DEF TypeOK
    <3> QED
      BY <1>5, <3>1, <3>2 DEF PlanOfRequest
  <2>2. UNCHANGED WifiPair
    <3>1. store' = [store EXCEPT ![plan[written'][1]] = plan[written'][2]]
      BY <1>5 DEF Write
    <3>2. store'["wifi_ssid"] = store["wifi_ssid"] /\ store'["wifi_pass"] = store["wifi_pass"]
      BY <2>1, <3>1 DEF TypeOK, Key
    <3> QED
      BY <3>2 DEF WifiPair, GetOrDefault
  <2>3. torn' = torn
    BY <1>5, Zenon DEF Write, TypeOK
  <2> QED
    BY <1>5, <2>2, <2>3, PairKept DEF BetweenWifiWrites
\* A request cut between the two leaves a trace, or was not there.
<1>6. CASE WriteFails \/ Restart \/ PowerFails
  <2>1. CutShort /\ UNCHANGED store /\ pc' # "write"
    BY <1>6 DEF WriteFails, Restart, PowerFails, Stop
  <2>2. ~torn' => ~torn /\ ~BetweenWifiWrites
    <3> SUFFICES ASSUME BetweenWifiWrites PROVE torn'
      BY <2>1 DEF CutShort
    <3>1. pc = "write" /\ IsWifi(request) /\ 0 < written /\ written < Len(plan)
      BY DEF BetweenWifiWrites, PlanOfRequest
    <3> QED
      BY <2>1, <3>1 DEF CutShort
  <2>3. UNCHANGED WifiPair
    BY <2>1, SamePair
  <2> QED
    BY <2>2, <2>3 DEF WifiPaired, WifiPair
<1>7. CASE Answer \/ RebootLost
  <2>1. pc = "write" /\ written = Len(plan) /\ UNCHANGED <<store, torn>>
    BY <1>7 DEF Answer, RebootLost, Answered, AllWritten
  <2>2. ~BetweenWifiWrites
    BY <2>1 DEF BetweenWifiWrites, PlanOfRequest
  <2> QED
    BY <2>1, <2>2, SamePair, PairKept
<1>8. CASE UNCHANGED vars
  <2>1. UNCHANGED <<store, torn, pc, request, written>>
    BY <1>8 DEF vars
  <2> QED
    BY <2>1, SamePair, PairKept DEF BetweenWifiWrites, IsWifi
<1> QED
  BY <1>2, <1>3, <1>4, <1>5, <1>6, <1>7, <1>8 DEF Next

LEMMA InitInvariant == Init => IInv
<1> SUFFICES ASSUME Init PROVE IInv
  OBVIOUS
<1>1. PlanOfRequest
  BY DEF Init, PlanOfRequest
<1>2. WifiPaired
  BY DEF Init, WifiPaired, WifiPairs, GetOrDefault, Initial, Key
<1> QED
  BY <1>1, <1>2, InitTypeOK, InitProgress DEF IInv

THEOREM Invariant == Spec => []IInv
<1>1. IInv /\ [Next]_vars => IInv'
  BY NextTypeOK, NextProgress, NextPlanOfRequest, NextWifiPaired DEF IInv
<1> QED
  BY <1>1, InitInvariant, PTL DEF Spec

\* The network and the password in store were entered together, unless a request was
\* cut between the two writes.
THEOREM PairsKept == Spec => []WifiPaired
<1>1. IInv => WifiPaired
  BY DEF IInv
<1> QED
  BY <1>1, Invariant, PTL

-----------------------------------------------------------------------------
\* The store as its getters show it.
View == [k \in Key |-> GetOrDefault(k)]

LEMMA ViewKept ==
  ASSUME TypeOK, UNCHANGED store \/ Seed \/ SeedFails
  PROVE  UNCHANGED View
<1>1. CASE UNCHANGED store
  BY <1>1 DEF View, GetOrDefault
<1>2. CASE Seed \/ SeedFails
  <2>1. \A j \in Key : store'[j] = store[j] \/ (store[j] = Absent /\ store'[j] = Initial(j))
    BY <1>2, SeedChanges DEF Seed, SeedFails, SeedNext
  <2> QED
    BY <2>1 DEF View, GetOrDefault
<1> QED
  BY <1>1, <1>2

-----------------------------------------------------------------------------
\* Nobody types an admin password that the browser's encoding changes.  Without
\* this the owner is locked out.
AdminPlain == \A r \in Forms : r.kind = "passwords" /\ Has(r, "admin") =>
                 r.fields["admin"] \notin Special

\* The request changes the admin password.
ChangesAdmin(r) == r.kind = "passwords" /\ Filled(r, "admin")

\* The password stored is known, the first one as long as none is stored, and what a
\* request will write over it is known from the start.
OwnerInv ==
    /\ store["admin_hash"] = Absent => Default["admin_hash"] \in known
    /\ store["admin_hash"] # Absent => \E p \in known : store["admin_hash"] = Sha256(p)
    /\ pc = "write" =>
         /\ \A i \in DOMAIN plan : plan[i][1] = "admin_hash" =>
               ChangesAdmin(request) /\ plan[i][2] = Sha256(request.fields["admin"])
         /\ ChangesAdmin(request) =>
               /\ request.fields["admin"] \in known
               /\ \E i \in DOMAIN plan : plan[i][1] = "admin_hash"

\* What is planned for the admin password.
LEMMA AdminPlan ==
  ASSUME AdminPlain, NEW r \in Sendable, r.kind # "reboot", Acceptable(r),
         NEW old \in [MqttKey -> Value]
  PROVE  LET p == Writes(r, old)
         IN  /\ \A i \in DOMAIN p : p[i][1] = "admin_hash" =>
                   ChangesAdmin(r) /\ p[i][2] = Sha256(r.fields["admin"])
             /\ ChangesAdmin(r) => \E i \in DOMAIN p : p[i][1] = "admin_hash"
<1> DEFINE w == <<"httpd_hash", Sha256(Posted(r, "wakeup"))>>
           a == <<"admin_hash", Sha256(Posted(r, "admin"))>>
<1>1. CASE r.kind = "passwords"
  <2>1. Writes(r, old) = Passwords(r) /\ (Filled(r, "wakeup") \/ Filled(r, "admin"))
    BY <1>1 DEF Writes, Acceptable
  <2>2. Filled(r, "admin") => Posted(r, "admin") = r.fields["admin"]
    <3>1. r \in Forms
      BY <1>1 DEF Sendable, HomeForm
    <3> QED
      BY <1>1, <3>1 DEF AdminPlain, Filled, PostedOrEmpty, Posted
  <2>3. /\ Filled(r, "wakeup") /\ Filled(r, "admin") => Passwords(r) = <<w, a>>
        /\ Filled(r, "wakeup") /\ ~Filled(r, "admin") => Passwords(r) = <<w>>
        /\ ~Filled(r, "wakeup") /\ Filled(r, "admin") => Passwords(r) = <<a>>
    BY PasswordPlans
  <2>4. /\ w[1] = "httpd_hash" /\ a[1] = "admin_hash"
        /\ Filled(r, "admin") => a[2] = Sha256(r.fields["admin"])
    BY <2>2
  <2> HIDE DEF w, a
  <2>5. CASE Filled(r, "wakeup") /\ Filled(r, "admin")
    BY <1>1, <2>1, <2>3, <2>4, <2>5 DEF ChangesAdmin
  <2>6. CASE Filled(r, "wakeup") /\ ~Filled(r, "admin")
    BY <1>1, <2>1, <2>3, <2>4, <2>6 DEF ChangesAdmin
  <2>7. CASE ~Filled(r, "wakeup") /\ Filled(r, "admin")
    BY <1>1, <2>1, <2>3, <2>4, <2>7 DEF ChangesAdmin
  <2> QED
    BY <2>1, <2>5, <2>6, <2>7
<1>2. CASE r.kind # "passwords"
  <2> SUFFICES ASSUME NEW i \in DOMAIN Writes(r, old) PROVE Writes(r, old)[i][1] # "admin_hash"
    BY <1>2 DEF ChangesAdmin
  <2>1. CASE IsWifi(r)
    BY <2>1, WritesPlan
  <2>2. CASE r.kind = "hostname"
    BY <2>2 DEF Writes, SetHostname
  <2>3. CASE r.kind = "mqtt"
    BY <2>3, MergedValue, MqttPlan DEF Writes, MqttKey
  <2> QED
    BY <1>2, <2>1, <2>2, <2>3, Kinds DEF Kind, IsWifi
<1> QED
  BY <1>1, <1>2

LEMMA NextOwnerInv ==
  ASSUME AdminPlain
  PROVE  TypeOK /\ Progress /\ OwnerInv /\ [Next]_vars => OwnerInv'
<1> SUFFICES ASSUME TypeOK, Progress, OwnerInv, [Next]_vars PROVE OwnerInv'
  OBVIOUS
<1>0. "admin_hash" \in Key /\ store \in [Key -> Value \union {Absent}] /\ Absent \notin Value
  BY StoreAssumption DEF Key, TypeOK
<1>1. CASE Seed \/ SeedFails
  <2>1. pc = "seed" /\ pc' # "write" /\ UNCHANGED known
    BY <1>1 DEF Seed, SeedFails, SeedNext, requestVars
  <2>2. \/ store'["admin_hash"] = store["admin_hash"]
        \/ store["admin_hash"] = Absent /\ store'["admin_hash"] = Initial("admin_hash")
    BY <1>0, <1>1, <2>1, SeedChanges DEF Seed, SeedFails
  <2>3. Initial("admin_hash") = Sha256(Default["admin_hash"]) /\ Initial("admin_hash") # Absent
    BY <1>0, InitialValue DEF Initial
  <2> QED
    BY <2>1, <2>2, <2>3 DEF OwnerInv
<1>2. CASE BootErased
  BY <1>0, <1>2 DEF BootErased, OwnerInv
<1>3. CASE Receive \/ ReceiveBlank
  <2>1. PICK old \in [MqttKey -> Value] : Accept(old)
    BY <1>3, ReadValue DEF Receive, ReceiveBlank
  <2>2. /\ request \in Sendable /\ request.kind # "reboot" /\ Acceptable(request)
        /\ plan' = Writes(request, old) /\ request' = request /\ store' = store
        /\ known' = IF ChangesAdmin(request) THEN known \union {request.fields["admin"]} ELSE known
    BY <2>1 DEF Accept, TypeOK, ChangesAdmin
  <2>3. ChangesAdmin(request') <=> ChangesAdmin(request)
    BY <2>2
  <2> QED
    BY <2>2, <2>3, AdminPlan DEF OwnerInv, ChangesAdmin, Filled, PostedOrEmpty, Has, Posted
<1>4. CASE Write
  <2> DEFINE q == plan[written']
  <2>1. written' \in DOMAIN plan /\ q[1] \in Key /\ q[2] \in Value
    <3>1. written' \in 1 .. Len(plan)
      BY <1>4, LenProperties DEF Write, TypeOK
    <3>2. q \in Key \X Value /\ DOMAIN plan = 1 .. Len(plan)
      BY <3>1, ElementOfSeq, LenProperties DEF TypeOK
    <3> QED
      BY <3>1, <3>2
  <2>2. /\ store' = [store EXCEPT ![q[1]] = q[2]]
        /\ pc = "write" /\ UNCHANGED <<pc, request, plan, known>>
    BY <1>4 DEF Write
  <2>3. q[1] = "admin_hash" =>
          request.fields["admin"] \in known /\ q[2] = Sha256(request.fields["admin"])
    BY <2>1, <2>2 DEF OwnerInv
  <2> HIDE DEF q
  <2>4. store'["admin_hash"] = IF q[1] = "admin_hash" THEN q[2] ELSE store["admin_hash"]
    BY <1>0, <2>1, <2>2
  <2>5. ChangesAdmin(request') <=> ChangesAdmin(request)
    BY <2>2
  <2> QED
    BY <1>0, <2>1, <2>2, <2>3, <2>4, <2>5
       DEF OwnerInv, ChangesAdmin, Filled, PostedOrEmpty, Has, Posted
<1>5. CASE Answer \/ RebootLost
  <2>1. /\ pc = "write" /\ pc' = "idle" /\ written = Len(plan) /\ UNCHANGED store
        /\ known' = IF ChangesAdmin(request) THEN {request.fields["admin"]} ELSE known
    BY <1>5 DEF Answer, RebootLost, Answered, AllWritten, ChangesAdmin
  <2>2. ASSUME ChangesAdmin(request)
        PROVE  store["admin_hash"] = Sha256(request.fields["admin"])
    <3>1. PICK i \in DOMAIN plan : plan[i][1] = "admin_hash"
      BY <2>1, <2>2 DEF OwnerInv
    <3>2. plan[i][2] = Sha256(request.fields["admin"])
      BY <2>1, <3>1 DEF OwnerInv
    <3>3. i \in 1 .. written
      BY <2>1, LenProperties DEF TypeOK
    <3> QED
      BY <3>1, <3>2, <3>3 DEF Progress
  <2>3. ChangesAdmin(request) => store["admin_hash"] # Absent
    <3>1. ChangesAdmin(request) => request.fields["admin"] \in Text
      <4>1. request \in Sendable
        BY <2>1 DEF TypeOK
      <4> QED
        BY <4>1, ProvisioningAssumption
           DEF ChangesAdmin, Filled, PostedOrEmpty, Has, Sendable, IsForm, HomeForm
    <3> QED
      BY <1>0, <2>2, <3>1, ShaValue
  <2> QED
    BY <2>1, <2>2, <2>3 DEF OwnerInv
<1>6. CASE \/ Boot \/ Join \/ JoinFails \/ UserSetup \/ SomeArrival \/ Refuse \/ ReceiveFails
           \/ WriteFails \/ Restart \/ PowerFails \/ UNCHANGED vars
  <2>1. /\ UNCHANGED <<store, known>>
        /\ pc' = "write" => UNCHANGED <<pc, request, plan>>
    BY <1>6 DEF Boot, Join, JoinFails, Serve, UserSetup, SomeArrival, Arrive, RebootRequest, Refuse,
       ReceiveFails, WriteFails, Restart, PowerFails, Stop, vars, requestVars
  <2> QED
    BY <2>1 DEF OwnerInv, ChangesAdmin, Filled, PostedOrEmpty, Has, Posted
<1> QED
  BY <1>1, <1>2, <1>3, <1>4, <1>5, <1>6 DEF Next

\* The admin page opens with the last admin password acknowledged, or with one typed
\* since, if no admin password contains what the encoding changes.
THEOREM OwnerNotLockedOut ==
  ASSUME AdminPlain
  PROVE  Spec => []OwnerKnowsPassword
<1>1. Init => OwnerInv
  BY DEF Init, OwnerInv, Key
<1>2. OwnerInv => OwnerKnowsPassword
  BY DEF OwnerInv, OwnerKnowsPassword, CheckPassword
<1>3. TypeOK /\ Progress /\ OwnerInv /\ [Next]_vars => OwnerInv'
  BY NextOwnerInv
<1> QED
  BY <1>1, <1>2, <1>3, InitTypeOK, NextTypeOK, InitProgress, NextProgress, PTL DEF Spec

-----------------------------------------------------------------------------
\* What is stored as the discovery prefix, or about to be, is empty only if the default is.
PrefixOK(t) == t = Empty => Default["mqtt_pfx"] = Empty

\* Only an MQTT request plans to write MQTT settings, and what it was not given it
\* writes as it is stored, unless it could not read it.
MqttInv ==
    /\ PrefixOK(View["mqtt_pfx"])
    /\ pc = "write" => \A i \in DOMAIN plan : plan[i][1] \in MqttKey =>
         /\ request.kind = "mqtt"
         /\ \/ blanked
            \/ Overwrites(request, FieldOf(plan[i][1]))
            \/ plan[i][2] = View[plan[i][1]]
         /\ plan[i][1] = "mqtt_pfx" => PrefixOK(plan[i][2])

LEMMA MqttKeys == MqttKey \subseteq Key /\ "mqtt_pfx" \in Key
  BY DEF MqttKey, Key

\* What is planned for the MQTT settings.
LEMMA MqttWrites ==
  ASSUME NEW r \in Sendable, r.kind # "reboot", Acceptable(r), NEW old \in [MqttKey -> Value],
         NEW i \in DOMAIN Writes(r, old), Writes(r, old)[i][1] \in MqttKey
  PROVE  LET p == Writes(r, old)[i]
         IN  /\ r.kind = "mqtt"
             /\ p[1] = "mqtt_pfx" => PrefixOK(p[2])
             /\ \/ Overwrites(r, FieldOf(p[1]))
                \/ p[2] = old[p[1]]
                \/ p[1] = "mqtt_pfx" /\ old[p[1]] = Empty /\ p[2] = Default[p[1]]
<1>1. r.kind = "mqtt"
  <2>1. CASE IsWifi(r)
    <3>1. Writes(r, old) = << <<"wifi_ssid", Posted(r, "ssid")>>,
                              <<"wifi_pass", PostedOrEmpty(r, "password")>> >>
      BY <2>1, WritesPlan
    <3>2. Writes(r, old)[i][1] \in {"wifi_ssid", "wifi_pass"}
      BY <3>1
    <3> QED
      BY <3>2 DEF MqttKey
  <2>2. CASE r.kind = "passwords"
    <3>1. Writes(r, old) = Passwords(r) /\ (Filled(r, "wakeup") \/ Filled(r, "admin"))
      BY <2>2 DEF Writes, Acceptable
    <3>2. Writes(r, old)[i][1] \in {"httpd_hash", "admin_hash"}
      BY <3>1, PasswordsPlan
    <3> QED
      BY <3>2 DEF MqttKey
  <2>3. CASE r.kind = "hostname"
    <3>1. Writes(r, old) = << <<"hostname", Posted(r, "hostname")>> >>
      BY <2>3 DEF Writes, SetHostname
    <3>2. Writes(r, old)[i][1] = "hostname"
      BY <3>1
    <3> QED
      BY <3>2 DEF MqttKey
  <2> QED
    BY <2>1, <2>2, <2>3, Kinds DEF Kind, IsWifi
<1> DEFINE cfg == Merged(r, old)
           pfx == IF cfg["mqtt_pfx"] = Empty THEN Default["mqtt_pfx"] ELSE cfg["mqtt_pfx"]
<1>2. Writes(r, old) = << <<"mqtt_en", cfg["mqtt_en"]>>, <<"mqtt_broker", cfg["mqtt_broker"]>>,
                          <<"mqtt_user", cfg["mqtt_user"]>>, <<"mqtt_pass", cfg["mqtt_pass"]>>,
                          <<"mqtt_pfx", pfx>> >>
  BY <1>1 DEF Writes, SetMqtt
<1>3. \A k \in MqttKey : Overwrites(r, FieldOf(k)) \/ cfg[k] = old[k]
  BY DEF Merged
<1> HIDE DEF cfg, pfx
<1>4. \/ Writes(r, old)[i][1] = "mqtt_pfx" /\ Writes(r, old)[i][2] = pfx
      \/ /\ Writes(r, old)[i][1] \in MqttKey \ {"mqtt_pfx"}
         /\ Writes(r, old)[i][2] = cfg[Writes(r, old)[i][1]]
  BY <1>2 DEF MqttKey
<1>5. PrefixOK(pfx)
  BY DEF pfx, PrefixOK
<1>6. \/ pfx = cfg["mqtt_pfx"]
      \/ cfg["mqtt_pfx"] = Empty /\ pfx = Default["mqtt_pfx"]
  BY DEF pfx
<1> QED
  BY <1>1, <1>3, <1>4, <1>5, <1>6

\* A write stores a value under its key, and leaves the rest alone.
LEMMA WriteStores ==
  ASSUME TypeOK, Write
  PROVE  /\ written' \in DOMAIN plan
         /\ plan[written'][1] \in Key
         /\ \A k \in Key : View'[k] = IF k = plan[written'][1] THEN plan[written'][2] ELSE View[k]
<1> DEFINE q == plan[written']
<1>1. written' \in DOMAIN plan /\ q[1] \in Key /\ q[2] \in Value
  <2>1. written' \in 1 .. Len(plan)
    BY LenProperties DEF Write, TypeOK
  <2>2. q \in Key \X Value /\ DOMAIN plan = 1 .. Len(plan)
    BY <2>1, ElementOfSeq, LenProperties DEF TypeOK
  <2> QED
    BY <2>1, <2>2
<1>2. store' = [store EXCEPT ![q[1]] = q[2]]
  BY DEF Write
<1>3. store \in [Key -> Value \union {Absent}]
  BY DEF TypeOK
<1> HIDE DEF q
<1>4. \A k \in Key : View'[k] = IF k = q[1] THEN q[2] ELSE View[k]
  BY <1>1, <1>2, <1>3, StoreAssumption DEF GetOrDefault, View
<1> QED
  BY <1>1, <1>4 DEF q

LEMMA NextMqttInv == TypeOK /\ Progress /\ MqttInv /\ [Next]_vars => MqttInv'
<1> SUFFICES ASSUME TypeOK, Progress, MqttInv, [Next]_vars PROVE MqttInv'
  OBVIOUS
<1>1. CASE BootErased
  <2>1. View'["mqtt_pfx"] = Default["mqtt_pfx"] /\ pc' # "write"
    BY <1>1, MqttKeys DEF BootErased, View, GetOrDefault, Initial
  <2> QED
    BY <2>1 DEF MqttInv, PrefixOK
<1>2. CASE Receive \/ ReceiveBlank
  <2>1. PICK old \in [MqttKey -> Value] :
           Accept(old) /\ (blanked' \/ old = GetMqtt)
    BY <1>2, ReadValue DEF Receive, ReceiveBlank
  <2>2. /\ request \in Sendable /\ request.kind # "reboot" /\ Acceptable(request)
        /\ plan' = Writes(request, old) /\ request' = request /\ store' = store
    BY <2>1 DEF Accept, TypeOK
  <2>3. View' = View
    BY <2>2, ViewKept
  <2>4. \A k \in MqttKey : blanked' \/ old[k] = View[k]
    BY <2>1, MqttKeys DEF GetMqtt, View
  <2>5. PrefixOK(View'["mqtt_pfx"])
    BY <2>3, MqttKeys DEF MqttInv
  <2>6. ASSUME NEW i \in DOMAIN plan', plan'[i][1] \in MqttKey
        PROVE  /\ request.kind = "mqtt"
               /\ \/ blanked'
                  \/ Overwrites(request, FieldOf(plan'[i][1]))
                  \/ plan'[i][2] = View'[plan'[i][1]]
               /\ plan'[i][1] = "mqtt_pfx" => PrefixOK(plan'[i][2])
    <3> DEFINE p == plan'[i]
    <3>1. /\ request.kind = "mqtt"
          /\ p[1] = "mqtt_pfx" => PrefixOK(p[2])
          /\ \/ Overwrites(request, FieldOf(p[1]))
             \/ p[2] = old[p[1]]
             \/ p[1] = "mqtt_pfx" /\ old[p[1]] = Empty /\ p[2] = Default[p[1]]
      BY <2>2, <2>6, MqttWrites
    <3>2. View'[p[1]] = View[p[1]]
      BY <2>3
    <3> HIDE DEF p
    <3>3. p[1] \in MqttKey
      BY <2>6 DEF p
    <3>4. CASE p[1] = "mqtt_pfx" /\ old[p[1]] = Empty /\ p[2] = Default[p[1]]
      BY <2>4, <3>1, <3>2, <3>3, <3>4 DEF MqttInv, PrefixOK, p
    <3>5. CASE p[2] = old[p[1]]
      BY <2>4, <3>1, <3>2, <3>3, <3>5 DEF p
    <3> QED
      BY <3>1, <3>4, <3>5 DEF p
  <2> QED
    BY <2>2, <2>5, <2>6 DEF MqttInv, PrefixOK, Overwrites, Has, Filled, PostedOrEmpty, Posted
<1>3. CASE Write
  <2> DEFINE q == plan[written']
  <2>1. /\ written' \in DOMAIN plan /\ q[1] \in Key
        /\ \A k \in Key : View'[k] = IF k = q[1] THEN q[2] ELSE View[k]
    BY <1>3, WriteStores
  <2>2. pc = "write" /\ UNCHANGED <<pc, request, plan, blanked>>
    BY <1>3 DEF Write
  <2>3. /\ q[1] = "mqtt_pfx" => PrefixOK(q[2])
    BY <2>1, <2>2, MqttKeys DEF MqttInv, MqttKey
  <2>4. PrefixOK(View'["mqtt_pfx"])
    BY <2>1, <2>3, MqttKeys DEF MqttInv
  <2>5. ASSUME NEW i \in DOMAIN plan, plan[i][1] \in MqttKey,
               plan[i][2] = View[plan[i][1]]
        PROVE  plan[i][2] = View'[plan[i][1]]
    <3>1. CASE plan[i][1] = q[1]
      <4>1. i = written'
        BY <2>1, <2>5, <3>1 DEF Progress
      <4> QED
        BY <2>1, <3>1, <4>1
    <3>2. CASE plan[i][1] # q[1]
      BY <2>1, <2>5, <3>2, MqttKeys
    <3> QED
      BY <3>1, <3>2
  <2> QED
    BY <2>2, <2>4, <2>5 DEF MqttInv, PrefixOK, Overwrites, Has, Filled, PostedOrEmpty, Posted
<1>4. CASE \/ Boot \/ Seed \/ SeedFails \/ Join \/ JoinFails \/ UserSetup \/ SomeArrival
           \/ Refuse \/ ReceiveFails \/ Answer \/ RebootLost
           \/ WriteFails \/ Restart \/ PowerFails \/ UNCHANGED vars
  <2>1. /\ UNCHANGED store \/ Seed \/ SeedFails
        /\ pc' = "write" => UNCHANGED <<pc, store, request, plan, blanked>>
    BY <1>4 DEF Boot, Seed, SeedFails, SeedNext, Join, JoinFails, Serve, UserSetup, SomeArrival,
       Arrive, RebootRequest, Refuse, ReceiveFails, Answer, RebootLost, Answered, WriteFails,
       Restart, PowerFails, Stop, vars, requestVars
  <2>2. View' = View
    BY <2>1, ViewKept
  <2> QED
    BY <2>1, <2>2
       DEF MqttInv, PrefixOK, Overwrites, Has, Filled, PostedOrEmpty, Posted
<1> QED
  BY <1>1, <1>2, <1>3, <1>4 DEF Next

LEMMA InitMqttInv == Init => MqttInv
  BY MqttKeys DEF Init, MqttInv, PrefixOK, View, GetOrDefault, Initial

\* An MQTT setting changes only by a request that posts it, an erasure, or a request
\* that could not read what is stored.
THEOREM SettingsKept == Spec => MqttKept
<1>1. Init => MqttInv
  BY InitMqttInv
<1>2. ASSUME TypeOK, Progress, MqttInv, [Next]_vars
      PROVE  pc # "off" => \A k \in MqttKey : GetOrDefault(k)' # GetOrDefault(k) =>
               /\ request.kind = "mqtt"
               /\ \/ blanked
                  \/ Has(request, FieldOf(k)) /\ (k = "mqtt_pass" => Filled(request, "password"))
  <2> SUFFICES ASSUME pc # "off", NEW k \in MqttKey, GetOrDefault(k)' # GetOrDefault(k)
               PROVE  /\ request.kind = "mqtt"
                      /\ \/ blanked
                         \/ /\ Has(request, FieldOf(k))
                            /\ k = "mqtt_pass" => Filled(request, "password")
    OBVIOUS
  <2>1. k \in Key /\ View'[k] # View[k]
    BY MqttKeys DEF View
  <2>2. Write
    <3>1. store' # store /\ ~Seed /\ ~SeedFails
      <4>1. ASSUME UNCHANGED store \/ Seed \/ SeedFails PROVE FALSE
        BY <1>2, <2>1, <4>1, ViewKept
      <4> QED
        BY <4>1
    <3> QED
      BY <1>2, <3>1 DEF Next, Boot, BootErased, Join, JoinFails, Serve, UserSetup, SomeArrival,
         Arrive, RebootRequest, Refuse, Receive, ReceiveBlank, Accept, ReceiveFails, Answer,
         RebootLost, Answered, WriteFails, Restart, PowerFails, Stop, vars
  <2>3. /\ written' \in DOMAIN plan /\ plan[written'][1] = k
        /\ plan[written'][2] # View[k] /\ pc = "write"
    BY <1>2, <2>1, <2>2, WriteStores DEF Write
  <2>4. request.kind = "mqtt" /\ (blanked \/ Overwrites(request, FieldOf(k)))
    BY <1>2, <2>3 DEF MqttInv
  <2>5. k = "mqtt_pass" => FieldOf(k) = "password"
    BY DEF FieldOf
  <2> QED
    BY <2>4, <2>5 DEF Overwrites
<1>3. Spec => [](TypeOK /\ Progress /\ MqttInv)
  BY <1>1, InitTypeOK, NextTypeOK, InitProgress, NextProgress, NextMqttInv, PTL DEF Spec
<1> QED
  BY <1>2, <1>3, PTL DEF Spec, MqttKept

-----------------------------------------------------------------------------
\* What the handlers plan to write is what the forms ask for.

\* The forms of one field or two.
LEMMA PlanAsks ==
  ASSUME NEW r \in Sendable, r.kind \notin {"reboot", "mqtt"}, Acceptable(r),
         NEW old \in [MqttKey -> Value]
  PROVE  LET p == Writes(r, old)
         IN  /\ \A a \in Asks[r] : \E i \in DOMAIN p : p[i] = a
             /\ \A i \in DOMAIN p : p[i] \in Asks[r]
<1>1. CASE IsWifi(r)
  <2> DEFINE s == <<"wifi_ssid", Posted(r, "ssid")>>
             p == <<"wifi_pass", PostedOrEmpty(r, "password")>>
  <2>1. Writes(r, old) = <<s, p>>
    BY <1>1, WritesPlan
  <2>2. PostedOrEmpty(r, "ssid") = Posted(r, "ssid")
    BY <1>1 DEF Acceptable, Filled, PostedOrEmpty, IsWifi
  <2>3. /\ DOMAIN SetBy(r.kind) = {"wifi_ssid", "wifi_pass"}
        /\ SetBy(r.kind)["wifi_ssid"] = "ssid" /\ SetBy(r.kind)["wifi_pass"] = "password"
    BY <1>1 DEF SetBy, IsWifi
  <2>4. About(r) = {"wifi_ssid", "wifi_pass"}
    BY <1>1, <2>3 DEF About
  <2>5. \A t : Meant("wifi_ssid", t) = t /\ Meant("wifi_pass", t) = t
    BY DEF Meant
  <2>6. Asks[r] = {s, p}
    BY <2>2, <2>3, <2>4, <2>5 DEF Asks
  <2> HIDE DEF s, p
  <2> QED
    BY <2>1, <2>6
<1>2. CASE r.kind = "passwords"
  <2> DEFINE w == <<"httpd_hash", Sha256(Posted(r, "wakeup"))>>
             a == <<"admin_hash", Sha256(Posted(r, "admin"))>>
  <2>1. Writes(r, old) = Passwords(r) /\ (Filled(r, "wakeup") \/ Filled(r, "admin"))
    BY <1>2 DEF Writes, Acceptable
  <2>2. /\ Filled(r, "wakeup") /\ Filled(r, "admin") => Passwords(r) = <<w, a>>
        /\ Filled(r, "wakeup") /\ ~Filled(r, "admin") => Passwords(r) = <<w>>
        /\ ~Filled(r, "wakeup") /\ Filled(r, "admin") => Passwords(r) = <<a>>
    BY PasswordPlans
  <2>3. /\ DOMAIN SetBy(r.kind) = {"httpd_hash", "admin_hash"}
        /\ SetBy(r.kind)["httpd_hash"] = "wakeup" /\ SetBy(r.kind)["admin_hash"] = "admin"
    BY <1>2 DEF SetBy
  <2>4. About(r) = {k \in {"httpd_hash", "admin_hash"} : Filled(r, SetBy(r.kind)[k])}
    BY <1>2, <2>3 DEF About, IsWifi
  <2>5. /\ Filled(r, "wakeup") => PostedOrEmpty(r, "wakeup") = Posted(r, "wakeup")
        /\ Filled(r, "admin") => PostedOrEmpty(r, "admin") = Posted(r, "admin")
    BY DEF Filled, PostedOrEmpty
  <2>6. \A t : Meant("httpd_hash", t) = Sha256(t) /\ Meant("admin_hash", t) = Sha256(t)
    BY DEF Meant
  <2>7. Asks[r] = {<<k, Meant(k, PostedOrEmpty(r, SetBy(r.kind)[k]))>> : k \in About(r)}
    BY DEF Asks
  <2>8. CASE Filled(r, "wakeup") /\ Filled(r, "admin")
    <3>1. Asks[r] = {w, a}
      BY <2>3, <2>4, <2>5, <2>6, <2>7, <2>8
    <3> HIDE DEF w, a
    <3> QED
      BY <2>1, <2>2, <2>8, <3>1
  <2>9. CASE Filled(r, "wakeup") /\ ~Filled(r, "admin")
    <3>1. Asks[r] = {w}
      BY <2>3, <2>4, <2>5, <2>6, <2>7, <2>9
    <3> HIDE DEF w, a
    <3> QED
      BY <2>1, <2>2, <2>9, <3>1
  <2>10. CASE ~Filled(r, "wakeup") /\ Filled(r, "admin")
    <3>1. Asks[r] = {a}
      BY <2>3, <2>4, <2>5, <2>6, <2>7, <2>10
    <3> HIDE DEF w, a
    <3> QED
      BY <2>1, <2>2, <2>10, <3>1
  <2> QED
    BY <2>1, <2>8, <2>9, <2>10
<1>3. CASE r.kind = "hostname"
  <2> DEFINE h == <<"hostname", Posted(r, "hostname")>>
  <2>1. Writes(r, old) = <<h>>
    BY <1>3 DEF Writes, SetHostname
  <2>2. Filled(r, "hostname") /\ PostedOrEmpty(r, "hostname") = Posted(r, "hostname")
    BY <1>3 DEF Acceptable, Filled, PostedOrEmpty
  <2>3. DOMAIN SetBy(r.kind) = {"hostname"} /\ SetBy(r.kind)["hostname"] = "hostname"
    BY <1>3 DEF SetBy
  <2>4. About(r) = {"hostname"}
    BY <2>2, <2>3 DEF About
  <2>5. \A t : Meant("hostname", t) = t
    BY DEF Meant
  <2>6. Asks[r] = {h}
    BY <2>2, <2>3, <2>4, <2>5 DEF Asks
  <2> HIDE DEF h
  <2> QED
    BY <2>1, <2>6
<1> QED
  BY <1>1, <1>2, <1>3, Kinds DEF Kind, IsWifi

\* The MQTT form: what its five writes store, given what was read.
Read(old, k) == IF k = "mqtt_pfx" /\ old[k] = Empty THEN Default[k] ELSE old[k]
Stored(r, old, k) == IF k \in About(r) THEN Meant(k, PostedOrEmpty(r, FieldOf(k))) ELSE Read(old, k)

LEMMA MqttAbout ==
  ASSUME NEW r \in Sendable, r.kind = "mqtt", NEW k \in MqttKey
  PROVE  /\ k \in About(r) <=> Overwrites(r, FieldOf(k))
         /\ SetBy(r.kind) = [j \in MqttKey |-> FieldOf(j)]
         /\ About(r) \subseteq MqttKey
         /\ Overwrites(r, FieldOf(k)) => PostedOrEmpty(r, FieldOf(k)) = Posted(r, FieldOf(k))
<1>1. SetBy(r.kind) = [j \in MqttKey |-> FieldOf(j)]
  BY DEF SetBy
<1>2. \A j \in MqttKey : FieldOf(j) = "password" <=> j = "mqtt_pass"
  BY DEF FieldOf, MqttKey
<1>3. \A f : Filled(r, f) => Has(r, f)
  BY DEF Filled, PostedOrEmpty
<1>4. ~IsWifi(r)
  BY DEF IsWifi
<1>5. About(r) \subseteq MqttKey
  BY <1>1 DEF About
<1>6. k \in About(r) <=> Filled(r, FieldOf(k)) \/ (k # "mqtt_pass" /\ Has(r, FieldOf(k)))
  BY <1>1, <1>4 DEF About
<1> QED
  BY <1>1, <1>2, <1>3, <1>5, <1>6 DEF Overwrites, PostedOrEmpty

LEMMA MqttPlanIs ==
  ASSUME NEW r \in Sendable, r.kind = "mqtt", NEW old \in [MqttKey -> Value]
  PROVE  /\ \A i \in DOMAIN Writes(r, old) : \E k \in MqttKey :
               Writes(r, old)[i] = <<k, Stored(r, old, k)>>
         /\ \A k \in MqttKey : \E i \in DOMAIN Writes(r, old) :
               Writes(r, old)[i] = <<k, Stored(r, old, k)>>
<1> DEFINE cfg == Merged(r, old)
           pfx == IF cfg["mqtt_pfx"] = Empty THEN Default["mqtt_pfx"] ELSE cfg["mqtt_pfx"]
<1>1. Writes(r, old) = << <<"mqtt_en", cfg["mqtt_en"]>>, <<"mqtt_broker", cfg["mqtt_broker"]>>,
                          <<"mqtt_user", cfg["mqtt_user"]>>, <<"mqtt_pass", cfg["mqtt_pass"]>>,
                          <<"mqtt_pfx", pfx>> >>
  BY DEF Writes, SetMqtt
<1>2. \A k \in MqttKey :
         cfg[k] = IF k \notin About(r) THEN old[k]
                  ELSE IF k = "mqtt_en" THEN AsFlag(PostedOrEmpty(r, FieldOf(k)))
                  ELSE PostedOrEmpty(r, FieldOf(k))
  BY MqttAbout DEF Merged
<1> HIDE DEF cfg
<1>3. \A k \in MqttKey \ {"mqtt_pfx"} : cfg[k] = Stored(r, old, k)
  BY <1>2 DEF Stored, Read, Meant, MqttKey
<1>4. pfx = Stored(r, old, "mqtt_pfx")
  BY <1>2 DEF Stored, Read, Meant, MqttKey
<1> HIDE DEF pfx
<1>5. Writes(r, old) = << <<"mqtt_en", Stored(r, old, "mqtt_en")>>,
                          <<"mqtt_broker", Stored(r, old, "mqtt_broker")>>,
                          <<"mqtt_user", Stored(r, old, "mqtt_user")>>,
                          <<"mqtt_pass", Stored(r, old, "mqtt_pass")>>,
                          <<"mqtt_pfx", Stored(r, old, "mqtt_pfx")>> >>
  BY <1>1, <1>3, <1>4 DEF MqttKey
<1> DEFINE e == <<"mqtt_en", Stored(r, old, "mqtt_en")>>
           b == <<"mqtt_broker", Stored(r, old, "mqtt_broker")>>
           u == <<"mqtt_user", Stored(r, old, "mqtt_user")>>
           p == <<"mqtt_pass", Stored(r, old, "mqtt_pass")>>
           x == <<"mqtt_pfx", Stored(r, old, "mqtt_pfx")>>
<1>6. Writes(r, old) = <<e, b, u, p, x>>
  BY <1>5
<1>7. \A k \in MqttKey : <<k, Stored(r, old, k)>> \in {e, b, u, p, x}
  BY DEF MqttKey
<1>8. \A w \in {e, b, u, p, x} : \E k \in MqttKey : w = <<k, Stored(r, old, k)>>
  BY DEF MqttKey
<1> HIDE DEF e, b, u, p, x
<1>9. /\ \A i \in DOMAIN Writes(r, old) : Writes(r, old)[i] \in {e, b, u, p, x}
      /\ \A w \in {e, b, u, p, x} : \E i \in DOMAIN Writes(r, old) : Writes(r, old)[i] = w
  BY <1>6
<1> QED
  BY <1>7, <1>8, <1>9

\* The plan of an accepted request is what it asks for, and what it read, if that is
\* what is stored; what it lost, if it could not read.
LEMMA MqttAsks ==
  ASSUME NEW r \in Sendable, r.kind = "mqtt", NEW old \in [MqttKey -> Value]
  PROVE  LET p == Writes(r, old)
         IN  /\ \A a \in Asks[r] : \E i \in DOMAIN p : p[i] = a
             /\ \A i \in DOMAIN p : \/ p[i] \in Asks[r]
                                    \/ \E k \in MqttKey : p[i] = <<k, Read(old, k)>>
             /\ old = BlankMqtt =>
                  /\ \A a \in Loses[r] : \E i \in DOMAIN p : p[i] = a
                  /\ \A i \in DOMAIN p : p[i] \in Asks[r] \union Loses[r]
<1> DEFINE p == Writes(r, old)
<1>1. /\ \A i \in DOMAIN p : \E k \in MqttKey : p[i] = <<k, Stored(r, old, k)>>
      /\ \A k \in MqttKey : \E i \in DOMAIN p : p[i] = <<k, Stored(r, old, k)>>
  BY MqttPlanIs
<1> HIDE DEF p
<1>2. /\ About(r) \subseteq MqttKey
      /\ SetBy(r.kind) = [k \in MqttKey |-> FieldOf(k)]
  <2>1. "mqtt_en" \in MqttKey
    BY DEF MqttKey
  <2> QED
    BY <2>1, MqttAbout
<1>3. /\ \A a \in Asks[r] : \E k \in About(r) : a = <<k, Stored(r, old, k)>>
      /\ \A k \in About(r) : <<k, Stored(r, old, k)>> \in Asks[r]
  <2>1. Asks[r] = {<<k, Meant(k, PostedOrEmpty(r, SetBy(r.kind)[k]))>> : k \in About(r)}
    BY DEF Asks
  <2>2. \A k \in About(r) : Stored(r, old, k) = Meant(k, PostedOrEmpty(r, SetBy(r.kind)[k]))
    BY <1>2 DEF Stored
  <2> QED
    BY <2>1, <2>2
<1>4. ASSUME old = BlankMqtt
      PROVE  \A k \in MqttKey : Read(old, k) = Meant(k, Empty)
  BY <1>4, StoreAssumption DEF Read, Meant, BlankMqtt, AsFlag, MqttKey
<1>5. Loses[r] = {<<k, Meant(k, Empty)>> : k \in MqttKey \ About(r)}
  BY DEF Loses
<1>6. ASSUME old = BlankMqtt
      PROVE  /\ \A a \in Loses[r] : \E k \in MqttKey : a = <<k, Stored(r, old, k)>>
             /\ \A k \in MqttKey \ About(r) : <<k, Stored(r, old, k)>> \in Loses[r]
  BY <1>4, <1>5, <1>6 DEF Stored
<1>7. \A k \in MqttKey \ About(r) : Stored(r, old, k) = Read(old, k)
  BY DEF Stored
<1>8. \A a \in Asks[r] : \E i \in DOMAIN p : p[i] = a
  BY <1>1, <1>2, <1>3
<1>9. \A i \in DOMAIN p : p[i] \in Asks[r] \/ \E k \in MqttKey : p[i] = <<k, Read(old, k)>>
  BY <1>1, <1>3, <1>7
<1>10. ASSUME old = BlankMqtt
       PROVE  /\ \A a \in Loses[r] : \E i \in DOMAIN p : p[i] = a
              /\ \A i \in DOMAIN p : p[i] \in Asks[r] \union Loses[r]
  BY <1>1, <1>3, <1>6, <1>10
<1> QED
  BY <1>8, <1>9, <1>10 DEF p

\* While a request is written, all it asks for is planned, and what else is planned
\* is stored already.
PlanAsked ==
    pc = "write" =>
      /\ \A a \in Asked : \E i \in DOMAIN plan : plan[i] = a
      /\ \A i \in DOMAIN plan : plan[i] \in Asked \/ plan[i][2] = View[plan[i][1]]

LEMMA AcceptAsked ==
  ASSUME TypeOK, MqttInv, Receive \/ ReceiveBlank
  PROVE  /\ PlanAsked'
         /\ Asked' \in {Asks[request], Asks[request] \union Loses[request]}
<1> DEFINE r == request
<1>1. PICK old \in [MqttKey -> Value] :
         /\ Accept(old)
         /\ \/ ~blanked' /\ old = GetMqtt
            \/ blanked' /\ old = BlankMqtt /\ r.kind = "mqtt"
  BY ReadValue DEF Receive, ReceiveBlank
<1>2. /\ r \in Sendable /\ r.kind # "reboot" /\ Acceptable(r)
      /\ plan' = Writes(r, old) /\ request' = r /\ store' = store /\ pc' = "write"
  BY <1>1 DEF Accept, TypeOK
<1>3. View' = View
  BY <1>2, ViewKept
<1>4. Asked' = Asks[r] \union (IF blanked' THEN Loses[r] ELSE {})
  BY <1>2 DEF Asked
<1>5. CASE r.kind # "mqtt"
  <2>1. ~blanked'
    BY <1>1, <1>5
  <2>2. /\ \A a \in Asks[r] : \E i \in DOMAIN plan' : plan'[i] = a
        /\ \A i \in DOMAIN plan' : plan'[i] \in Asks[r]
    BY <1>2, <1>5, PlanAsks
  <2> QED
    BY <1>4, <2>1, <2>2 DEF PlanAsked
<1>6. CASE r.kind = "mqtt" /\ blanked'
  <2>1. old = BlankMqtt
    BY <1>1, <1>6
  <2>2. /\ \A a \in Asks[r] \union Loses[r] : \E i \in DOMAIN plan' : plan'[i] = a
        /\ \A i \in DOMAIN plan' : plan'[i] \in Asks[r] \union Loses[r]
    BY <1>2, <1>6, <2>1, MqttAsks
  <2> QED
    BY <1>4, <1>6, <2>2 DEF PlanAsked
<1>7. CASE r.kind = "mqtt" /\ ~blanked'
  <2>1. \A k \in MqttKey : Read(old, k) = View[k]
    <3>1. \A k \in MqttKey : old[k] = View[k]
      BY <1>1, <1>7, MqttKeys DEF GetMqtt, View
    <3>2. PrefixOK(View["mqtt_pfx"])
      BY DEF MqttInv
    <3> QED
      BY <3>1, <3>2 DEF Read, PrefixOK
  <2>2. /\ \A a \in Asks[r] : \E i \in DOMAIN plan' : plan'[i] = a
        /\ \A i \in DOMAIN plan' : \/ plan'[i] \in Asks[r]
                                   \/ \E k \in MqttKey : plan'[i] = <<k, Read(old, k)>>
    BY <1>2, <1>7, MqttAsks
  <2>3. \A i \in DOMAIN plan' : plan'[i] \in Asks[r] \/ plan'[i][2] = View[plan'[i][1]]
    BY <2>1, <2>2
  <2> QED
    BY <1>3, <1>4, <1>7, <2>2, <2>3 DEF PlanAsked
<1> QED
  BY <1>4, <1>5, <1>6, <1>7

LEMMA NextPlanAsked == TypeOK /\ Progress /\ MqttInv /\ PlanAsked /\ [Next]_vars => PlanAsked'
<1> SUFFICES ASSUME TypeOK, Progress, MqttInv, PlanAsked, [Next]_vars PROVE PlanAsked'
  OBVIOUS
<1>1. CASE Receive \/ ReceiveBlank
  BY <1>1, AcceptAsked
<1>2. CASE Write
  <2> DEFINE q == plan[written']
  <2>1. /\ written' \in DOMAIN plan /\ q[1] \in Key
        /\ \A k \in Key : View'[k] = IF k = q[1] THEN q[2] ELSE View[k]
    BY <1>2, WriteStores
  <2>2. pc = "write" /\ UNCHANGED <<pc, request, plan, blanked>>
    BY <1>2 DEF Write
  <2>3. Asked' = Asked
    BY <2>2 DEF Asked
  <2>4. ASSUME NEW i \in DOMAIN plan, plan[i][2] = View[plan[i][1]]
        PROVE  plan[i][2] = View'[plan[i][1]]
    <3>1. CASE plan[i][1] = q[1]
      <4>1. i = written'
        BY <2>1, <2>4, <3>1 DEF Progress
      <4> QED
        BY <2>1, <3>1, <4>1
    <3>2. CASE plan[i][1] # q[1]
      <4>1. plan[i][1] \in Key
        <5>1. plan[i] \in Key \X Value
          BY ElementOfSeq, LenProperties DEF TypeOK
        <5> QED
          BY <5>1
      <4> QED
        BY <2>1, <2>4, <3>2, <4>1
    <3> QED
      BY <3>1, <3>2
  <2> QED
    BY <2>2, <2>3, <2>4 DEF PlanAsked
<1>3. CASE \/ Boot \/ BootErased \/ Seed \/ SeedFails \/ Join \/ JoinFails \/ UserSetup
           \/ SomeArrival \/ Refuse \/ ReceiveFails \/ Answer \/ RebootLost
           \/ WriteFails \/ Restart \/ PowerFails \/ UNCHANGED vars
  <2>1. pc' = "write" => UNCHANGED <<pc, store, request, plan, blanked>>
    BY <1>3 DEF Boot, BootErased, Seed, SeedFails, SeedNext, Join, JoinFails, Serve, UserSetup,
       SomeArrival, Arrive, RebootRequest, Refuse, ReceiveFails, Answer, RebootLost, Answered,
       WriteFails, Restart, PowerFails, Stop, vars, requestVars
  <2>2. pc' = "write" => Asked' = Asked /\ View' = View
    BY <2>1, ViewKept DEF Asked
  <2> QED
    BY <2>1, <2>2 DEF PlanAsked
<1> QED
  BY <1>1, <1>2, <1>3 DEF Next

LEMMA Stutters ==
  ASSUME UNCHANGED <<View, Asked, answer>>
  PROVE  UNCHANGED Promised!vars
  BY DEF Promised!vars, View

\* Every step is a step of Settings, or none.
LEMMA StepImplements ==
  TypeOK /\ Progress /\ MqttInv /\ PlanAsked /\ [Next]_vars => [Promised!Next]_Promised!vars
<1> SUFFICES ASSUME TypeOK, Progress, MqttInv, PlanAsked, [Next]_vars
             PROVE  [Promised!Next]_Promised!vars
  OBVIOUS
<1>1. CASE \/ Boot \/ Seed \/ SeedFails \/ Join \/ JoinFails \/ UserSetup \/ SomeArrival
           \/ Refuse \/ ReceiveFails \/ UNCHANGED vars
  <2>1. /\ UNCHANGED store \/ Seed \/ SeedFails
        /\ UNCHANGED answer
        /\ \/ pc # "write" /\ pc' # "write"
           \/ UNCHANGED <<pc, request, blanked>>
    BY <1>1 DEF Boot, Seed, SeedFails, SeedNext, Join, JoinFails, Serve, UserSetup, SomeArrival, Arrive,
       RebootRequest, Refuse, ReceiveFails, vars, requestVars
  <2>2. UNCHANGED Asked
    BY <2>1 DEF Asked
  <2> QED
    BY <2>1, <2>2, ViewKept, Stutters
<1>2. CASE BootErased
  <2>1. View' = [k \in Key |-> Initial(k)]
    BY <1>2 DEF BootErased, View, GetOrDefault
  <2>2. answer # "pending" /\ answer' = "none" /\ UNCHANGED Asked
    BY <1>2 DEF BootErased, Asked, TypeOK
  <2>3. Promised!Erase
    BY <2>1, <2>2 DEF Promised!Erase, View
  <2> QED
    BY <2>3 DEF Promised!Next
<1>3. CASE Receive \/ ReceiveBlank
  <2>1. PICK old \in [MqttKey -> Value] : Accept(old)
    BY <1>3, ReadValue DEF Receive, ReceiveBlank
  <2>2. request \in Sendable /\ answer # "pending" /\ answer' = "pending"
    BY <2>1 DEF Accept, TypeOK
  <2>3. UNCHANGED View
    BY <2>1, ViewKept DEF Accept
  <2>4. Asked' \in {Asks[request], Asks[request] \union Loses[request]}
    BY <1>3, AcceptAsked
  <2>5. Promised!Begin
    BY <2>2, <2>3, <2>4 DEF Promised!Begin, View
  <2> QED
    BY <2>5 DEF Promised!Next
<1>4. CASE Write
  <2> DEFINE q == plan[written']
  <2>1. /\ written' \in DOMAIN plan /\ q[1] \in Key
        /\ \A k \in Key : View'[k] = IF k = q[1] THEN q[2] ELSE View[k]
    BY <1>4, WriteStores
  <2>2. pc = "write" /\ UNCHANGED <<pc, request, blanked, answer>> /\ answer = "pending"
    BY <1>4 DEF Write, TypeOK
  <2>3. UNCHANGED Asked
    BY <2>2 DEF Asked
  <2>4. View' = [View EXCEPT ![q[1]] = q[2]]
    BY <2>1 DEF View
  <2>5. CASE q \in Asked
    <3> HIDE DEF q
    <3>1. Promised!Apply
      BY <2>2, <2>3, <2>4, <2>5 DEF Promised!Apply, View
    <3> QED
      BY <3>1 DEF Promised!Next
  <2>6. CASE q[2] = View[q[1]]
    <3>1. UNCHANGED View
      BY <2>1, <2>6 DEF View
    <3> QED
      BY <2>2, <2>3, <3>1, Stutters
  <2> QED
    BY <2>1, <2>2, <2>5, <2>6 DEF PlanAsked
<1>5. CASE Answer \/ RebootLost
  <2>1. Answered
    BY <1>5 DEF Answer, RebootLost
  <2>2. \A p \in Asked : View[p[1]] = p[2]
    <3> SUFFICES ASSUME NEW i \in DOMAIN plan PROVE View[plan[i][1]] = plan[i][2]
      BY <2>1 DEF PlanAsked, Answered
    <3>1. store[plan[i][1]] = plan[i][2]
      BY <2>1, LenProperties DEF Answered, AllWritten, Progress, TypeOK
    <3>2. plan[i][1] \in Key /\ plan[i][2] \in Value
      <4>1. plan[i] \in Key \X Value
        BY ElementOfSeq, LenProperties DEF TypeOK
      <4> QED
        BY <4>1
    <3> QED
      BY <3>1, <3>2, StoreAssumption DEF View, GetOrDefault
  <2>3. answer = "pending" /\ answer' = "ok" /\ Asked' = {} /\ UNCHANGED store
    BY <2>1 DEF Answered, Asked, TypeOK
  <2>4. UNCHANGED View
    BY <2>3, ViewKept
  <2>5. Promised!Acknowledge
    BY <2>2, <2>3, <2>4 DEF Promised!Acknowledge, View
  <2> QED
    BY <2>5 DEF Promised!Next
<1>6. CASE WriteFails \/ Restart \/ PowerFails
  <2>1. CutShort /\ UNCHANGED store /\ Asked' = {}
    BY <1>6 DEF WriteFails, Restart, PowerFails, Stop, Asked
  <2>2. UNCHANGED View
    BY <2>1, ViewKept
  <2>3. CASE pc = "write"
    <3>1. answer = "pending" /\ answer' = "none"
      BY <2>1, <2>3 DEF CutShort, TypeOK
    <3>2. Promised!GiveUp
      BY <2>1, <2>2, <3>1 DEF Promised!GiveUp, View
    <3> QED
      BY <3>2 DEF Promised!Next
  <2>4. CASE pc # "write"
    <3>1. UNCHANGED <<Asked, answer>>
      BY <2>1, <2>4 DEF CutShort, Asked
    <3> QED
      BY <2>2, <3>1, Stutters
  <2> QED
    BY <2>3, <2>4
<1> QED
  BY <1>1, <1>2, <1>3, <1>4, <1>5, <1>6 DEF Next

\* The handlers, with their plans of writes, and the store implement Settings: a
\* request changes the settings its form asks for and no others (the unposted ones,
\* when they cannot be read), "ok" means that all of them were stored, and no
\* restart, failed seeding or failed write changes any other.
THEOREM Implements == Spec => SettingsSpec
<1>1. Init => Promised!Init
  BY DEF Init, Promised!Init, GetOrDefault, Key, Asked
<1>2. Init => MqttInv /\ PlanAsked
  BY InitMqttInv DEF Init, PlanAsked
<1>3. Spec => [](TypeOK /\ Progress /\ MqttInv /\ PlanAsked)
  BY <1>2, InitTypeOK, NextTypeOK, InitProgress, NextProgress, NextMqttInv, NextPlanAsked, PTL DEF Spec
<1> QED
  BY <1>1, <1>3, StepImplements, PTL DEF Spec, SettingsSpec, Promised!Spec

-----------------------------------------------------------------------------
\* What must eventually happen.  The hypotheses RestartPossible and StepsPossible say
\* when the steps that fairness drives can be taken, for want of a rule about ENABLED.

\* A restart that is due stays due until it comes.
LEMMA RebootStays == rebootDue /\ [Next]_vars => rebootDue' \/ (pc = "off")'
  BY DEF Next, Boot, BootErased, Seed, SeedFails, SeedNext, Join, JoinFails, Serve, UserSetup,
     SomeArrival, Arrive, RebootRequest, ScheduleReboot, Refuse, Receive, ReceiveBlank, Accept,
     ReceiveFails, Write, WriteFails, Answer, RebootLost, Answered, Restart, PowerFails, Stop,
     vars

\* The interface is up when requests are served, only then is a restart due, and no
\* request asks for more than five writes.
Served == /\ mode = "none" <=> pc \in {"off", "seed", "join"}
          /\ rebootDue => pc \in {"idle", "body", "write"}
          /\ pc = "write" => Len(plan) <= 5

LEMMA ShortPlans == ASSUME NEW w, NEW a PROVE Len(<<w>>) = 1 /\ Len(<<w, a>>) = 2
  OBVIOUS

LEMMA FewWrites ==
  ASSUME NEW r \in Sendable, r.kind # "reboot", Acceptable(r), NEW old \in [MqttKey -> Value]
  PROVE  Len(Writes(r, old)) <= 5
<1>1. CASE IsWifi(r)
  <2> DEFINE s == <<"wifi_ssid", Posted(r, "ssid")>>
             p == <<"wifi_pass", PostedOrEmpty(r, "password")>>
  <2>1. Writes(r, old) = <<s, p>>
    BY <1>1, WritesPlan
  <2> HIDE DEF s, p
  <2>2. Len(<<s, p>>) = 2
    BY ShortPlans
  <2> QED
    BY <2>1, <2>2
<1>2. CASE r.kind = "passwords"
  <2>1. Writes(r, old) = Passwords(r) /\ (Filled(r, "wakeup") \/ Filled(r, "admin"))
    BY <1>2 DEF Writes, Acceptable
  <2> DEFINE w == <<"httpd_hash", Sha256(Posted(r, "wakeup"))>>
             a == <<"admin_hash", Sha256(Posted(r, "admin"))>>
  <2>2. Passwords(r) = <<w, a>> \/ Passwords(r) = <<w>> \/ Passwords(r) = <<a>>
    BY <2>1, PasswordPlans
  <2> HIDE DEF w, a
  <2>3. Len(<<w, a>>) = 2 /\ Len(<<w>>) = 1 /\ Len(<<a>>) = 1
    BY ShortPlans
  <2>4. Len(Writes(r, old)) = 1 \/ Len(Writes(r, old)) = 2
    BY <2>1, <2>2, <2>3, Zenon
  <2>5. ASSUME NEW n, n = 1 \/ n = 2 PROVE n <= 5
    BY <2>5
  <2> QED
    BY <2>4, <2>5, Zenon
<1>3. CASE r.kind = "hostname"
  BY <1>3 DEF Writes, SetHostname
<1>4. CASE r.kind = "mqtt"
  BY <1>4 DEF Writes, SetMqtt
<1> QED
  BY <1>1, <1>2, <1>3, <1>4, Kinds DEF Kind, IsWifi

LEMMA NextServed == TypeOK /\ Served /\ [Next]_vars => Served'
<1> SUFFICES ASSUME TypeOK, Served, [Next]_vars PROVE Served'
  OBVIOUS
<1>1. CASE Receive \/ ReceiveBlank
  <2>1. PICK old \in [MqttKey -> Value] : Accept(old)
    BY <1>1, ReadValue DEF Receive, ReceiveBlank
  <2>2. request \in Sendable /\ request.kind # "reboot" /\ Acceptable(request)
    BY <2>1 DEF Accept, TypeOK
  <2>3. Len(plan') <= 5
    BY <2>1, <2>2, FewWrites DEF Accept
  <2> QED
    BY <2>1, <2>3 DEF Accept, Served
<1>2. CASE \/ Boot \/ BootErased \/ Seed \/ SeedFails \/ Join \/ JoinFails
  BY <1>2 DEF Boot, BootErased, Seed, SeedFails, SeedNext, Join, JoinFails, Serve, Served
<1>3. CASE \/ UserSetup \/ SomeArrival \/ Refuse \/ ReceiveFails
  BY <1>3 DEF UserSetup, SomeArrival, Arrive, RebootRequest, ScheduleReboot, requestVars, Refuse,
     ReceiveFails, Served
<1>4. CASE Write \/ WriteFails \/ Answer \/ RebootLost
  BY <1>4 DEF Write, WriteFails, Answer, RebootLost, Answered, ScheduleReboot, Served
<1>5. CASE Restart \/ PowerFails
  BY <1>5 DEF Restart, PowerFails, Stop, Served
<1>6. CASE UNCHANGED vars
  BY <1>6 DEF vars, Served
<1> QED
  BY <1>1, <1>2, <1>3, <1>4, <1>5, <1>6 DEF Next

LEMMA ServedAlways == Spec => []Served
<1>1. Init => Served
  BY DEF Init, Served
<1> QED
  BY <1>1, NextServed, TypeCorrect, PTL DEF Spec

\* A device on its way through a run, as far as the setup is concerned.
Seeding(k) == pc = "seed" /\ seeded = k
Reading == pc = "body" /\ ~rebootDue
Writing(k) == pc = "write" /\ ~rebootDue /\ Len(plan) = written + k
Settled == pc = "idle" /\ mode = "sta" /\ ~rebootDue
Waiting == pc = "idle" /\ mode = "ap" /\ ~rebootDue

\* What fairness drives, and the user does, is all that happens without trouble.
LEMMA CalmSteps ==
  ASSUME [Next]_vars, [~Trouble]_vars
  PROVE  \/ Boot \/ Seed \/ Join \/ UserSetup \/ Refuse \/ Receive \/ Write \/ Answer \/ Restart
         \/ rebootDue /\ (RebootLost \/ PowerFails)
         \/ UNCHANGED vars
  BY DEF Next, Trouble

\* From the boot to the first request.
LEMMA StartSteps ==
  ASSUME TypeOK, Served, [Next]_vars, [~Trouble]_vars
  PROVE  /\ pc = "off" => (pc = "off")' \/ Seeding(0)'
         /\ pc = "off" /\ Boot => Seeding(0)'
         /\ \A k \in 0 .. 3 : /\ Seeding(k) => Seeding(k)' \/ Seeding(k + 1)'
                              /\ Seeding(k) /\ Seed => Seeding(k + 1)'
         /\ Seeding(4) => Seeding(4)' \/ (pc = "join")'
         /\ Seeding(4) /\ Seed => (pc = "join")'
         /\ pc = "join" => (pc = "join")' \/ Settled' \/ Waiting'
         /\ pc = "join" /\ Join => Settled' \/ Waiting'
<1>0. Len(SeededKeys) = 5
  BY DEF SeededKeys
<1>1. CASE Boot
  BY <1>1 DEF Boot, Seed, SeedNext, Join, Serve, Seeding
<1>2. CASE Seed
  <2>1. pc = "seed" /\ seeded' = seeded + 1 /\ pc' = IF seeded' = 5 THEN "join" ELSE "seed"
    BY <1>0, <1>2 DEF Seed, SeedNext
  <2> QED
    BY <2>1 DEF Seeding
<1>3. CASE Join
  <2>1. pc = "join" /\ pc' = "idle" /\ mode' \in {"sta", "ap"} /\ rebootDue' = rebootDue
    BY <1>3 DEF Join, Serve
  <2> QED
    BY <2>1 DEF Settled, Waiting, Seeding, Served
<1>4. CASE \/ UserSetup \/ Refuse \/ Receive \/ Write \/ Answer \/ Restart
           \/ rebootDue /\ (RebootLost \/ PowerFails)
  <2>1. pc \notin {"off", "seed", "join"}
    BY <1>4 DEF UserSetup, Arrive, Refuse, Receive, Accept, Write, Answer, Answered, Restart,
       RebootLost, Served
  <2> QED
    BY <2>1 DEF Seeding
<1>5. CASE UNCHANGED vars
  BY <1>5 DEF vars, Seeding, Boot, Seed, SeedNext, Join, Serve
<1> QED
  BY <1>1, <1>2, <1>3, <1>4, <1>5, CalmSteps

\* Requests, while no restart is due.
LEMMA RequestSteps ==
  ASSUME TypeOK, Served, [Next]_vars, [~Trouble]_vars
  PROVE  /\ Settled => Settled'
         /\ Waiting => Waiting' \/ Reading'
         /\ Reading => Reading' \/ Settled' \/ Waiting' \/ \E k \in 0 .. 5 : Writing(k)'
         /\ Writing(0) => Writing(0)' \/ Settled' \/ Waiting' \/ rebootDue'
         /\ Writing(0) /\ Answer => Settled' \/ Waiting' \/ rebootDue'
         /\ \A k \in 1 .. 5 : /\ Writing(k) => Writing(k)' \/ Writing(k - 1)'
                              /\ Writing(k) /\ Write => Writing(k - 1)'
<1>0. Served'
  BY NextServed
<1>1. CASE Boot \/ Seed \/ Join
  <2>1. pc \in {"off", "seed", "join"}
    BY <1>1 DEF Boot, Seed, SeedNext, Join, Serve
  <2> QED
    BY <2>1 DEF Settled, Waiting, Reading, Writing
<1>2. CASE UserSetup
  BY <1>2 DEF UserSetup, Arrive, Settled, Waiting, Reading, Writing
<1>3. CASE Refuse
  BY <1>3 DEF Refuse, Answer, Answered, Write, Served, TypeOK, Settled, Waiting, Reading, Writing
<1>4. CASE Receive
  <2>1. /\ pc = "body" /\ pc' = "write" /\ written' = 0 /\ rebootDue' = rebootDue
        /\ plan' = Writes(request, GetMqtt)
    BY <1>4 DEF Receive, Accept
  <2>2. Len(plan') <= 5 /\ Len(plan') \in Nat
    <3>1. plan' \in Seq(Key \X Value)
      BY NextTypeOK DEF TypeOK
    <3> QED
      BY <1>0, <2>1, <3>1, LenProperties DEF Served
  <2>3. PICK n \in 0 .. 5 : n = Len(plan')
    <3>1. ASSUME NEW m \in Nat, m <= 5 PROVE \E n \in 0 .. 5 : n = m
      BY <3>1
    <3> QED
      BY <2>2, <3>1, Zenon
  <2>4. ~rebootDue => Writing(n)'
    BY <2>1, <2>3 DEF Writing
  <2> QED
    BY <2>1, <2>4 DEF Settled, Waiting, Reading, Writing
<1>5. CASE Write
  <2>1. /\ pc = "write" /\ pc' = "write" /\ written' = written + 1 /\ written < Len(plan)
        /\ rebootDue' = rebootDue /\ plan' = plan
    BY <1>5 DEF Write
  <2>2. written \in Nat /\ Len(plan) \in Nat
    BY LenProperties DEF TypeOK
  <2>3. \A k \in 1 .. 5 : Writing(k) => Writing(k - 1)'
    BY <2>1, <2>2 DEF Writing
  <2>4. ~Writing(0)
    BY <2>1, <2>2 DEF Writing
  <2> QED
    BY <2>1, <2>3, <2>4 DEF Settled, Waiting, Reading
<1>6. CASE Answer
  <2>1. pc = "write" /\ pc' = "idle" /\ mode' = mode /\ rebootDue' \in BOOLEAN /\ written = Len(plan)
    BY <1>6, NextTypeOK DEF Answer, Answered, AllWritten, TypeOK
  <2>2. written \in Nat
    BY LenProperties DEF TypeOK
  <2>3. \A k \in 1 .. 5 : ~Writing(k)
    BY <2>1, <2>2 DEF Writing
  <2>4. Settled' \/ Waiting' \/ rebootDue'
    BY <2>1 DEF Served, TypeOK, Settled, Waiting
  <2> QED
    BY <2>1, <2>3, <2>4 DEF Settled, Waiting, Reading
<1>7. CASE rebootDue
  BY <1>7 DEF Settled, Waiting, Reading, Writing
<1>8. CASE UNCHANGED vars
  <2>1. ~Answer /\ ~Write
    <3>1. written \in Nat /\ written' = written /\ pc' = pc
      BY <1>8, LenProperties DEF vars, TypeOK
    <3> QED
      BY <3>1 DEF Answer, Answered, Write
  <2> QED
    BY <1>8, <2>1 DEF vars, Settled, Waiting, Reading, Writing
<1> QED
  BY <1>1, <1>2, <1>3, <1>4, <1>5, <1>6, <1>7, <1>8, CalmSteps DEF Restart

\* The user's network has a name, and the encoding leaves both texts as they are.
PlainHome == /\ Home["ssid"] # Empty
             /\ Home["ssid"] \notin Special
             /\ Home["password"] \notin Special

\* A device on its way to the user's network.
Entering == pc = "body" /\ request = HomeForm /\ ~rebootDue
Entered(w) == pc = "write" /\ request = HomeForm /\ ~rebootDue /\ written = w
Saved == rebootDue /\ AtHome /\ (pc \in {"body", "write"} => request = HomeForm)
Returning == AtHome /\ pc \in {"off", "seed", "join"}

\* What the server finds in the form of the user's setup.
LEMMA HomePosted ==
  ASSUME PlainHome
  PROVE  /\ HomeForm \in Sendable /\ HomeForm.kind = "setup" /\ IsWifi(HomeForm)
         /\ Posted(HomeForm, "ssid") = Home["ssid"]
         /\ PostedOrEmpty(HomeForm, "password") = Home["password"]
         /\ Acceptable(HomeForm)
<1>1. DOMAIN Home = {"ssid", "password"}
  BY ProvisioningAssumption
<1> QED
  BY <1>1 DEF PlainHome, HomeForm, Sendable, IsWifi, Posted, PostedOrEmpty, Has, Acceptable, Filled

LEMMA HomePlan ==
  ASSUME PlainHome, PlanOfRequest, pc = "write", request = HomeForm
  PROVE  /\ Len(plan) = 2
         /\ plan[1][1] = "wifi_ssid" /\ plan[1][2] = Home["ssid"]
         /\ plan[2][1] = "wifi_pass" /\ plan[2][2] = Home["password"]
<1>1. plan = << <<"wifi_ssid", Home["ssid"]>>, <<"wifi_pass", Home["password"]>> >>
  BY HomePosted DEF PlanOfRequest
<1> DEFINE s == <<"wifi_ssid", Home["ssid"]>>
           p == <<"wifi_pass", Home["password"]>>
<1>2. s[1] = "wifi_ssid" /\ s[2] = Home["ssid"] /\ p[1] = "wifi_pass" /\ p[2] = Home["password"]
  OBVIOUS
<1>3. plan = <<s, p>>
  BY <1>1
<1> HIDE DEF s, p
<1>4. Len(plan) = 2 /\ plan[1] = s /\ plan[2] = p
  BY <1>3
<1> QED
  BY <1>2, <1>4

\* The device finds its network when both keys hold what the user typed.
LEMMA HomeStored ==
  ASSUME PlainHome, store["wifi_ssid"] = Home["ssid"], store["wifi_pass"] = Home["password"]
  PROVE  AtHome
  BY ProvisioningAssumption, StoreAssumption, TextValue DEF PlainHome, AtHome, HasWifi

\* What is stored of the user's network stays while the device restarts, and while
\* the user repeats the setup.
LEMMA HomeKept ==
  ASSUME PlainHome, TypeOK, PlanOfRequest, AtHome, [Next]_vars, [~Trouble]_vars,
         pc = "write" => request = HomeForm
  PROVE  AtHome'
<1>1. store["wifi_ssid"] = Home["ssid"] /\ store["wifi_pass"] = Home["password"]
  BY DEF AtHome
<1>2. CASE Seed
  <2>1. \A j \in Key : store'[j] = store[j] \/ store[j] = Absent
    BY <1>2, SeedChanges DEF Seed, SeedNext
  <2>2. store["wifi_ssid"] # Absent /\ store["wifi_pass"] # Absent
    BY DEF AtHome, HasWifi
  <2>3. UNCHANGED <<store["wifi_ssid"], store["wifi_pass"]>>
    BY <2>1, <2>2 DEF Key
  <2> QED
    BY <2>3 DEF AtHome, HasWifi
<1>3. CASE Write
  <2>1. pc = "write" /\ written' = written + 1 /\ written < Len(plan)
        /\ store' = [store EXCEPT ![plan[written'][1]] = plan[written'][2]]
    BY <1>3 DEF Write
  <2>2. Len(plan) = 2
        /\ plan[1][1] = "wifi_ssid" /\ plan[1][2] = Home["ssid"]
        /\ plan[2][1] = "wifi_pass" /\ plan[2][2] = Home["password"]
    BY <2>1, HomePlan
  <2>3. written' = 1 \/ written' = 2
    <3>1. written \in Nat
      BY LenProperties DEF TypeOK
    <3> QED
      BY <2>1, <2>2, <3>1
  <2>4. UNCHANGED <<store["wifi_ssid"], store["wifi_pass"]>>
    BY <1>1, <2>1, <2>2, <2>3 DEF TypeOK, Key
  <2> QED
    BY <2>4 DEF AtHome, HasWifi
<1>4. CASE UNCHANGED store
  BY <1>4 DEF AtHome, HasWifi
<1> QED
  BY <1>2, <1>3, <1>4, CalmSteps
     DEF Boot, Join, Serve, UserSetup, Arrive, Refuse, Receive, Accept, Answer, RebootLost, Answered,
         Restart, PowerFails, Stop, vars

\* From the setup page to the network.
LEMMA HomeSteps ==
  ASSUME PlainHome, TypeOK, Progress, PlanOfRequest, Served, [Next]_vars, [~Trouble]_vars
  PROVE  /\ Waiting => Waiting' \/ Entering'
         /\ Waiting /\ UserSetup => Entering'
         /\ Entering => Entering' \/ Entered(0)'
         /\ \A w \in 0 .. 1 : /\ Entered(w) => Entered(w)' \/ Entered(w + 1)'
                              /\ Entered(w) /\ Write => Entered(w + 1)'
         /\ Entered(2) => Entered(2)' \/ Saved'
         /\ Entered(2) /\ Answer => Saved'
         /\ Saved => Saved' \/ (Returning /\ pc = "off")'
         /\ Returning => Returning' \/ Settled'
<1> DEFINE Steps ==
         /\ Waiting => Waiting' \/ Entering'
         /\ Waiting /\ UserSetup => Entering'
         /\ Entering => Entering' \/ Entered(0)'
         /\ \A w \in 0 .. 1 : /\ Entered(w) => Entered(w)' \/ Entered(w + 1)'
                              /\ Entered(w) /\ Write => Entered(w + 1)'
         /\ Entered(2) => Entered(2)' \/ Saved'
         /\ Entered(2) /\ Answer => Saved'
         /\ Saved => Saved' \/ (Returning /\ pc = "off")'
         /\ Returning => Returning' \/ Settled'
<1> SUFFICES Steps
  OBVIOUS
<1> USE DEF Waiting, Entering, Entered, Returning
<1>1. CASE Boot \/ Seed
  <2>1. pc \in {"off", "seed"} /\ pc' \in {"seed", "join"}
    BY <1>1 DEF Boot, Seed, SeedNext
  <2>2. AtHome => AtHome'
    BY <2>1, HomeKept
  <2> QED
    BY <2>1, <2>2 DEF Saved, Served
<1>2. CASE Join
  <2>1. pc = "join" /\ pc' = "idle" /\ rebootDue' = rebootDue /\ (AtHome => mode' = "sta")
    BY <1>2 DEF Join, Serve
  <2> QED
    BY <2>1 DEF Saved, Settled, Served
<1>3. CASE UserSetup
  <2>1. /\ pc = "idle" /\ pc' = "body" /\ request' = HomeForm /\ rebootDue' = rebootDue
        /\ UNCHANGED <<store, mode>>
    BY <1>3 DEF UserSetup, Arrive
  <2>2. AtHome => AtHome'
    BY <2>1, HomeKept
  <2> QED
    BY <2>1, <2>2 DEF Saved
<1>4. CASE Refuse
  <2>1. pc = "body" /\ pc' = "idle" /\ request # HomeForm
    BY <1>4, HomePosted DEF Refuse
  <2> QED
    BY <2>1 DEF Saved
<1>5. CASE Receive
  <2>1. /\ pc = "body" /\ pc' = "write" /\ request' = request /\ written' = 0
        /\ rebootDue' = rebootDue
    BY <1>5 DEF Receive, Accept
  <2>2. AtHome => AtHome'
    BY <2>1, HomeKept
  <2> QED
    BY <2>1, <2>2 DEF Saved
<1>6. CASE Write
  <2>1. /\ pc = "write" /\ pc' = "write" /\ request' = request /\ written' = written + 1
        /\ rebootDue' = rebootDue /\ written < Len(plan)
    BY <1>6 DEF Write
  <2>2. AtHome /\ request = HomeForm => AtHome'
    BY <2>1, HomeKept
  <2>3. ~Entered(2)
    <3>1. request = HomeForm => Len(plan) = 2
      BY <2>1, HomePlan
    <3>2. written = 2 => Len(plan) # 2
      <4>1. written < Len(plan)
        BY <2>1
      <4>2. ASSUME NEW m, NEW n, m < n, m = 2, n = 2 PROVE FALSE
        BY <4>2
      <4> QED
        BY <4>1, <4>2, Zenon
    <3> QED
      BY <3>1, <3>2, Zenon
  <2> QED
    BY <2>1, <2>2, <2>3 DEF Saved
<1>7. CASE Answer
  <2>1. pc = "write" /\ pc' = "idle" /\ written = Len(plan) /\ UNCHANGED store
    BY <1>7 DEF Answer, Answered, AllWritten
  <2>2. request = HomeForm => rebootDue' /\ AtHome
    <3> SUFFICES ASSUME request = HomeForm PROVE rebootDue' /\ AtHome
      OBVIOUS
    <3>1. rebootDue'
      BY <1>7, HomePosted DEF Answer, ScheduleReboot
    <3>2. Len(plan) = 2
          /\ plan[1][1] = "wifi_ssid" /\ plan[1][2] = Home["ssid"]
          /\ plan[2][1] = "wifi_pass" /\ plan[2][2] = Home["password"]
      BY <2>1, HomePlan
    <3>3. store[plan[1][1]] = plan[1][2] /\ store[plan[2][1]] = plan[2][2]
      <4>1. 1 \in 1 .. written /\ 2 \in 1 .. written
        BY <2>1, <3>2
      <4> QED
        BY <4>1 DEF Progress
    <3> QED
      BY <3>1, <3>2, <3>3, HomeStored
  <2>3. AtHome <=> AtHome'
    BY <2>1 DEF AtHome, HasWifi
  <2>4. ~Entered(0) /\ ~Entered(1)
    BY <2>1, HomePlan
  <2> QED
    BY <2>1, <2>2, <2>3, <2>4 DEF Saved
<1>8. CASE Restart \/ (rebootDue /\ PowerFails)
  <2>1. rebootDue /\ pc' = "off" /\ UNCHANGED store
    BY <1>8 DEF Restart, PowerFails, Stop
  <2>2. AtHome <=> AtHome'
    BY <2>1 DEF AtHome, HasWifi
  <2> QED
    BY <2>1, <2>2 DEF Saved, Served
<1>9. CASE rebootDue /\ RebootLost
  <2>1. rebootDue /\ rebootDue' /\ pc = "write" /\ pc' = "idle" /\ UNCHANGED store
    BY <1>9 DEF RebootLost, Answered
  <2>2. AtHome <=> AtHome'
    BY <2>1 DEF AtHome, HasWifi
  <2> QED
    BY <2>1, <2>2 DEF Saved
<1>10. CASE UNCHANGED vars
  <2>1. UNCHANGED <<store, pc, mode, request, plan, written, rebootDue>>
    BY <1>10 DEF vars
  <2>2. AtHome <=> AtHome'
    BY <2>1 DEF AtHome, HasWifi
  <2>3. ~Answer /\ ~Write /\ ~UserSetup
    <3>1. written \in Nat
      BY LenProperties DEF TypeOK
    <3> QED
      BY <2>1, <3>1 DEF Answer, Answered, Write, UserSetup, Arrive
  <2> QED
    BY <2>1, <2>2, <2>3 DEF Saved
<1> HIDE DEF Steps
<1> QED
  BY <1>1, <1>2, <1>3, <1>4, <1>5, <1>6, <1>7, <1>8, <1>9, <1>10, CalmSteps

\* A run without trouble, in which every step that fairness drives can be taken.
Sound == TypeOK /\ Progress /\ PlanOfRequest /\ Served
CalmRun == /\ [][Next]_vars /\ [][~Trouble]_vars /\ Fairness
           /\ []Sound /\ []RestartPossible /\ []StepsPossible

\* Every boot ends in the network or in the access point.
LEMMA BootsEnd == CalmRun => (pc \in {"off", "seed", "join"} ~> Settled \/ Waiting)
<1>1. ASSUME Sound, [Next]_vars, [~Trouble]_vars
      PROVE  /\ pc = "off" => (pc = "off")' \/ Seeding(0)'
             /\ pc = "off" /\ Boot => Seeding(0)'
             /\ Seeding(0) => Seeding(0)' \/ Seeding(1)'
             /\ Seeding(0) /\ Seed => Seeding(1)'
             /\ Seeding(1) => Seeding(1)' \/ Seeding(2)'
             /\ Seeding(1) /\ Seed => Seeding(2)'
             /\ Seeding(2) => Seeding(2)' \/ Seeding(3)'
             /\ Seeding(2) /\ Seed => Seeding(3)'
             /\ Seeding(3) => Seeding(3)' \/ Seeding(4)'
             /\ Seeding(3) /\ Seed => Seeding(4)'
             /\ Seeding(4) => Seeding(4)' \/ (pc = "join")'
             /\ Seeding(4) /\ Seed => (pc = "join")'
             /\ pc = "join" => (pc = "join")' \/ Settled' \/ Waiting'
             /\ pc = "join" /\ Join => Settled' \/ Waiting'
  BY <1>1, StartSteps DEF Sound
<1>2. Sound /\ [Next]_vars /\ [~Trouble]_vars
      => /\ pc = "off" => (pc = "off")' \/ Seeding(0)'
         /\ pc = "off" /\ <<Boot>>_vars => Seeding(0)'
         /\ Seeding(0) => Seeding(0)' \/ Seeding(1)'
         /\ Seeding(0) /\ <<Seed>>_vars => Seeding(1)'
         /\ Seeding(1) => Seeding(1)' \/ Seeding(2)'
         /\ Seeding(1) /\ <<Seed>>_vars => Seeding(2)'
         /\ Seeding(2) => Seeding(2)' \/ Seeding(3)'
         /\ Seeding(2) /\ <<Seed>>_vars => Seeding(3)'
         /\ Seeding(3) => Seeding(3)' \/ Seeding(4)'
         /\ Seeding(3) /\ <<Seed>>_vars => Seeding(4)'
         /\ Seeding(4) => Seeding(4)' \/ (pc = "join")'
         /\ Seeding(4) /\ <<Seed>>_vars => (pc = "join")'
         /\ pc = "join" => (pc = "join")' \/ Settled' \/ Waiting'
         /\ pc = "join" /\ <<Join>>_vars => Settled' \/ Waiting'
  BY <1>1
<1>3. StepsPossible
      => /\ pc = "off" => ENABLED <<Boot>>_vars
         /\ Seeding(0) \/ Seeding(1) \/ Seeding(2) \/ Seeding(3) \/ Seeding(4)
            => ENABLED <<Seed>>_vars
         /\ pc = "join" => ENABLED <<Join>>_vars
  BY DEF StepsPossible, Seeding
<1>4. /\ Sound /\ pc \in {"off", "seed", "join"}
         => pc = "off" \/ Seeding(0) \/ Seeding(1) \/ Seeding(2) \/ Seeding(3) \/ Seeding(4)
            \/ pc = "join"
  <2>1. Len(SeededKeys) = 5
    BY DEF SeededKeys
  <2> QED
    BY <2>1 DEF Sound, TypeOK, Seeding
<1> QED
  BY <1>2, <1>3, <1>4, PTL DEF CalmRun, Fairness

\* Every request ends, or a restart becomes due, if no client stalls the server for ever.
LEMMA RequestsEnd ==
  CalmRun /\ []<>(pc # "body")
  => (Reading \/ (pc = "write" /\ ~rebootDue) ~> Settled \/ Waiting \/ rebootDue)
<1> DEFINE Leaves == Settled \/ Waiting \/ rebootDue
           Writes05 == \/ Writing(0) \/ Writing(1) \/ Writing(2)
                       \/ Writing(3) \/ Writing(4) \/ Writing(5)
<1>1. ASSUME Sound, [Next]_vars, [~Trouble]_vars
      PROVE  /\ Reading => Reading' \/ Leaves' \/ Writes05'
             /\ Writing(5) => Writing(5)' \/ Writing(4)'
             /\ Writing(5) /\ Write => Writing(4)'
             /\ Writing(4) => Writing(4)' \/ Writing(3)'
             /\ Writing(4) /\ Write => Writing(3)'
             /\ Writing(3) => Writing(3)' \/ Writing(2)'
             /\ Writing(3) /\ Write => Writing(2)'
             /\ Writing(2) => Writing(2)' \/ Writing(1)'
             /\ Writing(2) /\ Write => Writing(1)'
             /\ Writing(1) => Writing(1)' \/ Writing(0)'
             /\ Writing(1) /\ Write => Writing(0)'
             /\ Writing(0) => Writing(0)' \/ Leaves'
             /\ Writing(0) /\ Answer => Leaves'
  <2>1. Reading => Reading' \/ Leaves' \/ Writes05'
    <3>1. ASSUME NEW k \in 0 .. 5, Writing(k)' PROVE Writes05'
      <4>1. k = 0 \/ k = 1 \/ k = 2 \/ k = 3 \/ k = 4 \/ k = 5
        OBVIOUS
      <4> QED
        BY <3>1, <4>1
    <3> QED
      BY <1>1, <3>1, RequestSteps, Zenon DEF Sound
  <2>2. /\ Writing(0) => Writing(0)' \/ Leaves'
        /\ Writing(0) /\ Answer => Leaves'
    BY <1>1, RequestSteps, Zenon DEF Sound
  <2>3. \A k \in 1 .. 5 : /\ Writing(k) => Writing(k)' \/ Writing(k - 1)'
                          /\ Writing(k) /\ Write => Writing(k - 1)'
    BY <1>1, RequestSteps, Zenon DEF Sound
  <2> HIDE DEF Leaves, Writes05
  <2> QED
    BY <2>1, <2>2, <2>3
<1>2. Sound /\ [Next]_vars /\ [~Trouble]_vars
      => /\ Reading => Reading' \/ Leaves' \/ Writes05'
         /\ Writing(5) => Writing(5)' \/ Writing(4)'
         /\ Writing(5) /\ <<Write>>_vars => Writing(4)'
         /\ Writing(4) => Writing(4)' \/ Writing(3)'
         /\ Writing(4) /\ <<Write>>_vars => Writing(3)'
         /\ Writing(3) => Writing(3)' \/ Writing(2)'
         /\ Writing(3) /\ <<Write>>_vars => Writing(2)'
         /\ Writing(2) => Writing(2)' \/ Writing(1)'
         /\ Writing(2) /\ <<Write>>_vars => Writing(1)'
         /\ Writing(1) => Writing(1)' \/ Writing(0)'
         /\ Writing(1) /\ <<Write>>_vars => Writing(0)'
         /\ Writing(0) => Writing(0)' \/ Leaves'
         /\ Writing(0) /\ <<Answer>>_vars => Leaves'
  <2> HIDE DEF Leaves, Writes05
  <2> QED
    BY <1>1
<1>3. Sound /\ StepsPossible
      => /\ \/ Writing(1) \/ Writing(2) \/ Writing(3) \/ Writing(4) \/ Writing(5)
            => ENABLED <<Write>>_vars
         /\ Writing(0) => ENABLED <<Answer>>_vars
  <2> SUFFICES ASSUME Sound, StepsPossible
               PROVE  /\ \/ Writing(1) \/ Writing(2) \/ Writing(3) \/ Writing(4) \/ Writing(5)
                         => ENABLED <<Write>>_vars
                      /\ Writing(0) => ENABLED <<Answer>>_vars
    OBVIOUS
  <2>1. written \in Nat /\ Len(plan) \in Nat
    BY LenProperties DEF Sound, TypeOK
  <2>2. Writing(0) => pc = "write" /\ AllWritten
    BY <2>1 DEF Writing, AllWritten
  <2>3. \A k \in 1 .. 5 : Writing(k) => pc = "write" /\ written < Len(plan)
    BY <2>1 DEF Writing
  <2> QED
    BY <2>2, <2>3 DEF StepsPossible
<1>4. Sound /\ pc = "write" /\ ~rebootDue => Writes05
  <2> SUFFICES ASSUME Sound, pc = "write", ~rebootDue PROVE Writes05
    OBVIOUS
  <2>1. written \in 0 .. Len(plan) /\ Len(plan) \in Nat /\ Len(plan) <= 5
    BY LenProperties DEF Sound, TypeOK, Served
  <2> QED
    BY <2>1 DEF Writing
<1>5. Reading => ~(pc # "body")
  BY DEF Reading
<1> HIDE DEF Leaves, Writes05
<1>6. Writes05 => \/ Writing(0) \/ Writing(1) \/ Writing(2)
                  \/ Writing(3) \/ Writing(4) \/ Writing(5)
  BY DEF Writes05
<1>7. CalmRun => (Writes05 ~> Leaves)
  BY <1>2, <1>3, <1>6, PTL DEF CalmRun, Fairness
<1>8. CalmRun /\ []<>(pc # "body") => (Reading \/ (pc = "write" /\ ~rebootDue) ~> Leaves)
  BY <1>2, <1>4, <1>5, <1>7, PTL DEF CalmRun
<1> QED
  BY <1>8, PTL DEF Leaves

\* A restart that is due comes.
LEMMA RestartsCome == CalmRun => (rebootDue ~> pc = "off")
<1>1. <<Restart>>_vars => (pc = "off")'
  BY DEF Restart, Stop
<1>2. RestartPossible /\ rebootDue => ENABLED <<Restart>>_vars
  BY DEF RestartPossible
<1> QED
  BY <1>1, <1>2, RebootStays, PTL DEF CalmRun, Fairness

\* The user who finds the access point gets the device into the network.
LEMMA SetupWorks ==
  ASSUME PlainHome
  PROVE  CalmRun /\ []<>(pc # "body") => (Waiting ~> Settled)
<1> DEFINE Home0 == Returning /\ pc = "off"
<1>1. ASSUME Sound, [Next]_vars, [~Trouble]_vars
      PROVE  /\ Waiting => Waiting' \/ Entering'
             /\ Waiting /\ UserSetup => Entering'
             /\ Entering => Entering' \/ Entered(0)'
             /\ Entered(0) => Entered(0)' \/ Entered(1)'
             /\ Entered(0) /\ Write => Entered(1)'
             /\ Entered(1) => Entered(1)' \/ Entered(2)'
             /\ Entered(1) /\ Write => Entered(2)'
             /\ Entered(2) => Entered(2)' \/ Saved'
             /\ Entered(2) /\ Answer => Saved'
             /\ Saved => Saved' \/ Home0'
             /\ Returning => Returning' \/ Settled'
  <2>1. /\ Waiting => Waiting' \/ Entering'
        /\ Waiting /\ UserSetup => Entering'
        /\ Entering => Entering' \/ Entered(0)'
        /\ \A w \in 0 .. 1 : /\ Entered(w) => Entered(w)' \/ Entered(w + 1)'
                             /\ Entered(w) /\ Write => Entered(w + 1)'
        /\ Entered(2) => Entered(2)' \/ Saved'
        /\ Entered(2) /\ Answer => Saved'
        /\ Saved => Saved' \/ Home0'
        /\ Returning => Returning' \/ Settled'
    BY <1>1, HomeSteps, Zenon DEF Sound
  <2> HIDE DEF Home0
  <2> QED
    BY <2>1
<1> HIDE DEF Home0
<1>2. Sound /\ [Next]_vars /\ [~Trouble]_vars
      => /\ Waiting => Waiting' \/ Entering'
         /\ Waiting /\ <<UserSetup>>_vars => Entering'
         /\ Entering => Entering' \/ Entered(0)'
         /\ Entered(0) => Entered(0)' \/ Entered(1)'
         /\ Entered(0) /\ <<Write>>_vars => Entered(1)'
         /\ Entered(1) => Entered(1)' \/ Entered(2)'
         /\ Entered(1) /\ <<Write>>_vars => Entered(2)'
         /\ Entered(2) => Entered(2)' \/ Saved'
         /\ Entered(2) /\ <<Answer>>_vars => Saved'
         /\ Saved => Saved' \/ Home0'
         /\ Returning => Returning' \/ Settled'
  BY <1>1
<1>3. Sound /\ StepsPossible
      => /\ Waiting => ENABLED <<UserSetup>>_vars
         /\ Entered(0) \/ Entered(1) => ENABLED <<Write>>_vars
         /\ Entered(2) => ENABLED <<Answer>>_vars
  <2> SUFFICES ASSUME Sound, StepsPossible
               PROVE  /\ Waiting => ENABLED <<UserSetup>>_vars
                      /\ Entered(0) \/ Entered(1) => ENABLED <<Write>>_vars
                      /\ Entered(2) => ENABLED <<Answer>>_vars
    OBVIOUS
  <2>1. ASSUME NEW w, Entered(w) PROVE pc = "write" /\ written = w /\ Len(plan) = 2
    BY <2>1, HomePlan DEF Entered, Sound
  <2>2. Entered(0) => pc = "write" /\ written < Len(plan)
    <3>1. Entered(0) => pc = "write" /\ written = 0 /\ Len(plan) = 2
      BY <2>1
    <3> QED
      BY <3>1
  <2>3. Entered(1) => pc = "write" /\ written < Len(plan)
    <3>1. Entered(1) => pc = "write" /\ written = 1 /\ Len(plan) = 2
      BY <2>1
    <3> QED
      BY <3>1
  <2>4. Entered(2) => pc = "write" /\ AllWritten
    BY <2>1 DEF AllWritten
  <2>5. Waiting => pc = "idle" /\ mode = "ap"
    BY DEF Waiting
  <2> QED
    BY <2>2, <2>3, <2>4, <2>5 DEF StepsPossible
<1>4. Entering => ~(pc # "body")
  BY DEF Entering
<1>5. /\ Saved => rebootDue
      /\ Home0 => Returning /\ pc = "off"
      /\ Returning => ~Waiting
      /\ Saved /\ Served => ~(pc = "off")
  BY DEF Saved, Returning, Waiting, Served, Home0
<1>6. pc = "off" => pc \in {"off", "seed", "join"}
  OBVIOUS
<1>7. CalmRun /\ []<>(pc # "body") => (Waiting ~> Saved)
  BY <1>2, <1>3, <1>4, PTL DEF CalmRun, Fairness
<1>8. CalmRun => (Saved ~> Home0)
  BY <1>2, <1>5, RestartsCome, PTL DEF CalmRun, Sound
<1>9. CalmRun => (Home0 ~> Settled)
  BY <1>2, <1>5, <1>6, BootsEnd, PTL DEF CalmRun
<1> QED
  BY <1>7, <1>8, <1>9, PTL

\* Once the failures are over, a user who repeats the setup while the access point is
\* there gets the device into the network for good, whatever was half done before:
\* for every network and password that the encoding leaves as they are, and every
\* form that others sent before.
THEOREM SetupReachesHome ==
  ASSUME PlainHome
  PROVE  FairSpec /\ []RestartPossible /\ []StepsPossible => Provisioned
<1>1. Spec => []Sound
  BY TypeCorrect, Invariant, ServedAlways, PTL DEF IInv, Sound
<1>2. ASSUME Sound, [Next]_vars, [~Trouble]_vars PROVE Settled => Settled'
  BY <1>2, RequestSteps DEF Sound
<1>3. Settled /\ Sound /\ [Next]_vars /\ [~Trouble]_vars => Settled'
  BY <1>2
<1>4. Settled => mode = "sta" /\ pc = "idle"
  BY DEF Settled
\* Whatever the device is doing, it is on one of the ways of the lemmas.
<1>5. Sound => \/ pc \in {"off", "seed", "join"} \/ rebootDue \/ Settled \/ Waiting
               \/ Reading \/ (pc = "write" /\ ~rebootDue)
  BY DEF Sound, TypeOK, Served, Settled, Waiting, Reading
<1>6. pc = "off" => pc \in {"off", "seed", "join"}
  OBVIOUS
<1>7. CalmRun /\ []<>(pc # "body") => <>(Settled \/ Waiting)
  BY <1>5, <1>6, BootsEnd, RequestsEnd, RestartsCome, PTL DEF CalmRun
<1>8. CalmRun /\ []<>(pc # "body") => <>[]Settled
  BY <1>3, <1>7, SetupWorks, PTL DEF CalmRun
<1>9. FairSpec /\ []RestartPossible /\ []StepsPossible /\ <>[][~Trouble]_vars => <>CalmRun
  BY <1>1, PTL DEF FairSpec, Fairness, Spec, CalmRun
<1> QED
  BY <1>4, <1>8, <1>9, PTL DEF Provisioned
=============================================================================
