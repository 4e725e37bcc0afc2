---------------------------- MODULE ConfigStore ----------------------------
(***************************************************************************)
(* The configuration store of the native firmware                           *)
(* (src/native-firmware/main/nvs_config.c): ten keys of one NVS namespace.  *)
(* NVS writes one key at a time, durably and atomically; nvs_commit adds    *)
(* nothing.  A setter is therefore a sequence of <<key, value>> writes,     *)
(* which an error or a reset may cut short after any of them.               *)
(*                                                                         *)
(* Texts are opaque, but for the empty one.  Booleans are the texts Yes and *)
(* No, the u8 values 1 and 0.  Lengths are not modelled.                    *)
(***************************************************************************)
EXTENDS Naturals, Sequences

CONSTANTS Text,         \* values of the string keys
          Empty, Yes, No, \* members of Text
          Absent,       \* what NVS says of a key that was never written
          Default       \* the default texts, by key

Key == {"wifi_ssid", "wifi_pass", "httpd_hash", "admin_hash", "hostname",
        "mqtt_en", "mqtt_broker", "mqtt_user", "mqtt_pass", "mqtt_pfx"}

MqttKey == {"mqtt_en", "mqtt_broker", "mqtt_user", "mqtt_pass", "mqtt_pfx"}

\* sha256_string: no two passwords in use have the same hash.
Sha256(t) == [sha256 |-> t]

Value == Text \union {Sha256(t) : t \in Text}

ASSUME StoreAssumption == /\ {Empty, Yes, No} \subseteq Text
                          /\ Yes # Empty
                          /\ Absent \notin Value
                          /\ Default \in [Key -> Text]

VARIABLE store      \* by key

-----------------------------------------------------------------------------
\* nvs_config_init.

\* The keys it seeds, in order; those of MQTT have a default when read.
SeededKeys == <<"wifi_ssid", "wifi_pass", "httpd_hash", "admin_hash", "hostname">>

\* What a key is worth that was never written.
Initial(k) == IF k \in {"httpd_hash", "admin_hash"} THEN Sha256(Default[k]) ELSE Default[k]

\* Mutant: the default is written whatever the key holds.
Seeded_Always(k) == [store EXCEPT ![k] = Initial(k)]

\* ensure_str_default, ensure_hash_default
Seeded(k) == IF store[k] = Absent THEN [store EXCEPT ![k] = Initial(k)] ELSE store

-----------------------------------------------------------------------------
\* The getters.

\* Mutant: a key that is not there is not replaced by its default.
GetOrDefault_NoDefault(k) == store[k]

\* get_str_or_default
GetOrDefault(k) == IF store[k] = Absent THEN Initial(k) ELSE store[k]

\* nvs_config_get_mqtt
GetMqtt == [k \in MqttKey |-> GetOrDefault(k)]

\* The same when a read fails: the structure has been zeroed.
BlankMqtt == [k \in MqttKey |-> IF k = "mqtt_en" THEN No ELSE Empty]

\* nvs_config_has_wifi
HasWifi == store["wifi_ssid"] \notin {Absent, Empty} /\ store["wifi_pass"] # Absent

\* check_password_against_key
CheckPassword(k, plaintext) == store[k] = Sha256(plaintext)

-----------------------------------------------------------------------------
\* The setters, as the writes they make.

\* Mutant: an empty password is left out, as the MQTT form leaves it out.
SetWifi_KeepPassword(ssid, password) ==
    IF password = Empty THEN << <<"wifi_ssid", ssid>> >>
    ELSE << <<"wifi_ssid", ssid>>, <<"wifi_pass", password>> >>

\* nvs_config_set_wifi
SetWifi(ssid, password) == << <<"wifi_ssid", ssid>>, <<"wifi_pass", password>> >>

\* Mutant: what is stored is blanked before the new hash is written.
SetPassword_BlankFirst(k, plaintext) == << <<k, Sha256(Empty)>>, <<k, Sha256(plaintext)>> >>

\* nvs_config_set_httpd_password, nvs_config_set_admin_password
SetPassword(k, plaintext) == << <<k, Sha256(plaintext)>> >>

\* nvs_config_set_hostname
SetHostname(hostname) == << <<"hostname", hostname>> >>

\* nvs_config_set_mqtt: an empty prefix becomes the default one.
SetMqtt(cfg) ==
    << <<"mqtt_en", cfg["mqtt_en"]>>,
       <<"mqtt_broker", cfg["mqtt_broker"]>>,
       <<"mqtt_user", cfg["mqtt_user"]>>,
       <<"mqtt_pass", cfg["mqtt_pass"]>>,
       <<"mqtt_pfx", IF cfg["mqtt_pfx"] = Empty THEN Default["mqtt_pfx"]
                     ELSE cfg["mqtt_pfx"]>> >>
=============================================================================
