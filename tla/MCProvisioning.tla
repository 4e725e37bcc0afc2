-------------------------- MODULE MCProvisioning --------------------------
(* The texts in use, and forms that between them post every field (all but the *)
(* host name with another text than its default), leave fields out, leave them *)
(* empty, and contain a special character, as the URL of a broker does.        *)
EXTENDS Provisioning

CONSTANTS homeNet, homePass, cafeNet, special, escaped, word, newWord, name,
          secret, prefix

MCText == {Empty, Yes, No, homeNet, homePass, cafeNet, special, escaped, word, newWord,
           name, secret, prefix}

MCDefault == [k \in Key |->
    CASE k = "wifi_ssid" -> cafeNet
      [] k = "wifi_pass" -> word
      [] k \in {"httpd_hash", "admin_hash"} -> word
      [] k = "hostname" -> name
      [] k = "mqtt_en" -> No
      [] k = "mqtt_pfx" -> prefix
      [] OTHER -> Empty]

MCSpecial == {special}
MCEscaped == [t \in {special} |-> escaped]

MCForms == {
    [kind |-> "wifi", fields |-> [ssid |-> homeNet]],
    [kind |-> "passwords", fields |-> [wakeup |-> secret, admin |-> newWord]],
    [kind |-> "passwords", fields |-> [wakeup |-> Empty]],
    [kind |-> "mqtt", fields |-> [broker |-> special, user |-> name, password |-> Empty,
                                  discovery_prefix |-> name, enabled |-> Yes]],
    [kind |-> "mqtt", fields |-> [password |-> secret, discovery_prefix |-> Empty]],
    [kind |-> "hostname", fields |-> [hostname |-> name]] }

HomePlain == [ssid |-> homeNet, password |-> homePass]
HomeSpecial == [ssid |-> homeNet, password |-> special]
=============================================================================
