# Verification of esp32-usb-VoWiFi

TLA+ models of the two firmwares of this repository, checked with TLC and, for the
properties that matter most, proved with TLAPS. Both firmwares turn an ESP32-S2/S3
into a USB keyboard that wakes a PC:

- `src/esphome/components/usb_hid_wakeup` is a component for ESPHome. Buttons in
  Home Assistant wake the PC, type a shutdown command, or press the ACPI
  power-down and sleep keys; sensors show whether the PC is awake.
- `src/native-firmware` is a firmware of its own on ESP-IDF: HTTP server, MQTT
  client, Wi-Fi provisioning through an access point, updates over the air, a
  button and an LED.

The two share no code and are modelled separately.

## Inventory

Each part with its state, its operations, what it interacts with, what is hard
about it, and what makes it correct.

### ESPHome component

| Part | State | Operations | Interacts with | Correct means |
|---|---|---|---|---|
| Keyboard layout (`char_to_keycode_`) | `layout_` | one lookup per character | the host's own layout | the host writes the text that was meant |
| Typing engine | `events_`, `event_cursor_`, `seq_base_` | five buttons (`request_*`), `process_events_` from `loop()` | TinyUSB (`tud_mounted`, `tud_hid_ready`, `tud_hid_*report`), the host, `millis()` | reports arrive in order, none sent before it is due, none lost to a busy endpoint, nothing left pressed |
| USB presence | `last_*`, `initial_published_`, `s_suspended`, `tinyusb_started_` | `setup`, `loop`, `tud_suspend_cb`, `tud_resume_cb`, `request_wakeup` | the TinyUSB task runs in parallel with `loop()` | what is shown is what the bus did |
| Code generation (`*.py`) | none at run time | | | |

### Native firmware

| Part | State | Operations | Interacts with | Correct means |
|---|---|---|---|---|
| Wakeup path (`usb.c`, `gpio.c`, order of `main.c`) | the event bit, the timer daemon's queue | HTTP and MQTT requests, the button interrupt, `usb_task` | LED queue, MQTT counter | every request leads to a decision |
| LED (`led.c`) | a queue of 5, two flags | `led_handle_*`, `led_task` | blocks its senders: `usb_task` and the event loop | no deadlock; the colour tells the truth |
| Wi-Fi (`wifi.c`) | `s_sta_connected`, `s_ap_mode`, two semaphores | the retry loop, event handlers, `wifi_start_softap` | driver events arrive in the event-loop task while the loop runs in `app_main` | boot ends as documented; the station is not abandoned |
| Update (`ota.c`) | two flash slots, otadata | upload handler, delayed reboot, validation task | bootloader, power | never bricked; what was acknowledged is what boots |
| MQTT client (`mqtt.c`) | `s_connected`, `s_wakeup_count`, retained topics | event handler, telemetry task, `mqtt_notify_wakeup` | broker, Home Assistant, `usb_task` | what is retained is current |
| Configuration store (`nvs_config.c`) | NVS keys | getters, multi-key setters | HTTP handlers, boot | acknowledged settings survive every restart; a cut request is mended by the next complete one |
| HTTP server (`httpd.c`), authentication (`auth.c`) | none of its own | page, wakeup and configuration handlers, delayed restart | store, `usb_task`, update | what is acknowledged is stored and takes effect |
| Captive-portal DNS, LED strip encoder, web pages, build files | little or none | | | |

The behaviours that are hard to test: a request that races the clearing of its
bit; a script cut short by another one or by the host; a clock that wraps; two
reads of a bus that moves; an address that arrives just after its time-out; queues
at their limit; a power failure between any two flash writes. They are listed line
by line under "hazards" in `PROJECT.json`.

## Modules

| Module | Models | Runs | Theorems |
|---|---|---|---|
| `KeyboardLayout` | the two tables and the loop of `type_string_`, against the keycaps of the host | `MCUsbHidWakeup.cfg` | `KeyboardLayoutProofs` |
| `HidDelivery` | abstract: ordered delivery of scripts to a host that may vanish | | |
| `HidEngine` | the typing engine, endpoint, host and clock; implements `HidDelivery` | `MCHidEngine.cfg`, `MCHidEngineSysRelease.cfg` | `HidEngineProofs` |
| `UsbPresence` | setup, callbacks, `loop()`'s publishing, the wakeup button | `MCUsbHidWakeup.cfg`, `UsbPresenceStatus.cfg` | `UsbPresenceProofs` |
| `MCUsbHidWakeup` | the two as one component: typing while the bus moves | `MCUsbHidWakeup.cfg` | |
| `LedTask` | LED queue and task, in both builds; extended by | | |
| `WakeupPath` | requests, `usb_task`, boot order | `WakeupPath.cfg` | `WakeupPathProofs` |
| `WifiBoot` | abstract: the boot state machine of the native README | | |
| `WifiManager` | retry loop, handlers, driver, DHCP client, network; implements `WifiBoot` | `WifiManager.cfg`, `WifiManagerFallsBackLater.cfg` | `WifiManagerProofs` |
| `OtaUpdate` | uploads, reboots, validation, bootloader | `OtaUpdate.cfg`, `OtaUpdateRollsBack.cfg` | `OtaUpdateProofs` |
| `Settings` | abstract: settings, what each request asks of them, and what "ok" means | | |
| `ConfigStore` | keys, defaults, getters and setters of `nvs_config.c`; extended by | | |
| `Provisioning` | form handlers, delayed restart, seeding and joining at boot, power; implements `Settings` | `MCProvisioning.cfg`, `MCProvisioningSpecial.cfg` | `ProvisioningProofs` |
| `MqttClient` | client, telemetry task, counter, broker, connections | `MqttClient.cfg` | `MqttClientProofs` |

`MCUsbHidWakeup`, `MCHidEngine` and `MCProvisioning` give TLC the texts, the
command and the forms. Definitions whose comment begins with "Mutant:" are
deliberate mistakes: each property is shown to fail when the definition after it
is replaced by the mistake.

### How state and actions correspond to the code

**HidEngine.** `events` is `events_`, each entry with the absolute due time the
code stores and, as history, the offset it was queued with. A button is one
action, because `request_*` runs in one call from the main loop. `process_events_`
is cut in two where it matters: `Take` asks `tud_mounted` and `tud_hid_ready`,
`SendReport` sends, and the TinyUSB task may unmount the device in between, in
which case the stack drops the report and the code counts it as sent. `Abort` is
the "host vanished" branch. `wire` is the endpoint (one report), `host` what the
PC holds pressed. All additions and the comparison of due times are modulo `Wrap`,
as `uint32_t` and the cast to `int32_t` are modulo 2^32.

**UsbPresence.** `ReadMounted` and `Publish` are the two reads of `loop()`; `flag`
is `s_suspended`, which differs from the bus's own `suspended` because the stack
calls no callback when a suspended device is unplugged or reset. `last` is what
change detection compares with (`last_mounted_` to `last_status_`, which start as
three times false and `nullptr`), `shown` what Home Assistant has, which starts
unknown: the first pass publishes everything because `last` may be right from the
start while `shown` is not.

**MCUsbHidWakeup.** `type_string_` runs in the main loop, so never between the two
reads of `loop()`; a text is begun only with a started driver and a mounted host
(`ready_for_sequence_`), and goes on whatever the bus does.

**WakeupPath.** `usb_task` is a program counter with one step for each call
another task can get between: the wait that clears the bit, the second clear, the
check, the two LED sends (which block), the signal, the call of
`mqtt_notify_wakeup` (`UsbNotify`; what it does is `Wakeup` of `MqttClient`). The
button does not set the bit: it pends a call with the timer daemon, whose queue
may be full, and which fails an assertion (`Panic`, a restart) if the event group
does not exist yet. The restart destroys what was owed (`owed' = {}`): no signal
follows it. `CallsGood` says that no such crash is ahead. `notifyMode` is the
build (`CONFIG_ESP_WAKEUP_KEYPRESS_LED_NOTIFY_MODE`), chosen initially and never
changed, so one specification is of both. `owed` is history: who has asked since
the last decision, within this run of the device.

**WifiManager.** `pc` is `wifi_init()`; `handling` is the event-loop task inside a
handler, which is two steps because the handlers may block on the LED queue. The
driver moves the link and posts its loss; the DHCP client, another task, takes an
answer (`answered`) and posts the address, perhaps behind the news that the link
it came by has gone. A lease may also end on a link that stays (`Expire`): ESP-IDF
posts IP_EVENT_STA_LOST_IP, for which `wifi.c` registers no handler, so nothing in
the queue tells of it. `esp_wifi_connect` starts an idle station, does nothing to
a busy one, and may fail. `refused` (it has failed in the disconnect handler) and
`late` (an address was posted behind the loss of its link, before the gate
`s_sta_connected` was open, or after) are history.

**OtaUpdate.** A slot holds a good, a broken (crashes before 30 s) or a junk
image; `state` is the otadata entry. The run may end before, between and after any
two flash operations. `Rollback` is `CONFIG_BOOTLOADER_APP_ROLLBACK_ENABLE`, which
is off unless it is set, and `sdkconfig.defaults` does not set it: both runs have
it off, the theorems are for either. Without rollback a selected entry is never on
trial and `Validate` finds nothing to mark. The partition choice, verification and
slot selection of ESP-IDF and its bootloader are external and are modelled from
how `ota.c` uses them.

**Provisioning.** `pc` is `app_main` up to the end of `wifi_init`, and then the
HTTP server's only task. A setter of `nvs_config.c` is, in `ConfigStore`, the
sequence of key writes it makes: NVS makes each one durable and atomic, and
nothing makes two of them so. A request that passed its checks leaves its writes
in `plan`; `Write` does the next, `WriteFails` is the 500, `Answer` the 200 that
starts the restart task (`rebootDue`; `RebootLost` if it cannot be created).
`Restart` may come at any moment, also in the middle of a later request, and so
may `PowerFails`. Seeding the defaults takes a step per key; its errors are not
looked at (`SeedFails`). A form is what the user typed: the browser sends a text
of `Special` as `Escaped` of it, and the handlers take it as sent (`Posted`).
`wifi_init` is its outcome. `torn` (a pair of network and password was cut between
the two writes), `blanked` (an MQTT request could not read what is stored) and
`known` (the admin passwords the owner has typed, from the last acknowledged on)
are history.

**Settings** says what a request asks for from its form alone (`Asks`: which keys
it is about, and what its texts mean under them), not from the writes the handler
plans; `plan` does not occur in the mapping. While a request is handled the
settings it asks for change one by one and no other does; "ok" needs all of them.
What is *not* promised is said there too, because the code does not keep it: a
request that is given up (an error, a restart) may leave a part of its settings
changed, and an MQTT request whose handler cannot read the store changes, beside
what it asks for, the settings it does not mention (`Loses`: to blanks).

**MqttClient.** The action `Connected` is the handler of `MQTT_EVENT_CONNECTED`:
it runs under the client's API lock, so its publications go out in one piece.
`wire` is what is on its way on the present connection, `session` what the broker
thinks of it: `"stale"` when the connection is dead and the broker has not
noticed. `Will` is what the broker publishes when a session ends without
DISCONNECT: at the end of the keep-alive time or when the client takes the session
over. `client` and `connected` are esp-mqtt's view and `s_connected`. One
discovery configuration stands for the six, and the USB state for the four values
of the telemetry, which are published by the same call in the same way.
`telemetry` is cut between the reading of a value and its publication. The broker
may restart with its retained messages or without. `orphan` (a broker that
restarted brought an "online" back, without the session it was from) and `counted`
(the retained count is of this run) are history.

## What the runs show

Passing runs:

- **hid_engine.** Every script over every other one, with the host mounting,
  leaving, sleeping and polling at any point. `DueExact`: the signed comparison
  says exactly whether an offset has passed, across the wrap; as an event is sent
  only when it is due, none is sent before its offset from the press. The waits
  between reports are not bounded from below: after a host that slept, or a busy
  endpoint, overdue reports follow one another at once. `KeysReleasedWhenIdle`: no
  key or modifier stays pressed, whatever was cut short. `DeliverySpec`: the
  engine implements `HidDelivery`. `Drains`: with a host that stays (or stays
  away) the queue empties.
- **usb_hid_wakeup.** `TypedFaithfully`: all texts of at most two characters, with
  and without unmapped ones, and the shutdown command itself, typed while the bus
  moves. The theorem is for every text. `AwakeShownWasAwake`: "awake" is published
  only if the host was awake at some moment of that pass. `ShownCatchesUp`: once
  the component's two facts stand still, all four sensors agree with them, also
  those whose value has never changed since boot.
- **wakeup_path**, in both builds. `NoLostRequest` (while the device runs,
  although requests share one bit that is cleared twice and the timer queue may
  refuse a press), `LedSettles` (the colour at rest is the network's, however the
  two senders mix), `RequestsAnswered` (a request that no crash at boot is ahead
  of is answered, and none comes up later: no deadlock over the LED queue, also
  while the LED task blinks and receives nothing), `BootSettles` (a press during
  the boot costs a restart, and what was owed; but restarts do not go on by
  themselves).
- **wifi.** `LedTells` (with all events handled, a station with an address is
  shown as connected, and one without a link as disconnected, unless its address
  came behind the loss of the link; of an associated station whose lease has ended
  it says nothing, because the code leaves that LED green), `NeverStranded` (but
  by an error of `esp_wifi_connect`, or by a first address that came behind the
  loss of its link), `BootSpec` (at most three attempts, then the access point,
  and the outcome is final), `BootEnds` (`wifi_init` returns whatever the network
  does), `Reconnects`.
- **ota.** `LastRunBootable` (the running slot is never touched, also by a second
  upload before the reboot), `AckedRuns` (what a client was told is what boots,
  also after a power failure), `ComesBack` (wherever the power fails and however
  uploads are cut short, the device returns to a good image, unless all it runs
  from some time on is a broken one). With bootloader rollback off, as built.
- **provisioning.** `AckedIsStored`: what was acknowledged is in the store until
  the next request is accepted, through every restart; only the erasure of the
  whole store at boot (`nvs_config.c:66-69`) takes it back. `SettingsSpec`: to its
  clients the store is `Settings`: a request changes what its form asks for and
  nothing else, although a boot seeds keys and several requests and restarts
  overlap. `WifiPaired`: network and password come from one form, unless the
  writing of the two was cut. `OwnerKnowsPassword`: the owner is not locked out,
  also when a change was stored and the device stopped before the answer.
  `MqttKept`: the MQTT form changes what it posts and nothing else, unless it
  could not read the rest. `Provisioned`: once failures are over, a user who
  repeats the setup gets the device into the network, whatever was half done.
- **mqtt.** `Announced`: on a working connection the broker knows, or is being
  told, all that it needs for the button. `OnlineHasSession` and `OnlineIsServed`:
  a device shown as available has a session, and a button shown as available is
  subscribed to or the subscription is on its way, never is it the "online" of an
  earlier connection. `CountGrows`: the `total_increasing` count never goes back
  within a run. `DeathIsShown`: a device without power becomes unavailable.
  `OnlineSettles`, `UsbSettles`: once connections and restarts settle, what is
  retained is true, although two publishers of the USB state may publish in the
  other order than they read.

Runs that end in a violation, each of a sentence the repository says of itself:

- **hid_sys_release.** A script that interrupts another releases the keyboard
  first, so that nothing is left held, but not the system-control keys: a
  power-down or sleep key whose release was discarded stays pressed.
- **usb_presence_status.** Unplug the PC asleep, plug it in again: it is shown as
  asleep until it has slept and resumed once more.
- **wifi_falls_back_later.** "The ESP retries 3× then falls back to SoftAP" holds
  at boot only. Later the station retries for ever.
- **ota_rolls_back.** "If it crashes before 30 s ... the rollback partition
  automatically takes back over": not in the build of `sdkconfig.defaults`, which
  boots the crashing image again.
- **provisioning_special.** "Hit save, the ESP reboots into STA mode": the pages
  send their forms percent-encoded and the handlers do not decode them. A Wi-Fi
  password with a character such as `!`, `@` or a space is acknowledged and stored
  encoded, and the device never joins. Broker URLs (`mqtt://...`) always contain
  such characters.

### Bounds

- `HidEngine`: a command of one keystroke, delays of one or two ticks, a clock of
  20 with at most 9 ticks from the press (`MaxAge`). The scripts keep their shape
  and every pair of consecutive delays its order; 9 is the length of the longest
  script, and `2 * MaxAge < Wrap` is the condition under which a signed comparison
  can work. Initially `now` is any value, so the wrap falls everywhere in a
  script. The theorems are for every command, delay and clock.
- `WakeupPath`: queues of two instead of five and sixteen, one requesting task
  beside the button, two blinks. Each queue can be empty, partly full and full,
  which are all the cases its code distinguishes. The theorems are for every
  length and any set of tasks.
- `WifiManager`: the code's three attempts; at most three events waiting
  (`EventBound`; two link changes and the news of a teardown already overtake each
  other) when another is posted. The theorems are for every number of both.
- `OtaUpdate`: two slots as in `partitions.csv`, no bound.
- `UsbPresence`: no bound. `MCUsbHidWakeup`: the texts above, one typed in a run.
- `Provisioning`: no bound on runs, requests or failures. Six forms that between
  them post every field of every form, all but the host name with a text other
  than its default (a host name is a single key, written like the others), leave
  fields out, leave them empty and contain a special character in the broker's
  URL; and the user's setup form. The other Wi-Fi form has no password, as for an
  open network. The admin password changes from its default; one with a special
  character is left out (`AdminPlain` below). The default network is one that is
  not the user's. The theorems are for all forms, texts and encodings.
- `MqttClient`: six messages under way (`WireLen`: an announcement and two more;
  with the announcement's four alone nothing could overtake), three wakeups per
  run of the device (`MaxCount`; so the count shown can be behind by more than
  one). No bound on connections, crashes and broker restarts. The theorems are for
  every value of both.

`CHECK_DEADLOCK FALSE` is set for `MCUsbHidWakeup`, and for `UsbPresence` alone:
the text ends, and the component may be marked failed and stop.

### Fairness

- `HidEngine`: the clock ticks, ESPHome calls `loop()` for ever (`Abort \/ Take`,
  `SendReport`), and a host that is awake polls an interrupt endpoint every 10 ms
  as its descriptor asks. Nothing is assumed of buttons, mounting or sleeping.
- `UsbPresence`, `MCUsbHidWakeup`: `loop()` alone.
- `WakeupPath`: each task that can run, runs. All of them wait in blocking calls,
  so FreeRTOS's priorities starve none. `RequestsAnswered` supposes in addition
  that Wi-Fi events stop at some time: the LED queue wakes its waiting senders by
  priority, and FreeRTOS gives no promise that a sender among endless others gets
  its turn.
- `WifiManager`: time-outs end, the event loop, the driver and the DHCP client
  run. The network comes and goes as it likes, but what depends on it is tied to
  it: an attempt fails, a link breaks and a lease ends only while it is away.
- `OtaUpdate`: the bootloader boots. Nothing is assumed of uploads, crashes or
  power.
- `Provisioning`: the device boots and its tasks run, the restart task's delay
  ends, and for `Provisioned` the user repeats the setup while the access point is
  there. A client that stops sending holds the server for as long as it likes:
  `Provisioned` supposes that none does so for ever.
- `MqttClient`: the tasks run, esp-mqtt notices a dead connection and dials again
  (it does so by itself, with a delay), a live connection delivers, keep-alive
  times end. Nothing is assumed of power: nobody need switch the device on.

## What is proved

Each proof module extends the module it is about. Everything is proved for all
values of the constants under the assumptions the module names (`ClockAssumption`,
`LedAssumption`, `PathAssumption`, `WifiAssumption`, `RollbackAssumption`,
`StoreAssumption`, `ProvisioningAssumption`, `MqttAssumption`, ...), which only
say what kind of value a constant is, with three exceptions of substance: no queue
of the typing engine stays pending for half the clock's range or longer (24.8
days), no script is longer than that, and `WireLen` leaves room for one
announcement. Theorems that need more of a constant say so (`AdminPlain` and
others below).

Safety first, module by module.

- `HidEngineProofs`: `TypeOK`, `DueExact`, `KeysReleasedWhenIdle`,
  and `DeliverySpec`, the refinement of `HidDelivery`. The invariant `IInv` adds
  where the due times come from (`ClockInv`: they and `now` count from one base,
  the moment of the press), that the endpoint found free stays free until the
  report is sent and that an absent host holds nothing (`WireInv`), and `KeyInv`:
  either a release of all keys is still to come with nothing but system controls
  after it, or only system controls are to come and the release is done or in the
  endpoint. `KeysReleasedWhenIdle` is not inductive without it: a queue that is
  idle says nothing of the queue before. That every script ends in this shape, and
  begins with a release, is a lemma about the scripts. For the refinement, what
  the host is still to receive is the endpoint's report and then the reports of
  the queue from the cursor on (`Rest`); a press replaces all but the first,
  sending only moves a report, and what is sent to an absent host, or discarded
  for its absence, is a loss that `HidDelivery` allows.
- `UsbPresenceProofs`: `AwakeShownWasAwake`. `s_suspended` may outlive a
  suspension but never misses one, and so a pass that found the host mounted and
  has not seen it awake will find the flag set, or the host has woken since.
- `WakeupPathProofs`: `TypeOK`, `NoLostRequest` and `LedSettles`, for any set of
  requesters and any queue lengths, in both builds. `NoLostRequest` is inductive
  together with `TypeOK`; the interesting steps are the two clears, which are made
  only while `usb_task` is on its way to the decision, and a press that a full
  timer queue refuses, which finds other calls pended. `LedSettles` speaks of an
  empty queue; its invariant (`LedInv`) says of a queue that is not that the last
  waiting event of each sender (`LastWaiting`) is that sender's last word, and
  that an empty queue leaves the colour that the two flags ask for (`LedShows`).
- `WifiManagerProofs`: `TypeOK`, `LedTells`, `NeverStranded` and `BootSpec`, the
  refinement of `WifiBoot`. `LedTells` speaks of an empty queue; the invariant has
  to say what the LED will have been told when the queue is done (`LedFollows`, on
  `Told`). `NeverStranded` needs that every address event in the queue which is
  out of date is followed by a disconnect event (`StaleIpFollowed`), because
  handling the first opens the gate for the second, and that the station is
  attended from the moment the loop waits (`Attended`).
- `OtaUpdateProofs`: `TypeOK`, `LastRunBootable` and `AckedRuns`, with and without
  rollback. The invariant follows the upload through its handler (`Uploads`), says
  where otadata can hold a trial (`Trials`), and that what was acknowledged is
  selected and not about to be given up (`Acked`).
- `ProvisioningProofs`: `TypeOK`, `AckedIsStored`, `WifiPaired`, `MqttKept`, and
  `SettingsSpec`, the refinement of `Settings`. The invariant says what has been
  written of the plan is still there, which needs that a plan writes no key twice
  (`Progress`), and what the plan of a Wi-Fi form is (`PlanOfRequest`). The
  refinement compares two descriptions of a request that were written apart: what
  its form asks for (`Asks`) and the writes that the handler plans (`Writes`,
  `Merged`). Its invariant `PlanAsked` says of a plan that every write in it is
  asked for or leaves what is stored, and that everything asked for is in it.
  `MqttKept` needs that what a planned write was not given is still what is stored
  when its turn comes (`MqttInv`): the merge reads all five keys long before it
  writes the last. `OwnerKnowsPassword` is proved under `AdminPlain`: no admin
  password contains a character the browser encodes. Without it the property is
  false: the admin page then asks for the encoded text.
- `MqttClientProofs`: `TypeOK`, `Announced`, `OnlineHasSession`, `OnlineIsServed`,
  `CountGrows`. The invariant adds that an "online" shown is of the present
  connection or an orphan (`Fresh`), and that the counts under way are in order,
  between the one shown and the counter (`Counts`).
- `KeyboardLayoutProofs`: `TypedFaithfully`, for every text of any length and both
  layouts. A keystroke of `char_to_keycode_` is shown to be the place of its
  character on the host's keycaps (one lemma per group of characters), and what
  was sent so far to be the text read so far, less what has no key (`TypedSoFar`).

Some theorems go beyond the runs' properties:

- `BootIsBounded` (`WifiManagerProofs`): `wifi_init` returns within
  `4 * MaxAttempts + 8` of its own steps (`Remaining` is the measure).
- `QueueBounded` (`WifiManagerProofs`): `esp_wifi_connect` and the stopping of the
  station post without waiting for room; they add one event an attempt and one.
- `DrainsStepByStep` and `NoDeadEnd` (`HidEngineProofs`): every step of the
  engine, of the host's polling and of the waiting brings the end of a script
  nearer (`Left` is the measure), no step but a press puts it off, and unless the
  host sleeps one of them can be taken.
- `AnnouncementInOrder` (`MqttClientProofs`): what comes before a part of the
  announcement that is known, or next, is known.
- `BurdenOnlyFalls` (`MqttClientProofs`): with a host that stands still, the
  messages that separate the broker from the truth about it only get fewer.

### Liveness

The prover has no rule for ENABLED: to it, "the step can be taken" is an unknown
formula. So each theorem about what must eventually happen has, beside `FairSpec`,
a hypothesis that says in which states the steps under fairness can be taken
(`EnginePossible`, `LoopPossible`, `PathPossible`, `MainPossible`,
`RejoinPossible`, `BootPossible`, `StepsPossible`, `RestartPossible`,
`ConnectionPossible`, `TelemetryPossible`, `ExpirePossible`). Each is a plain
statement about one state, defined beside its specification, and follows from the
guards of the actions it names, of which it is a copy; no run lists it. Everything
else about liveness is proved:

- `SensorsCatchUp` (`ShownCatchesUp`): a pass of `loop()` that began before the
  bus was quiet is followed by one that began since.
- `BootReturns` (`BootEnds`), on `BootIsBounded`, for fewer than 62 attempts
  (`FewAttempts`; the code makes three).
- `ComesBackUnlessBroken` (`ComesBack`), with and without rollback: no step but a
  boot changes which image runs, an upload does not touch it, and the bootloader
  boots again whenever the device is down.
- `SetupReachesHome` (`Provisioned`), for a home network whose name and password
  the browser sends as typed (`PlainHome`; the run `provisioning_special` shows
  that it is false otherwise). Whatever was half written before, the setup form
  writes all that a boot reads.
- `DeathShown` (`DeathIsShown`), on `Fresh`: a device without power that is still
  shown as available has a session, and that ends with the will.
- `OnlineForGood` (`OnlineSettles`): the connection settles, then the elements of
  the announcement arrive in the order of `AnnouncementInOrder`, the availability
  first.
- `RequestsGetAnswered` (`RequestsAnswered`), by following a request that is never
  answered to a `usb_task` that waits for a bit while a call to set that bit is
  pended. The one place where `usb_task` waits for others is the LED queue, and
  the LED task makes room once its blinks, fewer than 256 (`FewBlinks`; the code
  has 30), are over. It is about requests that no crash at boot is ahead of, under
  a network that falls quiet.
- `DeviceComesUp` (`BootSettles`): either no crash follows the last press, and the
  boot goes on; or one does, and then no call is pended that could bring the next.
- `Rejoins` (`Reconnects`): a joined station without an address has ever fewer
  events waiting, and when there are none `NeverStranded` says that it is not
  idle, if no first address came behind the loss of its link. Fewer than 256
  events (`FewEvents`; the code's queue has 32 entries).
- `QueueDrains` (`Drains`), on `DrainsStepByStep` and `NoDeadEnd`, for scripts of
  less than 65536 steps (`ShortScripts`), which are a minute; the longest of the
  code takes less than five seconds.
- `UsbShown` (`UsbSettles`), on `BurdenOnlyFalls`, for `WireLen` and `MaxCount`
  that together stay below 65536 (`ModestBounds`).

`BootReturns`, `RequestsGetAnswered`, `Rejoins`, `QueueDrains` and `UsbShown`
descend along a number. The library's induction takes an operator as a parameter,
which the provers cannot instantiate, and propositional temporal logic has no rule
of the kind. They use that a number below 2^n that only falls comes to rest: its
highest binary digit can only go from 1 to 0, so it comes to rest; then the next
one can, and so on, n steps of propositional temporal logic. This is why they
bound their measures, and nothing else depends on the bound.

Not proved: that the steps under fairness can be taken where the hypotheses above
say so (TLC's liveness runs use the real ENABLED), and the findings of the runs that
end in a violation.

## What is not modelled

- Wording and bytes: log texts, HTML, JSON, HID and USB descriptors, DNS packets,
  host names and mDNS. No property here depends on them.
- `led_strip_encoder.c`: bit timing inside the RMT driver. Its encoder can stop
  for want of memory and resume, but one LED is 24 symbols and a reset, which
  always fit the channel's 64.
- `captive_portal.c`: it answers each DNS packet by itself and keeps nothing.
- The pages and the status handler of `httpd.c`, which change nothing; the Python
  code generation; the build files.
- Lengths of texts: form values longer than the handlers' buffers are refused or
  cut by ESP-IDF; `Text` is a set of opaque values.
- The MQTT client's API lock as a place to wait: `usb_task` publishes the wakeup
  count (`usb.c:92`) and so waits while esp-mqtt sends on a slow connection. The
  next request then waits too; it is not lost (`NoLostRequest`).
- Failures of `xTaskCreate` and of allocation at boot: the code logs them or goes
  on. The one after an update is modelled (`Reply`).
- A queue of the typing engine that stays pending for more than 2^31 ms: a host
  asleep for 24.8 days. The comparison then says "not due" for as long again.

Read in the code and not given a run: an address that arrives between the time-out
and `esp_wifi_disconnect` makes the disconnect handler reconnect during the
initial retry, which `wifi.c:219-220` says it does not (`WifiManager` has the
behaviour, and its other properties hold with it); the notify build sends the
wakeup signal although `Kconfig.projbuild:32-33` says it does not; `__init__.py:6`
credits `force_shutdown` with an ACPI power down that only `auto_shutdown` sends;
a press of the button between `gpio_init` and `usb_init` restarts the device
(`Panic`) and is lost with it; a station whose lease ends while its link stays
keeps a green LED, because `wifi.c:219-232` registers no handler for the loss of
the address; an address handled after the loss of its link, at the end of the
initial phase, leaves `wifi_init` thinking it has joined while the disconnect
handler had left the station to it (`wifi.c:40-44`, `late`): an idle station that
nobody starts again; the store is erased at boot when it is full or of another
version (`nvs_config.c:66-69`), without a word to the owner; a host that vanishes
and returns between two due times receives the rest of the script although
`usb_hid_wakeup.cpp:197` speaks of aborting; a press that waited for the endpoint
is released at once, although `usb_hid_wakeup.cpp:169` says it persists; the
wakeup count (`README.md:122`, `mqtt.h:11-12`: wakeups "since boot") leaves out
wakeups fired while the broker is not connected, is not sent again after a
reconnection, and the count of the previous run stays retained until the first
wakeup of this one; `mqtt_init` has no test for access-point mode although
`main.c:25` calls it a no-op there (it starts a client that cannot connect);
`README.md:124` speaks of about 30 s until the device is shown as unavailable,
while esp-mqtt's default keep-alive is 120 s; a broker that restarts with a
retained "online" shows a device that died meanwhile as available until it returns
(`orphan`); an error when the MQTT form reads the store blanks what the form does
not post (`httpd.c:314`, `blanked`); "online" is published before the command is
subscribed to (`mqtt.c:167-170`), so for a moment a button is shown that nobody
serves.

## Plan

Done, in this order: the typing engine and its layout table, the presence sensors,
the wakeup path with its LED, Wi-Fi, updates; then provisioning with its store and
its abstract specification, the MQTT client with a broker, and the proofs about
all of them.

Every property of every passing run is now also a theorem, on the module it is
defined in. Left, in order of worth:

1. `NativeBoot`, composing the outcome of `WifiManager` with the servers and the
   validation task of `main.c`. Little depends on it: each part's specification
   already allows the others to start at any time.
2. The telemetry's four values and the six discovery configurations one by one,
   when they stop being published by one call.
