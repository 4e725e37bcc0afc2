----------------------------- MODULE HidEngine -----------------------------
(***************************************************************************)
(* The keyboard typing engine of the ESPHome component                      *)
(* (src/esphome/components/usb_hid_wakeup/usb_hid_wakeup.cpp and .h).       *)
(*                                                                         *)
(* A button press queues a script: reports, each with the absolute millis() *)
(* at which it is due.  loop() drains the queue, one report per free        *)
(* interrupt endpoint.  Three parties take steps:                           *)
(*   - the ESPHome main loop: Press (a button action), Abort, Take, Report; *)
(*   - the host and the bus, seen through the TinyUSB task, which runs in   *)
(*     parallel with the loop: HostPoll, Mount, Unmount, Suspend, Resume;   *)
(*   - the millisecond clock: Tick.                                         *)
(* process_events_ asks tud_mounted() and tud_hid_ready() and then sends:   *)
(* Take is the asking, Report the sending, and the bus may move in between. *)
(*                                                                         *)
(* The clock counts modulo Wrap (2^32 in the code).  off and age are        *)
(* history: the offset a report was queued with, and the time since         *)
(* begin_sequence_; no guard reads them except the bound of Tick.           *)
(***************************************************************************)
EXTENDS Integers, Sequences

CONSTANTS
    Command,        \* the keystrokes of "shutdown /s /f /t 0" in the layout
    Wrap,           \* millis() counts modulo Wrap
    MaxAge,         \* bound: no queue stays undelivered for longer than this
    KeyHold,        \* key_hold_ms
    InterKey,       \* inter_key_ms
    TypeStart,      \* type test: offset of the first key
    RunRelease,     \* macro: Win+R is released after this
    RunDelay,       \* macro: the command is typed after this
    EnterDelay,     \* macro: Enter after the last key
    EnterEnd,       \* macro: Enter released
    AcpiDelay,      \* auto: power down after the macro
    SysRelease      \* system-control key released after this

Delays == <<KeyHold, InterKey, TypeStart, RunRelease, RunDelay, EnterDelay,
            EnterEnd, AcpiDelay, SysRelease>>

ASSUME DelayAssumption == \A i \in DOMAIN Delays : Delays[i] \in Nat
ASSUME ClockAssumption == /\ Wrap \in Nat
                          /\ MaxAge \in Nat
                          /\ 2 * MaxAge < Wrap
ASSUME CommandAssumption ==
    Command \in Seq([modifier : Nat, keycode : Nat \ {0}])

VARIABLES
    now,            \* millis()
    events,         \* events_
    cursor,         \* event_cursor_: how many of them have been sent
    loopPc,         \* "top", or "report": between the checks and the send
    age,            \* history: time since begin_sequence_
    mounted,        \* tud_mounted()
    suspended,      \* the bus is suspended
    wire,           \* the report waiting in the interrupt IN endpoint
    host            \* what the host holds pressed

loopVars == <<events, cursor, loopPc, age>>
busVars == <<mounted, suspended>>
vars == <<now, events, cursor, loopPc, age, mounted, suspended, wire, host>>

-----------------------------------------------------------------------------
\* Reports, and what the host remembers of them.

LeftGui == 8
KeyR == 21
KeyEnter == 40
PowerDown == 1
Sleep == 2

Report == [kind : {"kbd", "sys"}, modifier : Nat, keycode : Nat, payload : Nat]
Keyboard(m, k) == [kind |-> "kbd", modifier |-> m, keycode |-> k, payload |-> 0]
SysCtrl(p) == [kind |-> "sys", modifier |-> 0, keycode |-> 0, payload |-> p]
ReleaseAll == Keyboard(0, 0)

HostState == [modifier : Nat, keycode : Nat, sys : Nat]
Released == [modifier |-> 0, keycode |-> 0, sys |-> 0]

Apply(h, r) == IF r.kind = "kbd"
               THEN [h EXCEPT !.modifier = r.modifier, !.keycode = r.keycode]
               ELSE [h EXCEPT !.sys = r.payload]

-----------------------------------------------------------------------------
\* The scripts: entries [off, report] in the order they are queued.

At(t, r) == [off |-> t, report |-> r]

\* type_string_: press and release per keystroke.  Keystroke k is at the
\* (2k-1)-th and 2k-th place.
KeyTime(start, k) == start + (k - 1) * (KeyHold + InterKey)
TypeEnd(start) == start + Len(Command) * (KeyHold + InterKey)
TypeString(start) ==
    [i \in 1 .. 2 * Len(Command) |->
        LET k == (i + 1) \div 2
        IN  IF i % 2 = 1
            THEN At(KeyTime(start, k), Keyboard(Command[k].modifier, Command[k].keycode))
            ELSE At(KeyTime(start, k) + KeyHold, ReleaseAll)]

ForceEnd(start) == TypeEnd(start + RunDelay) + EnterEnd
ForceMacro(start) ==
    << At(start, Keyboard(LeftGui, KeyR)), At(start + RunRelease, ReleaseAll) >>
    \o TypeString(start + RunDelay)
    \o << At(TypeEnd(start + RunDelay) + EnterDelay, Keyboard(0, KeyEnter)),
          At(ForceEnd(start), ReleaseAll) >>

SysPress(start, p) == << At(start, SysCtrl(p)), At(start + SysRelease, SysCtrl(0)) >>

Actions == {"force_shutdown", "type_test", "acpi_shutdown", "auto_shutdown", "sleep"}

Body ==
    [type_test      |-> TypeString(TypeStart),
     force_shutdown |-> ForceMacro(0),
     acpi_shutdown  |-> SysPress(0, PowerDown),
     auto_shutdown  |-> ForceMacro(0) \o SysPress(ForceEnd(0) + AcpiDelay, PowerDown),
     sleep          |-> SysPress(0, Sleep)]

\* Mutant: begin_sequence_ queues no leading release-all.
Lead_None == << >>

\* begin_sequence_'s release-all guard.
Lead == << At(0, ReleaseAll) >>

Script == [a \in Actions |-> Lead \o Body[a]]
Reports == [a \in Actions |-> [i \in DOMAIN Script[a] |-> Script[a][i].report]]

\* The bound on the clock covers every script.
ASSUME ScriptAssumption ==
    \A a \in Actions : \A i \in DOMAIN Script[a] : Script[a][i].off <= MaxAge

-----------------------------------------------------------------------------
\* Wrap-around arithmetic on uint32_t, for operands below Wrap.

Plus(x, d) == IF x + d < Wrap THEN x + d ELSE x + d - Wrap
Minus(x, y) == IF y <= x THEN x - y ELSE x - y + Wrap
Signed(d) == IF 2 * d < Wrap THEN d ELSE d - Wrap

\* Mutant: the due time compared without wrap-around.
Due_Unsigned(e) == now >= e.due

\* process_events_: not ((int32_t)(now - e.due) < 0).
Due(e) == Signed(Minus(now, e.due)) >= 0

\* Mutant: the endpoint is not asked whether it is free.
HidReady_IgnoreBusy == mounted /\ ~suspended

\* tud_hid_ready()
HidReady == mounted /\ ~suspended /\ wire = <<>>

-----------------------------------------------------------------------------
Init == /\ now \in 0 .. Wrap - 1
        /\ events = <<>>
        /\ cursor = 0
        /\ loopPc = "top"
        /\ age = 0
        /\ mounted = FALSE
        /\ suspended = FALSE
        /\ wire = <<>>
        /\ host = Released

\* Mutant: the queue is emptied and the cursor left where it was.
Clear_KeepCursor == events' = <<>> /\ cursor' = cursor /\ age' = 0

\* events_.clear(); event_cursor_ = 0
Clear == events' = <<>> /\ cursor' = 0 /\ age' = 0

\* The clock.  Bound: it stands still at MaxAge while a queue is pending.
Tick == /\ events # <<>> => age < MaxAge
        /\ now' = Plus(now, 1)
        /\ age' = IF events = <<>> THEN 0 ELSE age + 1
        /\ UNCHANGED <<events, cursor, loopPc, mounted, suspended, wire, host>>

\* A button: ready_for_sequence_, begin_sequence_ and the enqueue_ calls.
\* Without a mounted host the press is logged and ignored.
Press(a) ==
    /\ loopPc = "top"
    /\ mounted
    /\ events' = [i \in DOMAIN Script[a] |->
                    [due |-> Plus(now, Script[a][i].off),
                     off |-> Script[a][i].off,
                     report |-> Script[a][i].report]]
    /\ cursor' = 0
    /\ age' = 0
    /\ UNCHANGED <<now, loopPc, mounted, suspended, wire, host>>

\* process_events_, the next event is due ...
NextDue == /\ loopPc = "top"
           /\ cursor < Len(events)
           /\ Due(events[cursor + 1])

\* ... and the host has vanished.
Abort == /\ NextDue
         /\ ~mounted
         /\ Clear
         /\ UNCHANGED <<now, loopPc, mounted, suspended, wire, host>>

\* ... and the endpoint is free.
Take == /\ NextDue
        /\ HidReady
        /\ loopPc' = "report"
        /\ UNCHANGED <<now, events, cursor, age, mounted, suspended, wire, host>>

\* tud_hid_keyboard_report / tud_hid_report, ++, and the clearing of a finished
\* queue.  The stack drops the report when the host has gone since Take.
SendReport ==
    /\ loopPc = "report"
    /\ loopPc' = "top"
    /\ wire' = IF mounted THEN << events[cursor + 1].report >> ELSE wire
    /\ IF cursor + 1 < Len(events)
       THEN cursor' = cursor + 1 /\ UNCHANGED <<events, age>>
       ELSE Clear
    /\ UNCHANGED <<now, mounted, suspended, host>>

\* The host polls the endpoint and acts on the report.
HostPoll == /\ mounted
            /\ ~suspended
            /\ wire # <<>>
            /\ host' = Apply(host, Head(wire))
            /\ wire' = <<>>
            /\ UNCHANGED <<now, events, cursor, loopPc, age, mounted, suspended>>

\* Configured by the host.
Mount == /\ ~mounted
         /\ mounted' = TRUE
         /\ UNCHANGED <<now, events, cursor, loopPc, age, suspended, wire, host>>

\* Unplugged or reset: the stack closes the endpoint, the host forgets the
\* keys of a keyboard that is gone.
Unmount == /\ mounted
           /\ mounted' = FALSE
           /\ suspended' = FALSE
           /\ wire' = <<>>
           /\ host' = Released
           /\ UNCHANGED <<now, events, cursor, loopPc, age>>

Suspend == /\ mounted
           /\ ~suspended
           /\ suspended' = TRUE
           /\ UNCHANGED <<now, events, cursor, loopPc, age, mounted, wire, host>>

Resume == /\ suspended
          /\ suspended' = FALSE
          /\ UNCHANGED <<now, events, cursor, loopPc, age, mounted, wire, host>>

SomePress == \E a \in Actions : Press(a)

Next == \/ Tick
        \/ SomePress \/ Abort \/ Take \/ SendReport
        \/ HostPoll \/ Mount \/ Unmount \/ Suspend \/ Resume

Spec == Init /\ [][Next]_vars

\* The clock runs, loop() is called for ever, and a host that is awake polls.
Fairness == /\ WF_vars(Tick)
            /\ WF_vars(Abort \/ Take)
            /\ WF_vars(SendReport)
            /\ WF_vars(HostPoll)

FairSpec == Spec /\ Fairness

-----------------------------------------------------------------------------
Event == [due : 0 .. Wrap - 1, off : 0 .. MaxAge, report : Report]

TypeOK == /\ now \in 0 .. Wrap - 1
          /\ events \in Seq(Event)
          /\ cursor \in 0 .. Len(events)
          /\ events # <<>> => cursor < Len(events)
          /\ loopPc \in {"top", "report"}
          /\ loopPc = "report" => events # <<>>
          /\ age \in 0 .. MaxAge
          /\ mounted \in BOOLEAN
          /\ suspended \in BOOLEAN
          /\ suspended => mounted
          /\ wire \in Seq(Report)
          /\ Len(wire) <= 1
          /\ host \in HostState

\* The signed comparison of process_events_ says exactly whether an event's
\* offset has passed since the button was pressed, also when millis() wraps
\* between the press and now: none goes out before its time and none is stuck.
DueExact == \A i \in DOMAIN events : Due(events[i]) <=> events[i].off <= age

\* Once nothing is queued or on its way, the host holds no key and no modifier:
\* whatever scripts were cut short by other scripts, by an unplugged host, or
\* by a report that was dropped between the checks and the send.
KeysReleasedWhenIdle ==
    events = <<>> /\ wire = <<>> => host.modifier = 0 /\ host.keycode = 0

\* The same for the system-control keys, power down and sleep, which a script
\* presses and releases too (usb_hid_wakeup.cpp:381-384, 404-405).
SysReleasedWhenIdle == events = <<>> /\ wire = <<>> => host.sys = 0

\* The engine is an implementation of ordered, drop-free delivery.
Unsent == SubSeq(events, cursor + 1, Len(events))

Delivery == INSTANCE HidDelivery
    WITH Reports <- Report,
         Scripts <- {Reports[a] : a \in Actions},
         todo    <- wire \o [i \in DOMAIN Unsent |-> Unsent[i].report],
         present <- mounted

DeliverySpec == Delivery!Spec

\* With a host that stays attached and awake, or one that stays away, and no
\* further presses, the queue drains.
Drains == (/\ <>[](mounted /\ ~suspended) \/ <>[](~mounted)
           /\ <>[][~SomePress]_vars)
          => <>[](events = <<>> /\ wire = <<>>)

-----------------------------------------------------------------------------
\* The strengthening of the invariants above that every step preserves.

\* What is about to be sent is due.  This says nothing of the time between two
\* reports: those that a busy or sleeping host held up go out back to back.
SendsDue == loopPc = "report" => events[cursor + 1].off <= age

\* now, and every due time, count from the moment of the press.
ClockInv == /\ events = <<>> => age = 0
            /\ \E base \in 0 .. Wrap - 1 :
                  /\ now = Plus(base, age)
                  /\ \A i \in DOMAIN events : events[i].due = Plus(base, events[i].off)

\* A host that is away holds nothing, and the endpoint the loop found free
\* stays free until it sends.
WireInv == /\ ~mounted => wire = <<>> /\ host = Released
           /\ loopPc = "report" => wire = <<>>

HostReleased == host.modifier = 0 /\ host.keycode = 0

\* Of the unsent events, one releases all keys and only system controls follow
SettlesLater == \E j \in cursor + 1 .. Len(events) :
                   /\ events[j].report = ReleaseAll
                   /\ \A k \in j + 1 .. Len(events) : events[k].report.kind = "sys"

\* ... or only system controls are unsent, and the release is done or on the wire.
Settled == /\ \A k \in cursor + 1 .. Len(events) : events[k].report.kind = "sys"
           /\ IF wire = <<>> THEN HostReleased
              ELSE wire[1] = ReleaseAll \/ (wire[1].kind = "sys" /\ HostReleased)

KeyInv == SettlesLater \/ Settled

IInv == TypeOK /\ ClockInv /\ SendsDue /\ WireInv /\ KeyInv

\* The steps that fairness drives are possible in the states they are wanted in.
EnginePossible ==
    /\ events # <<>> /\ age < MaxAge => ENABLED <<Tick>>_vars
    /\ NextDue /\ (~mounted \/ HidReady) => ENABLED <<Abort \/ Take>>_vars
    /\ loopPc = "report" => ENABLED <<SendReport>>_vars
    /\ mounted /\ ~suspended /\ wire # <<>> => ENABLED <<HostPoll>>_vars
=============================================================================
