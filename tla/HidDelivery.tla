---------------------------- MODULE HidDelivery ----------------------------
(***************************************************************************)
(* What the typing engine promises (usb_hid_wakeup.h, "ordered, drop-free   *)
(* delivery"): a button press makes a whole script of reports due; the host *)
(* then receives them in the order of the script, each once, and the only   *)
(* ways not to receive one are that a newer script replaces the rest, or    *)
(* that the host went away.  Time, the queue's cursor, the endpoint and the *)
(* two tasks of the device do not appear here.                              *)
(***************************************************************************)
EXTENDS Integers, Sequences

CONSTANTS Reports,              \* the reports a script can hold
          Scripts,              \* the scripts: sequences of reports
          HostState,            \* what the host remembers of the reports
          Released,             \* ... when it remembers none
          Apply(_, _)           \* the host's reaction to a report

VARIABLES todo,                 \* reports the host is still to receive
          host,                 \* the host's state
          present               \* the device is attached to the host

vars == <<todo, host, present>>

TypeOK == /\ todo \in Seq(Reports)
          /\ host \in HostState
          /\ present \in BOOLEAN

Init == /\ todo = <<>>
        /\ host = Released
        /\ present = FALSE

\* A new script replaces what is left of the old one, except for the report
\* the device may already have handed to its endpoint.
Start == /\ present
         /\ \E script \in Scripts :
                \/ todo' = script
                \/ todo # <<>> /\ todo' = <<Head(todo)>> \o script
         /\ UNCHANGED <<host, present>>

Deliver == /\ present
           /\ todo # <<>>
           /\ host' = Apply(host, Head(todo))
           /\ todo' = Tail(todo)
           /\ UNCHANGED present

\* The host goes away, forgets the keys, and a report on its way is lost.
Vanish == /\ present
          /\ present' = FALSE
          /\ host' = Released
          /\ todo' \in {todo} \union (IF todo = <<>> THEN {} ELSE {Tail(todo)})

\* While it is away a report may still be sent into the void, or the rest of
\* the script given up.
Lose == /\ ~present
        /\ todo # <<>>
        /\ todo' \in {Tail(todo), <<>>}
        /\ UNCHANGED <<host, present>>

Return == /\ ~present
          /\ present' = TRUE
          /\ UNCHANGED <<todo, host>>

Next == Start \/ Deliver \/ Vanish \/ Lose \/ Return

Spec == Init /\ [][Next]_vars
=============================================================================
