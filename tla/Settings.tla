------------------------------ MODULE Settings ------------------------------
(***************************************************************************)
(* What the provisioning of the native firmware promises, abstractly.  The  *)
(* form of a request alone says which settings it asks for.  While it is    *)
(* handled these change, one by one, and no others; it is answered "ok"     *)
(* only when all of them have the value asked for.  Nothing else changes a  *)
(* setting, but the erasure of everything: what an "ok" was about holds     *)
(* until another request is handled, whatever restarts happen between.      *)
(*                                                                         *)
(* Two things are not promised.  A request that is given up (an error, a    *)
(* restart) may leave some of its settings changed and others not.  And a   *)
(* request whose handler cannot read the settings may also change those it  *)
(* loses by that.                                                           *)
(***************************************************************************)
CONSTANTS Request,
          Asks,         \* the settings, <<key, value>>, each request asks for
          Loses,        \* those it changes as well when they cannot be read
          Initially     \* what every setting is after an erasure

VARIABLES value,    \* the settings
          asked,    \* what the request being handled changes
          answer    \* to the last request: "pending", "ok", or "none" when given up

vars == <<value, asked, answer>>

Init == /\ value = Initially
        /\ asked = {}
        /\ answer = "none"

Begin == /\ answer # "pending"
         /\ answer' = "pending"
         /\ \E r \in Request : asked' \in {Asks[r], Asks[r] \union Loses[r]}
         /\ UNCHANGED value

Apply == /\ answer = "pending"
         /\ UNCHANGED <<asked, answer>>
         /\ \E p \in asked : value' = [value EXCEPT ![p[1]] = p[2]]

Acknowledge == /\ answer = "pending"
               /\ answer' = "ok"
               /\ asked' = {}
               /\ \A p \in asked : value[p[1]] = p[2]
               /\ UNCHANGED value

GiveUp == /\ answer = "pending"
          /\ answer' = "none"
          /\ asked' = {}
          /\ UNCHANGED value

Erase == /\ answer # "pending"
         /\ answer' = "none"
         /\ value' = Initially
         /\ UNCHANGED asked

Next == Begin \/ Apply \/ Acknowledge \/ GiveUp \/ Erase

Spec == Init /\ [][Next]_vars
=============================================================================
