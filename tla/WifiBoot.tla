------------------------------ MODULE WifiBoot ------------------------------
(***************************************************************************)
(* What the start of Wi-Fi promises the rest of the native firmware (the    *)
(* state machine of src/native-firmware/README.md): with credentials, at    *)
(* most Attempts attempts to join the network, then station mode or the     *)
(* access point; without, the access point.  The outcome is final.          *)
(* WifiManager implements it.                                               *)
(***************************************************************************)
EXTENDS Naturals

CONSTANT Attempts

VARIABLES phase,    \* "boot", "trying", "sta", "ap"
          tries     \* attempts begun

Init == /\ phase = "boot"
        /\ tries = 0

Try == /\ phase \in {"boot", "trying"}
       /\ tries < Attempts
       /\ phase' = "trying"
       /\ tries' = tries + 1

Join == /\ phase = "trying"
        /\ phase' = "sta"
        /\ tries' = tries

\* Without credentials, or with every attempt spent.
FallBack == /\ \/ phase = "boot"
               \/ phase = "trying" /\ tries = Attempts
            /\ phase' = "ap"
            /\ tries' = tries

Next == Try \/ Join \/ FallBack

Spec == Init /\ [][Next]_<<phase, tries>>
=============================================================================
