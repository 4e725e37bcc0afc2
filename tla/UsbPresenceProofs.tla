-------------------------- MODULE UsbPresenceProofs --------------------------
(***************************************************************************)
(* Proof that the ESPHome component shows the PC as usable only if it was.  *)
(***************************************************************************)
EXTENDS UsbPresence, TLAPS

\* What the proof needs of the types.
Types == /\ mounted \in BOOLEAN /\ suspended \in BOOLEAN /\ flag \in BOOLEAN
         /\ seenMounted \in BOOLEAN
         /\ DOMAIN shown = {"mounted", "suspended", "awake", "status"}

\* From the first pass on, Home Assistant has what was last published.
ShownIsLast == published => shown = last

\* Only a mounted device is suspended, and s_suspended never misses it, though it may
\* outlive it.
FlagNotMissing == suspended => mounted /\ flag

\* A pass that found the host mounted, and has not seen it awake, will find the flag.
AwakeOrFlagged == reading /\ seenMounted => wasAwake \/ flag

PresenceInv == Types /\ ShownIsLast /\ FlagNotMissing /\ AwakeOrFlagged

\* Every pass leaves Home Assistant with what it read.
LEMMA ShowsCurrent ==
  ASSUME Types, ShownIsLast, Publish
  PROVE  shown' = Current(seenMounted, flag)
<1>1. CASE ~published
  BY <1>1 DEF Publish, FirstPublish
<1>2. CASE published
  <2>1. shown' = Changed(seenMounted, flag) /\ shown = last
    BY <1>2 DEF Publish, ShownIsLast
  <2>2. Changed(seenMounted, flag) = [f \in DOMAIN shown |-> Current(seenMounted, flag)[f]]
    BY <2>1 DEF Changed
  <2>3. Current(seenMounted, flag) =
          [f \in {"mounted", "suspended", "awake", "status"} |-> Current(seenMounted, flag)[f]]
    BY DEF Current
  <2> QED
    BY <2>1, <2>2, <2>3 DEF Types
<1> QED
  BY <1>1, <1>2

LEMMA InitPresence == Init => PresenceInv
  BY DEF Init, PresenceInv, Types, ShownIsLast, FlagNotMissing, AwakeOrFlagged, Unknown

LEMMA NextPresence == PresenceInv /\ [Next]_vars => PresenceInv'
<1> SUFFICES ASSUME PresenceInv, [Next]_vars PROVE PresenceInv'
  OBVIOUS
<1> USE DEF PresenceInv, Types, ShownIsLast, FlagNotMissing, AwakeOrFlagged
<1>1. CASE Publish
  <2>1. shown' = Current(seenMounted, flag)
    BY <1>1, ShowsCurrent
  <2>2. DOMAIN shown' = {"mounted", "suspended", "awake", "status"}
    BY <2>1 DEF Current
  <2> QED
    BY <1>1, <2>1, <2>2 DEF Publish, bus
<1>2. CASE ReadMounted
  BY <1>2 DEF ReadMounted, Awake, bus
<1>3. CASE Setup \/ Wakeup
  BY <1>3 DEF Setup, Wakeup, bus, pass
<1>4. CASE Mount
  BY <1>4 DEF Mount, pass
<1>5. CASE Resume
  BY <1>5 DEF Resume, pass
<1>6. CASE Unmount
  BY <1>6 DEF Unmount, pass
<1>7. CASE Suspend
  BY <1>7 DEF Suspend, SuspendFlag, pass
<1>8. CASE UNCHANGED vars
  BY <1>8 DEF vars, bus, pass
<1> QED
  BY <1>1, <1>2, <1>3, <1>4, <1>5, <1>6, <1>7, <1>8 DEF Next

\* However the bus moves between the two reads of loop(), the PC is shown as usable
\* only if it has been awake during that pass.
THEOREM AwakeTruthful == Spec => AwakeShownWasAwake
<1>1. ASSUME PresenceInv, [Next]_vars, reading, ~reading', shown'.awake = "on"
      PROVE  wasAwake
  <2>1. Publish
    BY <1>1 DEF Next, Setup, ReadMounted, Wakeup, Mount, Suspend, Resume, Unmount, vars, pass
  <2>2. shown' = Current(seenMounted, flag)
    BY <1>1, <2>1, ShowsCurrent DEF PresenceInv
  <2>3. seenMounted /\ ~flag
    BY <1>1, <2>2 DEF Current, AsOnOff, PresenceInv, Types
  <2> QED
    BY <1>1, <2>3 DEF PresenceInv, AwakeOrFlagged
<1> QED
  BY <1>1, InitPresence, NextPresence, PTL DEF Spec, AwakeShownWasAwake

-----------------------------------------------------------------------------
\* When the bus is quiet.

Quiet(m, s) == setup = "started" /\ mounted = m /\ flag = s

\* The four sensors agree with m and s, and the pass under way will not change that.
Agrees(m, s) == shown = Current(m, s) /\ (reading => seenMounted = m)

\* While the bus is quiet, a pass that began before is followed by one that began
\* since, whose publication agrees, as every later one does.
LEMMA QuietSteps ==
  ASSUME NEW m, NEW s, Types, ShownIsLast, Quiet(m, s), Quiet(m, s)', [Next]_vars
  PROVE  /\ Agrees(m, s) => Agrees(m, s)'
         /\ ReadMounted => (reading /\ seenMounted = m)'
         /\ Publish => ~reading'
         /\ Publish /\ seenMounted = m => Agrees(m, s)'
         /\ reading /\ seenMounted = m => (reading /\ seenMounted = m)' \/ Agrees(m, s)'
<1>1. ASSUME Publish PROVE shown' = Current(seenMounted, flag) /\ ~reading'
  BY <1>1, ShowsCurrent DEF Publish
<1>2. ASSUME ReadMounted PROVE seenMounted' = m /\ reading' /\ shown' = shown
  BY <1>2 DEF ReadMounted, Quiet
<1>3. Publish \/ ReadMounted \/ UNCHANGED <<reading, seenMounted, shown>>
  BY DEF Next, Setup, Wakeup, Mount, Suspend, Resume, Unmount, vars, pass
<1>4. Publish => reading
  BY DEF Publish
<1>5. ReadMounted => ~reading
  BY DEF ReadMounted
<1> QED
  BY <1>1, <1>2, <1>3, <1>4, <1>5 DEF Agrees, Quiet

LEMMA CatchUp ==
  ASSUME NEW m \in BOOLEAN, NEW s \in BOOLEAN
  PROVE  FairSpec /\ []LoopPossible => CatchesUpWith(m, s)
<1> DEFINE Q == Quiet(m, s)
           Asked == reading /\ seenMounted = m
           Agree == Agrees(m, s)
           Base == Types /\ ShownIsLast
<1>1. /\ Base /\ Q /\ Q' /\ Agree /\ [Next]_vars => Agree'
      /\ Base /\ Q /\ Q' /\ <<ReadMounted>>_vars => Asked'
      /\ Base /\ Q /\ Q' /\ <<Publish>>_vars => ~reading'
      /\ Base /\ Q /\ Q' /\ Asked /\ <<Publish>>_vars => Agree'
      /\ Base /\ Q /\ Q' /\ Asked /\ [Next]_vars => Asked' \/ Agree'
  <2> SUFFICES ASSUME Base, Q, Q', [Next]_vars
               PROVE  /\ Agree => Agree'
                      /\ ReadMounted => Asked'
                      /\ Publish => ~reading'
                      /\ Asked /\ Publish => Agree'
                      /\ Asked => Asked' \/ Agree'
    BY DEF Next
  <2> QED
    BY QuietSteps
<1>2. Base /\ Q /\ Q' /\ ~reading /\ [Next]_vars => Asked' \/ ~reading'
  <2>1. Q /\ ~reading /\ [Next]_vars => ReadMounted \/ UNCHANGED reading
    BY DEF Next, Setup, Publish, Wakeup, Mount, Suspend, Resume, Unmount, vars, pass
  <2> QED
    BY <2>1, QuietSteps
<1>3. /\ LoopPossible /\ Q /\ ~reading => ENABLED <<ReadMounted>>_vars
      /\ LoopPossible /\ reading => ENABLED <<Publish>>_vars
  BY DEF LoopPossible, Quiet
<1>4. /\ PresenceInv => Base
      /\ Agree => shown = Current(m, s)
      /\ setup = "started" /\ mounted = m /\ flag = s => Q
  BY DEF PresenceInv, Agrees, Quiet
<1> HIDE DEF Q, Agree, Base
<1> QED
  BY <1>1, <1>2, <1>3, <1>4, InitPresence, NextPresence, PTL DEF FairSpec, Spec, CatchesUpWith

\* Once the bus is quiet, all four sensors come to agree with what the component
\* keeps, and stay so.  LoopPossible, which says that loop() can go on, is a
\* hypothesis, for want of a rule about ENABLED.
THEOREM SensorsCatchUp == FairSpec /\ []LoopPossible => ShownCatchesUp
<1> DEFINE Runs == FairSpec /\ []LoopPossible
<1>1. \A m, s \in BOOLEAN : Runs => CatchesUpWith(m, s)
  <2> TAKE m, s \in BOOLEAN
  <2> QED
    BY CatchUp
<1> HIDE DEF Runs
<1>2. Runs => ShownCatchesUp
  BY <1>1, Zenon DEF ShownCatchesUp
<1> QED
  BY <1>2 DEF Runs
=============================================================================
