-------------------------- MODULE OtaUpdateProofs ---------------------------
(***************************************************************************)
(* Proofs about firmware updates, for both bootloader configurations.       *)
(***************************************************************************)
EXTENDS OtaUpdate, TLAPS

LEMMA InitIInv == Init => IInv
<1> SUFFICES ASSUME Init PROVE IInv
  OBVIOUS
<1>1. TypeOK
  <2>1. up \in BOOLEAN /\ validating \in BOOLEAN /\ rebootDue \in BOOLEAN
    BY Zenon DEF Init
  <2>2. image \in [Slot -> Image] /\ state = [s \in Slot |-> "undefined"]
    BY DEF Init, Slot, Image
  <2> QED
    BY <2>1, <2>2 DEF Init, TypeOK, Slot, Image
<1>2. LastRunBootable /\ Uploads
  BY DEF Init, LastRunBootable, Bootable, Uploads, Slot
<1>3. Trials /\ Acked
  BY DEF Init, Trials, Acked, Slot
<1> QED
  BY <1>1, <1>2, <1>3 DEF IInv

LEMMA OtherSlot == \A s \in Slot : /\ Other(s) \in Slot
                                   /\ Other(s) # s
                                   /\ Other(Other(s)) = s
                                   /\ \A t \in Slot : t = s \/ t = Other(s)
  BY DEF Slot, Other

\* Each of the handler's steps, the ends of a run, the validation and the
\* bootloader keep the invariant.

LEMMA BeginStep == IInv /\ Begin => IInv'
<1> SUFFICES ASSUME IInv, Begin PROVE IInv'
  OBVIOUS
<1> USE DEF flashVars, runVars, handlerVars
<1>1. /\ NextUpdate = Other(running) /\ NextUpdate \in Slot /\ NextUpdate # running
      /\ \A s \in Slot : s = running \/ s = NextUpdate
  BY OtherSlot DEF IInv, TypeOK, NextUpdate
<1>2. \A s \in Slot : image'[s] = IF s = NextUpdate THEN "junk" ELSE image[s]
  BY <1>1 DEF IInv, TypeOK, Begin
<1>3. TypeOK'
  BY <1>1 DEF IInv, TypeOK, Begin, Image
<1>4. LastRunBootable'
  BY <1>1, <1>2 DEF IInv, TypeOK, Begin, LastRunBootable, Bootable
<1>5. Uploads'
  BY <1>1 DEF IInv, Begin, Uploads
<1>6. Trials' /\ Acked'
  BY DEF IInv, Begin, Trials, Acked
<1> QED
  BY <1>3, <1>4, <1>5, <1>6 DEF IInv

LEMMA ReceivedStep == IInv /\ Received => IInv'
<1> SUFFICES ASSUME IInv, Received PROVE IInv'
  OBVIOUS
<1> USE DEF flashVars, runVars, handlerVars
<1>1. /\ target \in Slot /\ target = Other(running) /\ target # running
      /\ \A s \in Slot : s = running \/ s = target
  BY OtherSlot DEF IInv, TypeOK, Uploads, Received
<1>2. \A s \in Slot : image'[s] = IF s = target THEN upload ELSE image[s]
  BY <1>1 DEF IInv, TypeOK, Received
<1>3. TypeOK'
  BY <1>1 DEF IInv, TypeOK, Received
<1>4. LastRunBootable'
  BY <1>1, <1>2 DEF IInv, TypeOK, Received, LastRunBootable, Bootable
<1>5. Uploads'
  BY <1>1 DEF IInv, Received, Uploads
<1>6. Trials' /\ Acked'
  BY DEF IInv, Received, Trials, Acked
<1> QED
  BY <1>3, <1>4, <1>5, <1>6 DEF IInv

\* Failures and the verification leave the flash alone.
LEMMA QuietStep == IInv /\ (Abort \/ End \/ SetBootFails) => IInv'
<1> SUFFICES ASSUME IInv, Abort \/ End \/ SetBootFails PROVE IInv'
  OBVIOUS
<1> USE DEF flashVars, runVars, handlerVars
<1>1. /\ UNCHANGED <<image, boot, state, up, running, validating, target, upload>>
      /\ UNCHANGED <<rebootDue, acked>>
      /\ handler' \in {"idle", "set_boot"}
      /\ handler # "idle"
      /\ handler' = "set_boot" => Bootable(target)
  BY DEF Abort, End, SetBootFails
<1>2. TypeOK'
  BY <1>1 DEF IInv, TypeOK
<1>3. LastRunBootable' /\ Trials' /\ Acked'
  BY <1>1 DEF IInv, LastRunBootable, Trials, Acked, Bootable
<1>4. Uploads'
  BY <1>1 DEF IInv, Uploads, Bootable
<1> QED
  BY <1>2, <1>3, <1>4 DEF IInv

LEMMA SetBootStep == IInv /\ SetBoot => IInv'
<1> SUFFICES ASSUME IInv, SetBoot PROVE IInv'
  OBVIOUS
<1> USE DEF flashVars, runVars, handlerVars
<1>1. /\ target \in Slot /\ target = Other(running) /\ target # running
      /\ \A s \in Slot : s = running \/ s = target
      /\ Rollback => state[running] # "pending"
      /\ Bootable(target)
  BY OtherSlot DEF IInv, TypeOK, Uploads, SetBoot
<1>2. \A s \in Slot : state'[s] = IF s = target THEN SelectedState ELSE state[s]
  BY <1>1 DEF IInv, TypeOK, SetBoot
<1>3. boot' = target /\ image' = image /\ running' = running
  BY DEF SetBoot, Selected
<1>4. TypeOK'
  BY <1>1 DEF IInv, TypeOK, SetBoot, Selected, SelectedState
<1>5. LastRunBootable'
  BY <1>3 DEF IInv, LastRunBootable, Bootable
<1>6. Uploads'
  BY <1>1, <1>2, <1>3 DEF IInv, SetBoot, Uploads, Bootable
<1>7. Trials'
  <2>1. state[running] \notin {"new", "pending"}
    BY <1>1 DEF IInv, TypeOK, Trials
  <2>2. running \in Slot /\ state'[running] # "new"
    BY <1>1, <1>2, <2>1 DEF IInv, TypeOK
  <2>3. \A s \in Slot : state'[s] \in {"new", "pending"} => Rollback /\ s = target
    BY <1>1, <1>2, <2>1 DEF SelectedState
  <2> QED
    BY <1>3, <2>2, <2>3 DEF Trials
<1>8. Acked'
  BY <1>1, <1>2, <1>3 DEF IInv, SetBoot, Acked, SelectedState
<1> QED
  BY <1>4, <1>5, <1>6, <1>7, <1>8 DEF IInv

LEMMA ReplyStep == IInv /\ Reply => IInv'
<1> SUFFICES ASSUME IInv, Reply PROVE IInv'
  OBVIOUS
<1> USE DEF flashVars, runVars, handlerVars
<1>1. TypeOK'
  BY DEF IInv, TypeOK, Reply
<1>2. LastRunBootable' /\ Trials'
  BY DEF IInv, Reply, LastRunBootable, Trials, Bootable
<1>3. Uploads'
  BY DEF Reply, Uploads
<1>4. Acked'
  BY DEF IInv, Uploads, Reply, Acked, SelectedState
<1> QED
  BY <1>1, <1>2, <1>3, <1>4 DEF IInv

LEMMA StopStep == IInv /\ Stop => IInv'
<1> SUFFICES ASSUME IInv, Stop PROVE IInv'
  OBVIOUS
<1> USE DEF flashVars, runVars, handlerVars
<1>1. TypeOK'
  BY DEF IInv, TypeOK, Stop
<1>2. LastRunBootable' /\ Trials' /\ Acked'
  BY DEF IInv, Stop, LastRunBootable, Trials, Acked, Bootable
<1>3. Uploads'
  BY DEF Stop, Uploads
<1> QED
  BY <1>1, <1>2, <1>3 DEF IInv

LEMMA ValidateStep == IInv /\ Validate => IInv'
<1> SUFFICES ASSUME IInv, Validate PROVE IInv'
  OBVIOUS
<1> USE DEF flashVars, runVars, handlerVars
<1>1. TypeOK'
  BY Zenon DEF IInv, TypeOK, Validate
<1>2. LastRunBootable'
  BY DEF IInv, Validate, LastRunBootable, Bootable
<1>3. CASE state[running] # "pending"
  <2>1. UNCHANGED <<image, boot, state, up, running, handler, target, acked>>
    BY <1>3 DEF Validate
  <2>2. Uploads' /\ Trials' /\ Acked'
    BY <2>1 DEF IInv, Uploads, Trials, Acked, Validate, Bootable
  <2> QED
    BY <1>1, <1>2, <2>2 DEF IInv
<1>4. CASE state[running] = "pending"
  <2>1. /\ Rollback /\ boot = running /\ running \in Slot
        /\ handler = "idle" /\ acked = {}
    BY <1>4, OtherSlot DEF IInv, TypeOK, Trials, Uploads, Acked
  <2>2. \A s \in Slot : state'[s] = IF s = boot THEN "valid" ELSE state[s]
    BY <1>4, <2>1 DEF IInv, TypeOK, Validate
  <2>3. UNCHANGED <<image, boot, up, running, handler, target, acked>>
    BY DEF Validate
  <2>4. Uploads' /\ Acked'
    BY <2>1, <2>3 DEF Uploads, Acked
  <2>5. Trials'
    BY <2>1, <2>2, <2>3 DEF IInv, Trials
  <2> QED
    BY <1>1, <1>2, <2>4, <2>5 DEF IInv
<1> QED
  BY <1>3, <1>4

\* The bootloader ends a trial, starts one, or boots what it booted before.
LEMMA BootStep == IInv /\ Boot => IInv'
<1> SUFFICES ASSUME IInv, Boot PROVE IInv'
  OBVIOUS
<1> USE DEF flashVars, runVars, handlerVars
<1>1. /\ boot \in Slot /\ running \in Slot /\ running' \in Slot
      /\ Choose \in Slot /\ boot' = Choose
      /\ Bootable(running') /\ Bootable(running)
      /\ running' = Choose \/ ~Bootable(Choose)
      /\ handler = "idle"
  BY OtherSlot DEF IInv, TypeOK, LastRunBootable, Uploads, Boot, Choose
<1>2. UNCHANGED <<image, handler, target>> /\ acked' = {}
  BY DEF Boot
<1>3. CASE GivenUp
  <2>1. /\ Rollback /\ state[boot] = "pending" /\ boot' = Other(boot)
        /\ \A s \in Slot : state'[s] = IF s = boot THEN "aborted" ELSE state[s]
    BY <1>1, <1>3 DEF IInv, TypeOK, Boot, GivenUp, Choose
  <2>2. \A s \in Slot : state'[s] \notin {"new", "pending"}
    BY <2>1, <1>1 DEF IInv, Trials
  <2>3. TypeOK'
    BY <1>1, <1>2, <1>3, <2>1 DEF IInv, TypeOK, Boot
  <2>4. Trials'
    BY <1>1, <2>2 DEF Trials
  <2> QED
    BY <1>1, <1>2, <2>3, <2>4 DEF IInv, LastRunBootable, Uploads, Acked, Bootable
<1>4. CASE ~GivenUp
  <2>1. /\ boot' = boot
        /\ \A s \in Slot : state'[s] = IF s = boot /\ state[s] = "new" THEN "pending"
                                        ELSE state[s]
    BY <1>1, <1>4 DEF IInv, TypeOK, Boot, Choose
  <2>2. TypeOK'
    BY <1>1, <1>2, <1>4, <2>1 DEF IInv, TypeOK, Boot
  <2>3. Trials'
    BY <1>1, <2>1 DEF IInv, Trials
  <2> QED
    BY <1>1, <1>2, <2>2, <2>3 DEF IInv, LastRunBootable, Uploads, Acked, Bootable
<1> QED
  BY <1>3, <1>4

\* The inductive invariant: where an upload may write, and which otadata entry can
\* be on trial.
THEOREM Invariance == Spec => []IInv
<1>1. IInv /\ UNCHANGED vars => IInv'
  BY DEF IInv, TypeOK, LastRunBootable, Uploads, Trials, Acked, Bootable,
         SelectedState, vars, flashVars, runVars, handlerVars
<1>2. IInv /\ [Next]_vars => IInv'
  BY <1>1, BeginStep, ReceivedStep, QuietStep, SetBootStep, ReplyStep, StopStep,
     ValidateStep, BootStep
  DEF Next, Handler, Reboot, PowerFails, Crashes
<1> QED
  BY InitIInv, <1>2, PTL DEF Spec

\* The state of the update is well typed: the upload goes to one of the two slots,
\* and the bootloader's entry of a slot is one it knows.
THEOREM TypeCorrect == Spec => []TypeOK
<1>1. IInv => TypeOK
  BY DEF IInv
<1> QED
  BY <1>1, Invariance, PTL

\* An update never touches the image that runs: the last run's image boots again,
\* with and without rollback, wherever the power fails.
THEOREM NeverBricked == Spec => []LastRunBootable
<1>1. IInv => LastRunBootable
  BY DEF IInv
<1> QED
  BY Invariance, <1>1, PTL

\* Between two runs only the bootloader acts.
LEMMA BootOnly == IInv /\ ~up /\ Next => Boot
<1> SUFFICES ASSUME IInv, ~up, Next PROVE Boot
  OBVIOUS
<1>1. handler = "idle"
  BY DEF IInv, Uploads
<1> QED
  BY <1>1 DEF Next, Handler, Begin, Received, Abort, End, SetBoot, SetBootFails,
              Reply, Reboot, PowerFails, Crashes, Stop, Validate

\* The slot an upload was acknowledged for is the one the next boot runs, unless
\* a later upload has erased it.
THEOREM AcknowledgedRuns == Spec => AckedRuns
<1>1. ASSUME IInv, [Next]_vars
      PROVE  [~up /\ up' => \A s \in acked : Bootable(s) => running' = s]_vars
  <2>1. ASSUME ~up, up', Next PROVE Boot
    BY <1>1, <2>1, BootOnly
  <2>2. ASSUME Boot, NEW s \in acked, Bootable(s) PROVE running' = s
    <3>1. boot = s /\ ~GivenUp
      BY <1>1 DEF IInv, TypeOK, Acked, GivenUp
    <3> QED
      BY <2>2, <3>1 DEF Boot, Choose
  <2> QED
    BY <1>1, <2>1, <2>2
<1> QED
  BY <1>1, Invariance, PTL DEF Spec, AckedRuns

\* The device always comes back to firmware that works, or from some time on it runs
\* nothing but a broken image: wherever the power fails, however uploads are cut
\* short, with and without rollback.  BootPossible, which says when the bootloader
\* can take its step, is a hypothesis, for want of a rule about ENABLED.
THEOREM ComesBackUnlessBroken == FairSpec /\ []BootPossible => ComesBack
<1> DEFINE Good == image[running] = "good"
           Broken == image[running] = "broken"
<1>1. IInv => Good \/ Broken
  BY DEF IInv, TypeOK, LastRunBootable, Bootable, Image
<1>2. ASSUME IInv, ~up, [Next]_vars
      PROVE  up' \/ UNCHANGED <<image, running>>
  <2>1. ASSUME UNCHANGED vars PROVE UNCHANGED <<image, running>>
    BY <2>1 DEF vars, flashVars, runVars
  <2>2. ASSUME Boot PROVE up'
    BY <2>2 DEF Boot
  <2> QED
    BY <1>2, <2>1, <2>2, BootOnly
<1>3. IInv /\ ~up /\ Good /\ [Next]_vars => up' \/ Good'
  BY <1>2
<1>4. IInv /\ ~up /\ Broken /\ [Next]_vars => up' \/ Broken'
  BY <1>2
<1>5. <<Boot>>_vars => up'
  BY DEF Boot
<1>6. IInv /\ up /\ Broken /\ [Next]_vars => Broken'
  <2> SUFFICES ASSUME IInv, up, Broken, [Next]_vars PROVE Broken'
    OBVIOUS
  <2>1. running' = running /\ image'[running] = image[running]
    <3>1. CASE Begin
      BY <3>1, OtherSlot DEF Begin, NextUpdate, IInv, TypeOK, runVars
    <3>2. CASE Received
      BY <3>2, OtherSlot DEF Received, IInv, TypeOK, Uploads, runVars
    <3>3. CASE Abort \/ End \/ SetBoot \/ SetBootFails \/ Reply \/ Stop \/ Validate
                \/ UNCHANGED vars
      BY <3>3 DEF Abort, End, SetBoot, SetBootFails, Reply, Stop, Validate, vars,
                  flashVars, runVars
    <3>4. ~Boot
      BY DEF Boot
    <3> QED
      BY <3>1, <3>2, <3>3, <3>4 DEF Next, Handler, Reboot, PowerFails, Crashes
  <2> QED
    BY <2>1
<1>7. BootPossible /\ ~up => ENABLED <<Boot>>_vars
  BY DEF BootPossible
<1>8. []IInv /\ [][Next]_vars /\ []BootPossible /\ WF_vars(Boot)
      => []<>(up /\ Good) \/ <>[]Broken
  BY <1>1, <1>3, <1>4, <1>5, <1>6, <1>7, PTL
<1> QED
  BY <1>8, Invariance, PTL DEF FairSpec, Spec, ComesBack
=============================================================================
