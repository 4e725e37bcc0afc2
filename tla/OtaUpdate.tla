----------------------------- MODULE OtaUpdate ------------------------------
(***************************************************************************)
(* Firmware updates over HTTP in the native firmware                        *)
(* (src/native-firmware/main/ota.c, the two slots of partitions.csv): the   *)
(* upload handler, the delayed reboot, the validation task, power failures  *)
(* at any point, and the bootloader that chooses a slot.                    *)
(*                                                                         *)
(* An image is "good", "broken" (it verifies, but crashes before the        *)
(* validation delay is over) or "junk" (it does not verify); a slot that    *)
(* was erased and not completely rewritten holds "junk".  Rollback is       *)
(* CONFIG_BOOTLOADER_APP_ROLLBACK_ENABLE, which sdkconfig.defaults does not  *)
(* set and which is off by default.                                         *)
(*                                                                         *)
(* acked is history: the slot a client has been told will be booted.        *)
(***************************************************************************)
EXTENDS Naturals

CONSTANT Rollback

ASSUME RollbackAssumption == Rollback \in BOOLEAN

VARIABLES
    image,      \* per slot
    boot,       \* the slot otadata selects
    state,      \* per slot, the state in otadata
    up,         \* the firmware runs, or the device is between two runs
    running,    \* the slot of this run, or of the last one
    validating, \* validation_task has not ended
    handler,    \* where ota_post_handler is
    target,     \* its target partition
    upload,     \* the image being uploaded
    rebootDue,  \* delayed_reboot waits
    acked       \* history

flashVars == <<image, boot, state>>
runVars == <<up, running, validating>>
handlerVars == <<handler, target, upload>>
vars == <<flashVars, runVars, handlerVars, rebootDue, acked>>

Slot == {0, 1}
Image == {"good", "broken", "junk"}
Other(s) == 1 - s

Bootable(s) == image[s] # "junk"

\* A device flashed over USB: the first slot runs, otadata is blank.
Init == /\ image = [s \in Slot |-> IF s = 0 THEN "good" ELSE "junk"]
        /\ boot = 0
        /\ state = [s \in Slot |-> "undefined"]
        /\ up = TRUE
        /\ running = 0
        /\ validating = TRUE
        /\ handler = "idle"
        /\ target = 1
        /\ upload = "junk"
        /\ rebootDue = FALSE
        /\ acked = {}

-----------------------------------------------------------------------------
\* ota_post_handler.

\* Mutant: the slot after the one selected for the next boot.
NextUpdate_AfterBoot == Other(boot)

\* Mutant: no wrap-around after the last slot.
NextUpdate_NoWrap == running + 1

\* esp_ota_get_next_update_partition(NULL): the slot after the running one.
NextUpdate == Other(running)

\* esp_ota_begin() erases the slot.  It refuses while the running image is still
\* to be verified, and may fail.
Begin == /\ up
         /\ handler = "idle"
         /\ ~(Rollback /\ state[running] = "pending")
         /\ target' = NextUpdate
         /\ upload' \in Image
         /\ image' = [image EXCEPT ![NextUpdate] = "junk"]
         /\ handler' \in {"receive", "idle"}
         /\ UNCHANGED <<boot, state, runVars, rebootDue, acked>>

\* The last chunk is written ...
Received == /\ handler = "receive"
            /\ image' = [image EXCEPT ![target] = upload]
            /\ handler' = "end"
            /\ UNCHANGED <<boot, state, runVars, target, upload, rebootDue, acked>>

\* ... or the connection or a write fails before.
Abort == /\ handler = "receive"
         /\ handler' = "idle"
         /\ UNCHANGED <<flashVars, runVars, target, upload, rebootDue, acked>>

\* esp_ota_end() verifies.
End == /\ handler = "end"
       /\ handler' = IF Bootable(target) THEN "set_boot" ELSE "idle"
       /\ UNCHANGED <<flashVars, runVars, target, upload, rebootDue, acked>>

\* The state of an entry just selected: to be tried first, with rollback.
SelectedState == IF Rollback THEN "new" ELSE "undefined"

\* Mutant: the selection is not written.
Selected_Unwritten == boot

Selected == target

\* esp_ota_set_boot_partition(), which may fail.
SetBoot == /\ handler = "set_boot"
           /\ boot' = Selected
           /\ state' = [state EXCEPT ![target] = SelectedState]
           /\ handler' = "reply"
           /\ UNCHANGED <<image, runVars, target, upload, rebootDue, acked>>

SetBootFails == /\ handler = "set_boot"
                /\ handler' = "idle"
                /\ UNCHANGED <<flashVars, runVars, target, upload, rebootDue, acked>>

\* The answer, then xTaskCreate(delayed_reboot), whose result nobody looks at.
Reply == /\ handler = "reply"
         /\ acked' = {target}
         /\ rebootDue' \in {TRUE, rebootDue}
         /\ handler' = "idle"
         /\ UNCHANGED <<flashVars, runVars, target, upload>>

Handler == Begin \/ Received \/ Abort \/ End \/ SetBoot \/ SetBootFails \/ Reply

-----------------------------------------------------------------------------
\* The run ends: nothing but the flash survives.

Stop == /\ up
        /\ up' = FALSE
        /\ validating' = FALSE
        /\ handler' = "idle"
        /\ rebootDue' = FALSE
        /\ UNCHANGED <<flashVars, running, target, upload, acked>>

\* delayed_reboot, 2 s later, whatever the handler is doing by then.
Reboot == rebootDue /\ Stop

PowerFails == Stop

Crashes == image[running] = "broken" /\ Stop

\* A run outlasts ROLLBACK_VALIDATE_DELAY_S only if its image is good.
HealthyUptime == image[running] = "good"

\* validation_task: esp_ota_mark_app_valid_cancel_rollback() marks the entry
\* otadata selects.
Validate == /\ up
            /\ validating
            /\ HealthyUptime
            /\ validating' = FALSE
            /\ state' = IF state[running] = "pending"
                        THEN [state EXCEPT ![boot] = "valid"] ELSE state
            /\ UNCHANGED <<image, boot, up, running, handlerVars, rebootDue, acked>>

-----------------------------------------------------------------------------
\* The bootloader.  With rollback, an entry it finds pending is given up for the
\* other slot, and a new one becomes pending.  Then the selected slot is loaded
\* if it verifies, else the other one.

GivenUp == Rollback /\ state[boot] = "pending"

Choose == IF GivenUp THEN Other(boot) ELSE boot

Boot == /\ ~up
        /\ boot' = Choose
        /\ state' = IF GivenUp THEN [state EXCEPT ![boot] = "aborted"]
                    ELSE IF state[boot] = "new" THEN [state EXCEPT ![boot] = "pending"]
                    ELSE state
        /\ \E s \in Slot : /\ Bootable(s)
                           /\ s = Choose \/ ~Bootable(Choose)
                           /\ running' = s
        /\ up' = TRUE
        /\ validating' = TRUE
        /\ acked' = {}
        /\ UNCHANGED <<image, handlerVars, rebootDue>>

Next == Handler \/ Reboot \/ PowerFails \/ Crashes \/ Validate \/ Boot

Spec == Init /\ [][Next]_vars

\* The bootloader boots.
FairSpec == Spec /\ WF_vars(Boot)

-----------------------------------------------------------------------------
TypeOK == /\ image \in [Slot -> Image]
          /\ boot \in Slot
          /\ state \in [Slot -> {"undefined", "new", "pending", "valid", "aborted"}]
          /\ up \in BOOLEAN
          /\ running \in Slot
          /\ validating \in BOOLEAN
          /\ handler \in {"idle", "receive", "end", "set_boot", "reply"}
          /\ target \in Slot
          /\ upload \in Image
          /\ rebootDue \in BOOLEAN
          /\ acked \subseteq Slot

\* An update never touches the image that runs, also when the other slot has
\* already been selected for the next boot: the last run's image boots again.
LastRunBootable == Bootable(running)

\* The inductive invariant, in parts.

\* An upload goes to the slot that does not run, and selects only what verifies.
Uploads ==
    /\ handler # "idle" => /\ up
                           /\ target = Other(running)
                           /\ Rollback => state[running] # "pending"
    /\ handler \in {"set_boot", "reply"} => Bootable(target)
    /\ handler = "reply" => boot = target /\ state[target] = SelectedState

\* Only the selected entry can be on trial, and it is not new while it runs.
Trials == /\ \A s \in Slot : state[s] \in {"new", "pending"} => Rollback /\ boot = s
          /\ state[running] # "new"

\* What was acknowledged is selected, and not about to be given up.
Acked == \A s \in acked : /\ s = Other(running)
                          /\ boot = s
                          /\ Rollback => state[s] = "new" /\ state[running] # "pending"

IInv == TypeOK /\ LastRunBootable /\ Uploads /\ Trials /\ Acked

\* What a client was told will run is what the next boot runs, unless a later
\* upload has erased it, even if the power fails before the reboot.
AckedRuns ==
    [][~up /\ up' => \A s \in acked : Bootable(s) => running' = s]_vars

\* "If it crashes before 30 s [...] the rollback partition automatically takes
\* back over on the next boot" (README.md:138-139): a run of an image that crashes
\* before the validation is followed by a run of the other slot.
RollsBack ==
    [][~up /\ up' /\ image[running] = "broken" => running' # running]_vars

\* Wherever the power fails and however uploads are cut short, the device always
\* comes back to firmware that works; the one exception is that, without rollback,
\* from some time on it runs nothing but the broken image it was told to run.
ComesBack == \/ []<>(up /\ image[running] = "good")
             \/ <>[](image[running] = "broken")

\* The step that fairness drives is possible in the states it is wanted in.
BootPossible == ~up => ENABLED <<Boot>>_vars
=============================================================================
