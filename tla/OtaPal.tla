-------------------------------- MODULE OtaPal --------------------------------
(***************************************************************************)
(* The platform layer of the firmware update: two flash banks, the option  *)
(* byte that says which one boots, the context file in the file system,    *)
(* and the functions otaPal_* over them, with their two callers, the OTA   *)
(* agent task and the self-test timer (a callback in the timer task).      *)
(*                                                                         *)
(* A step ends with at most one durable operation: write or delete the     *)
(* context file, erase or program a bank, program the option byte, reset.  *)
(* Power can fail between any two steps.                                   *)
(***************************************************************************)
EXTENDS Integers

CONSTANT Faults  \* what may go wrong: a subset of FaultKinds

FaultKinds == {"power", "write", "delete", "erase", "select"}
ASSUME FaultsAssumption == Faults \subseteq FaultKinds

Banks == {1, 2}              \* FLASH_BANK_1, FLASH_BANK_2
NoBank == 0
Tasks == {"ota", "timer"}
Contents == {"erased", "partial", "authentic"}
PalStates == {"READY", "FILE_OPEN", "PENDING_ACTIVATION", "PENDING_SELF_TEST",
              "NEW_IMAGE_BOOTED", "NEW_IMAGE_WDT_RESET", "SELF_TEST_FAILED",
              "ACCEPTED", "REJECTED"}
NoContext == [state |-> "READY", target |-> NoBank]  \* no file: the defaults

VARIABLES
  \* durable
  nv,        \* IMAGE_CONTEXT_FILE_NAME: state and target bank, NoContext if absent
  ob,        \* the bank the option byte selects
  image,     \* what each bank holds
  \* xPalContext and ulBankAtBootup
  palState, target, pending, active,
  \* the processor and its tasks
  power,     \* "on", "off", or "halted" by a failed assertion
  pc,        \* the step of the platform layer each task is at
  after,     \* the call each task makes when this one returns
  copy,      \* xNvContext, the copy prvWritePalNvContext takes before it opens the file
  goal,      \* the state the OTA task sets once it has erased the new image
  agent,     \* the OTA agent: booting, waiting for a job, receiving or testing
  timerArmed,  \* OtaSelfTestTimer
  \* history: banks whose image has been accepted, and whose unaccepted
  \* image has been run; has an operation on the flash failed
  confirmed, tried, worn

context == <<palState, target, pending, active>>
control == <<power, pc, after, copy, goal, agent, timerArmed>>
durable == <<nv, ob, image>>
history == <<confirmed, tried, worn>>
vars == <<durable, context, control, history>>

\* ulGetOtherBank
Other(bank) == IF bank \in Banks THEN 3 - bank ELSE NoBank

PCs == {"idle", "earlyInit", "earlySave", "earlyDelete", "earlyErase",
        "create", "createDelete", "close", "activate", "setRejected", "setAborted",
        "erase", "discard", "commit", "committed", "stopTimer",
        "reset", "resetSave", "resetDelete", "select", "selectOnly", "apply"}

Init ==
  /\ nv = NoContext /\ ob = 1
  /\ image = [b \in Banks |-> IF b = 1 THEN "authentic" ELSE "erased"]
  /\ palState = "READY" /\ target = NoBank /\ pending = NoBank /\ active = 1
  /\ power = "off"
  /\ pc = [t \in Tasks |-> "idle"] /\ after = [t \in Tasks |-> "idle"]
  /\ copy = [t \in Tasks |-> NoContext] /\ goal = "READY"
  /\ agent = "booting" /\ timerArmed = FALSE
  /\ confirmed = {1} /\ tried = {} /\ worn = FALSE

\* The timer task has the higher priority and blocks only in the file
\* system: the OTA task runs when the timer task is idle or waits there.
Runs(t) ==
  /\ power = "on"
  /\ t = "ota" => pc["timer"] \in {"idle", "resetSave", "resetDelete"}

At(t, step) == Runs(t) /\ pc[t] = step
Goto(t, step) == pc' = [pc EXCEPT ![t] = step] /\ UNCHANGED after
Call(t, step, next) == pc' = [pc EXCEPT ![t] = step] /\ after' = [after EXCEPT ![t] = next]
Return(t) == pc' = [pc EXCEPT ![t] = after[t]] /\ after' = [after EXCEPT ![t] = "idle"]

\* configASSERT: the processor stops if p does not hold.
Halt == power' = "halted" /\ UNCHANGED <<pc, after>>

Succeeds(fault) == {TRUE} \cup (IF fault \in Faults THEN {FALSE} ELSE {})

\* prvDeletePalNvContext
DeleteNv(ok) == nv' = IF ok THEN NoContext ELSE nv

\* prvEraseBank: a failed erase may have erased some pages.
EraseBank(bank, ok) ==
  /\ \E c \in IF ok THEN {"erased"} ELSE {"partial", image[bank]} :
       image' = [image EXCEPT ![bank] = c]
  /\ confirmed' = confirmed \ {bank}
  /\ tried' = tried \ {bank}
  /\ worn' = (worn \/ ~ok)

-----------------------------------------------------------------------------
(* Boot.                                                                   *)

\* Reset ends; the bank the option byte selects starts, and the first
\* otaPal_EarlyInit loads the context (prvInitializePalContext).
Boot ==
  /\ power = "off" /\ image[ob] = "authentic"
  /\ power' = "on"
  /\ active' = ob
  /\ palState' = nv.state /\ target' = nv.target /\ pending' = NoBank
  /\ pc' = [t \in Tasks |-> IF t = "ota" THEN "earlyInit" ELSE "idle"]
  /\ UNCHANGED <<durable, after, copy, goal, agent, timerArmed, history>>

\* Faulty variant of StartTrial: it does not look at the bank.
StartTrialUnchecked ==
  /\ palState = "PENDING_SELF_TEST"
  /\ palState' = "NEW_IMAGE_BOOTED"
  /\ copy' = [copy EXCEPT !["ota"] = [state |-> "NEW_IMAGE_BOOTED", target |-> target]]
  /\ Goto("ota", "earlySave") /\ UNCHANGED <<pending, power>>

\* The first boot of a new image.
StartTrial ==
  /\ palState = "PENDING_SELF_TEST"
  /\ IF target = active
     THEN /\ palState' = "NEW_IMAGE_BOOTED"
          /\ copy' = [copy EXCEPT !["ota"] = [state |-> "NEW_IMAGE_BOOTED", target |-> target]]
          /\ Goto("ota", "earlySave") /\ UNCHANGED power
     ELSE Halt /\ UNCHANGED <<palState, copy>>
  /\ UNCHANGED pending

\* Faulty variant of RevertTrial: the second boot is taken for a normal one.
RevertTrialMissing ==
  /\ palState = "NEW_IMAGE_BOOTED"
  /\ Return("ota") /\ UNCHANGED <<palState, pending, copy, power>>

\* Its second boot: it was reset before it was accepted.
RevertTrial ==
  /\ palState = "NEW_IMAGE_BOOTED"
  /\ palState' = "NEW_IMAGE_WDT_RESET" /\ pending' = Other(target)
  /\ copy' = [copy EXCEPT !["ota"] = [state |-> "NEW_IMAGE_WDT_RESET", target |-> target]]
  /\ Goto("ota", "earlySave") /\ UNCHANGED power

EarlyInit ==
  /\ At("ota", "earlyInit")
  /\ \/ StartTrial
     \/ RevertTrial
     \/ /\ palState \in {"NEW_IMAGE_WDT_RESET", "SELF_TEST_FAILED"}
        /\ palState' = "REJECTED"
        /\ Goto("ota", "earlyDelete") /\ UNCHANGED <<pending, copy, power>>
     \/ /\ palState = "READY"
        /\ Return("ota") /\ UNCHANGED <<palState, pending, copy, power>>
  /\ UNCHANGED <<durable, target, active, goal, agent, timerArmed, history>>

\* Faulty variant of WriteNv: the file is never written.
WriteNvLost(t, written, reported) == ~reported /\ nv' = nv

\* prvWritePalNvContext, its outcome: a write error is reported, a failure
\* to open or to close the file is not.
WriteNv(t, written, reported) ==
  /\ written \in Succeeds("write")
  /\ reported => ~written
  /\ nv' = IF written THEN copy[t] ELSE nv

EarlySave ==
  /\ At("ota", "earlySave")
  /\ \E written \in BOOLEAN : WriteNv("ota", written, FALSE)
  /\ Goto("ota", IF palState = "NEW_IMAGE_WDT_RESET" THEN "reset" ELSE "idle")
  /\ UNCHANGED <<ob, image, context, power, copy, goal, agent, timerArmed, history>>

EarlyDelete ==
  /\ At("ota", "earlyDelete")
  /\ \E ok \in Succeeds("delete") : DeleteNv(ok)
  /\ IF target # active THEN Goto("ota", "earlyErase") /\ UNCHANGED power ELSE Halt
  /\ UNCHANGED <<ob, image, context, copy, goal, agent, timerArmed, history>>

\* Faulty variant of EarlyErase: it erases the image that runs.
EarlyEraseActive ==
  /\ At("ota", "earlyErase")
  /\ \E ok \in Succeeds("erase") : EraseBank(Other(target), ok)
  /\ Return("ota")
  /\ UNCHANGED <<nv, ob, context, power, copy, goal, agent, timerArmed>>

EarlyErase ==
  /\ At("ota", "earlyErase")
  /\ \E ok \in Succeeds("erase") : EraseBank(target, ok)
  /\ Return("ota")
  /\ UNCHANGED <<nv, ob, context, power, copy, goal, agent, timerArmed>>

\* otaPal_GetPlatformImageState, platformInSelftest
PlatformInSelftest ==
  palState \in {"PENDING_ACTIVATION", "PENDING_SELF_TEST", "NEW_IMAGE_BOOTED"}

\* Faulty variant of StartAgent: the self-test timer is not started.
StartAgentUntimed ==
  /\ At("ota", "idle") /\ agent = "booting"
  /\ agent' = "waiting"
  /\ tried' = IF active \in confirmed THEN tried ELSE tried \cup {active}
  /\ UNCHANGED <<durable, context, power, pc, after, copy, goal, timerArmed, confirmed, worn>>

\* The application starts, and with it the OTA agent (startHandler).
StartAgent ==
  /\ At("ota", "idle") /\ agent = "booting"
  /\ agent' = "waiting"
  /\ timerArmed' = PlatformInSelftest
  /\ tried' = IF active \in confirmed THEN tried ELSE tried \cup {active}
  /\ UNCHANGED <<durable, context, power, pc, after, copy, goal, confirmed, worn>>

-----------------------------------------------------------------------------
(* The OTA agent: what it receives, and the calls it makes for it.         *)

\* A message from the network takes longer to arrive than the timer task
\* waits in the file system.
Undisturbed == pc["timer"] = "idle"

Waiting == Undisturbed /\ At("ota", "idle") /\ agent = "waiting"
Receiving == Undisturbed /\ At("ota", "idle") /\ agent = "receiving"

\* A job that is not in self-test (processJobHandler): while the platform is
\* in self-test it resets the device, otherwise it creates the file.
ReceiveUpdateJob ==
  /\ Waiting
  /\ Goto("ota", IF PlatformInSelftest THEN "reset" ELSE "create")
  /\ UNCHANGED <<durable, context, power, copy, goal, agent, timerArmed, history>>

\* The checks of otaPal_CreateFileForRx and the erasure of the inactive bank.
\* Where it fails, getFileContextFromJob sets the image aborted and closes.
CreateFile(acceptable) ==
  /\ At("ota", "create")
  /\ LET ready == palState \in {"ACCEPTED", "REJECTED", "READY"}
     IN  /\ palState' = IF ready THEN "READY" ELSE palState
         /\ \/ /\ acceptable /\ ready
               /\ \E ok \in Succeeds("erase") :
                    /\ EraseBank(Other(active), ok)
                    /\ IF ok THEN Goto("ota", "createDelete")
                             ELSE Call("ota", "setAborted", "setAborted")
            \/ /\ ~(acceptable /\ ready)
               /\ Call("ota", "setAborted", "setAborted")
               /\ UNCHANGED <<image, history>>
  /\ UNCHANGED <<nv, ob, target, pending, active, power, copy, goal, agent, timerArmed>>

\* Faulty variant of CreateFileDelete: the running bank becomes the target.
CreateFileInPlace ==
  /\ At("ota", "createDelete")
  /\ target' = active /\ pending' = active
  /\ palState' = "FILE_OPEN"
  /\ \E ok \in Succeeds("delete") :
       /\ DeleteNv(ok)
       /\ IF ok THEN Return("ota") /\ agent' = "receiving"
                ELSE Call("ota", "setAborted", "setAborted") /\ UNCHANGED agent
  /\ UNCHANGED <<ob, image, active, power, copy, goal, timerArmed, history>>

CreateFileDelete ==
  /\ At("ota", "createDelete")
  /\ target' = Other(active) /\ pending' = active
  /\ palState' = "FILE_OPEN"
  /\ \E ok \in Succeeds("delete") :
       /\ DeleteNv(ok)
       /\ IF ok THEN Return("ota") /\ agent' = "receiving"
                ELSE Call("ota", "setAborted", "setAborted") /\ UNCHANGED agent
  /\ UNCHANGED <<ob, image, active, power, copy, goal, timerArmed, history>>

\* A block of the file arrives (otaPal_WriteBlock); after the last one the
\* image is whole and authentic, or it is not, and the file is closed.
WriteBlock(last) ==
  /\ Receiving /\ palState = "FILE_OPEN"
  /\ \E c \in IF last THEN {"partial", "authentic"} ELSE {"partial"} :
       image' = [image EXCEPT ![target] = c]
  /\ Goto("ota", IF last THEN "close" ELSE "idle")
  /\ UNCHANGED <<nv, ob, context, power, copy, goal, agent, timerArmed, history>>

\* Faulty variant of CloseFile: the signature is not checked.
CloseFileUnchecked(valid) ==
  /\ At("ota", "close")
  /\ palState' = "PENDING_ACTIVATION" /\ Goto("ota", "activate")
  /\ UNCHANGED <<durable, target, pending, active, power, copy, goal, agent, timerArmed, history>>

\* otaPal_CloseFile: hash and signature.  An image that fails is rejected
\* here and once more by processDataHandler.
CloseFile(valid) ==
  /\ At("ota", "close")
  /\ valid => image[target] = "authentic"
  /\ IF valid
     THEN palState' = "PENDING_ACTIVATION" /\ Goto("ota", "activate")
     ELSE Call("ota", "setRejected", "setRejected") /\ UNCHANGED palState
  /\ UNCHANGED <<durable, target, pending, active, power, copy, goal, agent, timerArmed, history>>

\* otaPal_ActivateNewImage, from the application's OtaJobEventActivate.
ActivateNewImage ==
  /\ At("ota", "activate")
  /\ IF palState = "PENDING_ACTIVATION"
     THEN pending' = target /\ palState' = "PENDING_SELF_TEST" /\ Goto("ota", "reset")
     ELSE Return("ota") /\ UNCHANGED <<palState, pending>>
  /\ UNCHANGED <<durable, target, active, power, copy, goal, agent, timerArmed, history>>

\* The file transfer ends: the close event that follows the last block or
\* too many unanswered requests (otaClose), or the notice of another job
\* (jobNotificationHandler).
EndTransfer(byNotice) ==
  /\ Receiving
  /\ agent' = "waiting"
  /\ Call("ota", "setAborted", IF byNotice THEN "setAborted" ELSE "idle")
  /\ UNCHANGED <<durable, context, power, copy, goal, timerArmed, history>>

\* A job in self-test (handleSelfTestJobDoc): OtaImageStateTesting for a
\* version newer than the one that made the update, else rejection and reset.
ReceiveSelfTestJob(newer) ==
  /\ Waiting
  /\ IF newer
     THEN /\ agent' = IF palState = "NEW_IMAGE_BOOTED" THEN "testing" ELSE "waiting"
          /\ UNCHANGED <<pc, after>>
     ELSE Call("ota", "setRejected", "reset") /\ UNCHANGED agent
  /\ UNCHANGED <<durable, context, power, copy, goal, timerArmed, history>>

\* inSelfTestHandler; the application accepts the image at once.
StartSelfTest ==
  /\ At("ota", "idle") /\ agent = "testing"
  /\ agent' = "waiting"
  /\ IF PlatformInSelftest
     THEN Call("ota", "commit", "stopTimer")
     ELSE Call("ota", "setRejected", "reset")
  /\ UNCHANGED <<durable, context, power, copy, goal, timerArmed, history>>

StopTimer ==
  /\ At("ota", "stopTimer")
  /\ timerArmed' = FALSE
  /\ Return("ota")
  /\ UNCHANGED <<durable, context, power, copy, goal, agent, history>>

-----------------------------------------------------------------------------
(* otaPal_SetPlatformImageState.                                           *)

\* OtaImageStateAccepted: the context file goes, which makes the image
\* permanent, and then the state changes in RAM.
Commit ==
  /\ At("ota", "commit")
  /\ IF palState = "NEW_IMAGE_BOOTED"
     THEN /\ pending' = target
          /\ \E ok \in Succeeds("delete") :
               /\ DeleteNv(ok)
               /\ confirmed' = IF ok THEN confirmed \cup {active} ELSE confirmed
               /\ IF ok THEN Goto("ota", "committed") ELSE Return("ota")
     ELSE Return("ota") /\ UNCHANGED <<nv, pending, confirmed>>
  /\ UNCHANGED <<ob, image, palState, target, active, power, copy, goal, agent, timerArmed, tried, worn>>

\* The job status is reported to the service before the timer is stopped.
Committed ==
  /\ At("ota", "committed")
  /\ palState' = "ACCEPTED"
  /\ Return("ota")
  /\ UNCHANGED <<durable, target, pending, active, power, copy, goal, agent, timerArmed, history>>

\* Erase the target bank, delete the context file, then set state s.
Discard(s) == goal' = s /\ Goto("ota", "erase")

SetRejected ==
  /\ At("ota", "setRejected")
  /\ \/ /\ palState \in {"PENDING_SELF_TEST", "NEW_IMAGE_BOOTED"}
        /\ palState' = "SELF_TEST_FAILED" /\ pending' = Other(target)
        /\ Goto("ota", "reset") /\ UNCHANGED <<power, goal>>
     \/ /\ palState = "SELF_TEST_FAILED"
        /\ IF active = Other(target) THEN Discard("REJECTED") /\ UNCHANGED power
                                    ELSE Halt /\ UNCHANGED goal
        /\ UNCHANGED <<palState, pending>>
     \/ /\ palState \in {"PENDING_ACTIVATION", "FILE_OPEN"}
        /\ pending' = Other(target)
        /\ Discard("REJECTED") /\ UNCHANGED <<palState, power>>
     \/ /\ palState \in {"NEW_IMAGE_WDT_RESET", "REJECTED", "READY", "ACCEPTED"}
        /\ Return("ota") /\ UNCHANGED <<palState, pending, power, goal>>
  /\ UNCHANGED <<durable, target, active, copy, agent, timerArmed, history>>

SetAborted ==
  /\ At("ota", "setAborted")
  /\ \/ /\ palState \in {"READY", "REJECTED", "ACCEPTED"}
        /\ Return("ota") /\ UNCHANGED <<pending, power, goal>>
     \/ /\ palState = "SELF_TEST_FAILED"
        /\ IF active = Other(target) THEN Return("ota") /\ UNCHANGED power ELSE Halt
        /\ UNCHANGED <<pending, goal>>
     \/ /\ palState = "NEW_IMAGE_BOOTED"
        /\ pending' = Other(target)
        /\ Return("ota") /\ UNCHANGED <<power, goal>>
     \/ /\ palState \in {"FILE_OPEN", "PENDING_ACTIVATION", "PENDING_SELF_TEST",
                         "NEW_IMAGE_WDT_RESET"}
        /\ IF active = Other(target)
           THEN pending' = active /\ Discard("READY") /\ UNCHANGED power
           ELSE Halt /\ UNCHANGED <<pending, goal>>
  /\ UNCHANGED <<durable, palState, target, active, copy, agent, timerArmed, history>>

EraseImage ==
  /\ At("ota", "erase")
  /\ \E ok \in Succeeds("erase") :
       /\ EraseBank(target, ok)
       /\ IF ok THEN Goto("ota", "discard") ELSE Return("ota")
  /\ UNCHANGED <<nv, ob, context, power, copy, goal, agent, timerArmed>>

DiscardContext ==
  /\ At("ota", "discard")
  /\ \E ok \in Succeeds("delete") :
       /\ DeleteNv(ok)
       /\ palState' = IF ok THEN goal ELSE palState
  /\ Return("ota")
  /\ UNCHANGED <<ob, image, target, pending, active, power, copy, goal, agent, timerArmed, history>>

-----------------------------------------------------------------------------
(* otaPal_ResetDevice, which both tasks call.                              *)

\* The self-test timer expires: its callback resets the device.
TimerExpires ==
  /\ At("timer", "idle") /\ timerArmed
  /\ timerArmed' = FALSE
  /\ Goto("timer", "reset")
  /\ UNCHANGED <<durable, context, power, copy, goal, agent, history>>

Reset(t) ==
  /\ At(t, "reset")
  /\ \/ /\ palState = "NEW_IMAGE_BOOTED"
        /\ palState' = "SELF_TEST_FAILED"
        /\ copy' = [copy EXCEPT ![t] = [state |-> "SELF_TEST_FAILED", target |-> target]]
        /\ Goto(t, "resetSave") /\ UNCHANGED <<pending, power>>
     \/ /\ palState = "PENDING_SELF_TEST"
        /\ IF active = Other(target)
           THEN /\ pending' = target
                /\ copy' = [copy EXCEPT ![t] = [state |-> "PENDING_SELF_TEST", target |-> target]]
                /\ Goto(t, "resetSave") /\ UNCHANGED power
           ELSE Halt /\ UNCHANGED <<pending, copy>>
        /\ UNCHANGED palState
     \/ /\ palState = "SELF_TEST_FAILED"
        /\ pending' = Other(target)
        /\ Goto(t, "resetDelete") /\ UNCHANGED <<palState, copy, power>>
     \/ /\ palState = "NEW_IMAGE_WDT_RESET"
        /\ Goto(t, "select") /\ UNCHANGED <<palState, pending, copy, power>>
     \/ /\ palState \in {"READY", "FILE_OPEN", "PENDING_ACTIVATION", "ACCEPTED", "REJECTED"}
        /\ pending' = Other(target)
        /\ Goto(t, "select") /\ UNCHANGED <<palState, copy, power>>
  /\ UNCHANGED <<durable, target, active, goal, agent, timerArmed, history>>

\* After a reported error no reset is made unless a bank is selected.
ResetSave(t) ==
  /\ At(t, "resetSave")
  /\ \E written, reported \in BOOLEAN :
       /\ WriteNv(t, written, reported)
       /\ Goto(t, IF reported THEN "selectOnly" ELSE "select")
  /\ pending' = IF copy[t].state = "SELF_TEST_FAILED" THEN Other(target) ELSE pending
  /\ UNCHANGED <<ob, image, palState, target, active, power, copy, goal, agent, timerArmed, history>>

ResetDelete(t) ==
  /\ At(t, "resetDelete")
  /\ \E ok \in Succeeds("delete") :
       /\ DeleteNv(ok)
       /\ Goto(t, IF ok THEN "select" ELSE "selectOnly")
  /\ UNCHANGED <<ob, image, context, power, copy, goal, agent, timerArmed, history>>

\* prvSelectBank programs the option byte.
SelectBank(t) ==
  /\ At(t, "select") \/ At(t, "selectOnly")
  /\ IF pending \in Banks \ {active}
     THEN \E ok \in Succeeds("select") :
            /\ ob' = IF ok THEN pending ELSE ob
            /\ worn' = (worn \/ ~ok)
            /\ IF ok THEN Goto(t, "apply") ELSE Return(t)
     ELSE /\ IF pc[t] = "select" THEN Goto(t, "apply") ELSE Return(t)
          /\ UNCHANGED <<ob, worn>>
  /\ UNCHANGED <<nv, image, context, power, copy, goal, agent, timerArmed, confirmed, tried>>

\* What a reset leaves: the durable state.
PowerOff ==
  /\ power' = "off"
  /\ palState' = "READY" /\ target' = NoBank /\ pending' = NoBank
  /\ pc' = [u \in Tasks |-> "idle"] /\ after' = [u \in Tasks |-> "idle"]
  /\ copy' = [u \in Tasks |-> NoContext] /\ goal' = "READY"
  /\ agent' = "booting" /\ timerArmed' = FALSE
  /\ UNCHANGED <<durable, active, history>>

\* prvOptionByteApply and vDoSystemReset.
Apply(t) == At(t, "apply") /\ PowerOff

\* The watchdog, the button or a power failure: between two operations at
\* any time, inside an operation only as a fault.
PowerCycle ==
  /\ \/ power = "halted"
     \/ power = "on" /\ \A t \in Tasks : pc[t] = "idle"
     \/ power = "on" /\ "power" \in Faults
  /\ PowerOff

ResetStep(t) == Reset(t) \/ ResetSave(t) \/ ResetDelete(t) \/ SelectBank(t) \/ Apply(t)

BootStep == Boot \/ EarlyInit \/ EarlySave \/ EarlyDelete \/ EarlyErase \/ StartAgent

\* What the OTA task does by itself, once an event has started it.
OtaStep ==
  \/ \E acceptable \in BOOLEAN : CreateFile(acceptable)
  \/ CreateFileDelete
  \/ \E valid \in BOOLEAN : CloseFile(valid)
  \/ ActivateNewImage
  \/ StartSelfTest \/ StopTimer
  \/ Commit \/ Committed \/ SetRejected \/ SetAborted \/ EraseImage \/ DiscardContext
  \/ ResetStep("ota")

Event ==
  \/ ReceiveUpdateJob
  \/ \E last \in BOOLEAN : WriteBlock(last)
  \/ \E byNotice \in BOOLEAN : EndTransfer(byNotice)
  \/ \E newer \in BOOLEAN : ReceiveSelfTestJob(newer)

Next == BootStep \/ OtaStep \/ Event \/ TimerExpires \/ ResetStep("timer") \/ PowerCycle

Spec == Init /\ [][Next]_vars

-----------------------------------------------------------------------------
(* Properties.                                                             *)

\* The type of every variable.
Contexts == [state : PalStates, target : Banks \cup {NoBank}]
TypeOK ==
  /\ nv \in Contexts /\ ob \in Banks
  /\ image \in [Banks -> Contents]
  /\ palState \in PalStates
  /\ {target, pending} \subseteq Banks \cup {NoBank} /\ active \in Banks
  /\ power \in {"on", "off", "halted"}
  /\ pc \in [Tasks -> PCs] /\ after \in [Tasks -> PCs]
  /\ copy \in [Tasks -> Contexts]
  /\ goal \in {"READY", "REJECTED"}
  /\ agent \in {"booting", "waiting", "receiving", "testing"}
  /\ timerArmed \in BOOLEAN
  /\ confirmed \subseteq Banks /\ tried \subseteq Banks
  /\ worn \in BOOLEAN

\* Whenever the power fails, and whatever file operation fails, the bank the
\* option byte selects holds an image whose signature has been verified: the
\* device can boot.  (Not so once an operation on the flash has failed.)
BootBankVerified == worn \/ image[ob] = "authentic"

\* What the assertions of otaPal_SetPlatformImageState and
\* otaPal_ResetDevice say of a trial: the image on trial is the one running.
\* (The actions above do not test these assertions again.)
BootedOnTarget ==
  power = "on" /\ pc["ota"] # "earlyInit" /\ palState = "NEW_IMAGE_BOOTED" => active = target

\* The application never runs an image that was not accepted without the
\* platform layer knowing it, so that a reset takes it back.
Running == power = "on" /\ agent # "booting"
TrialIsSupervised ==
  Running /\ active \notin confirmed => palState \in {"NEW_IMAGE_BOOTED", "SELF_TEST_FAILED"}

\* An image that was not accepted is not given a second run.
TrialRunsOnce ==
  [][agent = "booting" /\ agent' = "waiting" => active \in confirmed \/ active \notin tried]_vars

\* The platform layer implements an update over two banks: the boot bank is
\* valid at each moment, and an accepted image is there to return to.
AB == INSTANCE ABUpdate WITH boot <- ob
ImplementsABUpdate == AB!Spec
Recoverable == AB!Recoverable

Fairness ==
  /\ WF_vars(BootStep) /\ WF_vars(OtaStep)
  /\ WF_vars(ResetStep("timer")) /\ WF_vars(TimerExpires)
  /\ WF_vars(power = "halted" /\ PowerCycle)

FairSpec == Spec /\ Fairness

\* A trial ends: the new image is accepted, or the device boots an accepted
\* one again, because the self-test timer runs.
TrialEnds == ob \notin confirmed ~> ob \in confirmed

-----------------------------------------------------------------------------
(* What the comments and assertions say and the code does not do.          *)

\* The assertion of otaPal_EarlyInit: a pending self-test runs from the
\* target bank.
SelfTestBootsTarget ==
  power = "on" /\ pc["ota"] = "earlyInit" /\ palState = "PENDING_SELF_TEST" => target = active

\* ota_platform_interface.h, of OtaImageStateAccepted: "make the update image
\* permanent".  Once accepted, an image is left only for a newer one.
AcceptedIsPermanent == [][ob' # ob => ob \notin confirmed \/ ob' \notin confirmed]_vars
=============================================================================
