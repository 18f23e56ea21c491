------------------------------ MODULE OtaPalProofs ------------------------------
(***************************************************************************)
(* Proofs about OtaPal.  First for every set of faults: whatever fails but *)
(* the flash itself, the bank that boots holds a verified image.  The      *)
(* invariant (Sound) says of each step of the two tasks which bank the     *)
(* target is, that there is an image to go back to, and that the bank      *)
(* about to be selected holds an image that boots.                         *)
(*                                                                         *)
(* Then for the deletion of a file as the only fault: trials are           *)
(* supervised and run once, and OtaPal implements ABUpdate.  The invariant *)
(* that is added (Trial) says which images are accepted and what the       *)
(* context file holds at each step.                                        *)
(***************************************************************************)
EXTENDS OtaPal, TLAPS

USE FaultsAssumption DEF Banks, NoBank, Tasks, Other

\* otaPal_EarlyInit has read the context of this boot.
Started == power = "on" /\ pc["ota"] # "earlyInit"

\* An image to go back to, if there is a bank to go to.
GoodBank(b) == b \in Banks => image[b] = "authentic"

\* Where the OTA task is in otaPal_EarlyInit, in a change of state, in a
\* reset, and where it goes back to nothing.
Early     == {"earlyInit", "earlySave", "earlyDelete", "earlyErase"}
Changing  == {"setRejected", "setAborted", "erase", "discard"}
Resetting == {"reset", "resetSave", "resetDelete", "select", "selectOnly", "apply"}
Plain     == Early \cup {"idle", "create", "createDelete", "close", "activate", "stopTimer"}

\* What a reset leaves, what the boot has read, and what it makes of it.
BootInv ==
  /\ power = "off" => pc["ota"] = "idle" /\ pc["timer"] = "idle" /\ agent = "booting"
  /\ agent = "booting" =>
       ~timerArmed /\ pc["timer"] = "idle" /\ pc["ota"] \in Early \cup {"idle"} \cup Resetting
  /\ power = "on" /\ pc["ota"] \in Early => agent = "booting"
  /\ power = "on" /\ pc["ota"] = "earlyInit" =>
       ob = active /\ nv.state = palState /\ nv.target = target
  /\ Started /\ agent = "booting" =>
       /\ palState \in {"READY", "REJECTED", "NEW_IMAGE_BOOTED", "NEW_IMAGE_WDT_RESET"}
       /\ pc["ota"] \in Resetting => palState = "NEW_IMAGE_WDT_RESET"
  /\ Started /\ pc["ota"] = "earlyDelete" =>
       palState = "REJECTED" /\ target \in Banks /\ nv.target = target

\* The agent is asked to test an image during its trial only.
AgentInv == Started /\ agent = "testing" =>
  pc["ota"] = "idle" /\ palState \in {"NEW_IMAGE_BOOTED", "SELF_TEST_FAILED"}

\* Once the other bank is selected, nothing but a reset can follow.
SwitchInv == power = "on" /\ ob # active => pc["ota"] = "apply" \/ pc["timer"] = "apply"

\* What the context file can hold.
FileInv ==
  /\ nv.state \in {"READY", "PENDING_SELF_TEST", "NEW_IMAGE_BOOTED", "NEW_IMAGE_WDT_RESET",
                   "SELF_TEST_FAILED"}
  /\ nv.state = "READY" <=> nv.target = NoBank
  /\ Started /\ nv.target = active =>
       \/ palState \in {"NEW_IMAGE_BOOTED", "SELF_TEST_FAILED", "NEW_IMAGE_WDT_RESET"}
       \/ pc["ota"] = "earlyDelete" \/ pc["timer"] # "idle"
  /\ Started /\ pc["ota"] = "committed" => nv.target # active \/ pc["timer"] # "idle"

\* The target is the bank that runs during a trial, and else the other one.
TargetInv == Started =>
  /\ palState \in {"FILE_OPEN", "PENDING_ACTIVATION", "PENDING_SELF_TEST"} => target = Other(active)
  /\ palState \in {"NEW_IMAGE_BOOTED", "SELF_TEST_FAILED", "ACCEPTED"} => target = active
  /\ palState = "NEW_IMAGE_WDT_RESET" => target \in Banks
  /\ palState = "REJECTED" => pc["ota"] = "earlyDelete" \/ target # active
  /\ pc["ota"] \in {"earlyErase", "erase", "discard"} => target = Other(active)

\* The state each step of the OTA task is made in.
StepInv == Started =>
  /\ pc["ota"] = "close" => palState = "FILE_OPEN"
  /\ pc["ota"] = "earlySave" => palState \in {"NEW_IMAGE_BOOTED", "NEW_IMAGE_WDT_RESET"}
  /\ pc["ota"] = "earlyErase" => palState = "REJECTED"
  /\ pc["ota"] = "createDelete" => palState = "READY"
  /\ pc["ota"] = "create" =>
       palState \in {"READY", "ACCEPTED", "REJECTED", "FILE_OPEN", "PENDING_ACTIVATION"}
  /\ pc["ota"] \in {"erase", "discard"} => palState \in {"FILE_OPEN", "PENDING_ACTIVATION"}
  /\ pc["ota"] = "committed" => palState \in {"NEW_IMAGE_BOOTED", "SELF_TEST_FAILED"}
  /\ pc["ota"] = "activate" => palState = "PENDING_ACTIVATION" /\ image[target] = "authentic"
  /\ palState = "PENDING_SELF_TEST" =>
       pc["ota"] \in Resetting \ {"resetDelete"} /\ image[target] = "authentic"
  /\ palState = "NEW_IMAGE_WDT_RESET" =>
       pc["ota"] \in {"earlySave", "reset", "select", "apply"} /\ pending = Other(target)
  /\ palState = "SELF_TEST_FAILED" => pc["ota"] \in Resetting \/ pc["timer"] # "idle"

\* The image that runs, the one that boots, and the one to go back to from
\* the target in use and from the target in the context file.
ImageInv ==
  /\ image[ob] = "authentic" /\ (power = "on" => image[active] = "authentic")
  /\ GoodBank(Other(nv.target))
  /\ Started /\ pc["ota"] # "createDelete" => GoodBank(Other(target))

\* The self-test timer runs, and its callback acts, during a trial only; it
\* is late when it expires before the timer is stopped.
TimerInv == Started /\ (timerArmed \/ pc["timer"] # "idle") =>
  /\ palState \in {"NEW_IMAGE_BOOTED", "SELF_TEST_FAILED", "ACCEPTED"}
  /\ pc["timer"] \notin {"idle", "reset"} => palState # "NEW_IMAGE_BOOTED"
  /\ palState = "ACCEPTED" =>
       pc["ota"] = "stopTimer" \/ (pc["ota"] = "idle" /\ pc["timer"] # "idle")

\* The copy of the context that is to be written, and the bank to select.
SaveInv(t) ==
  /\ pc[t] = "select" => pending = active \/ GoodBank(pending)
  /\ pc[t] \in {"resetDelete", "selectOnly"} => pending = Other(active) /\ image[pending] = "authentic"
  /\ pc[t] = "resetSave" /\ palState = "PENDING_SELF_TEST" => pending = target
CopyInv == power = "on" =>
  /\ SaveInv("ota") /\ SaveInv("timer")
  /\ pc["timer"] = "resetSave" => copy["timer"].state = "SELF_TEST_FAILED" /\ copy["timer"].target = active
  /\ pc["ota"] \in {"resetSave", "earlySave"} => copy["ota"].state = palState /\ copy["ota"].target = target
  /\ pc["ota"] = "resetSave" => palState \in {"SELF_TEST_FAILED", "PENDING_SELF_TEST"}

\* What follows the call the OTA task is in.
ReturnInv == power # "halted" =>
  /\ after["timer"] = "idle"
  /\ pc["ota"] \in {"commit", "committed"} => after["ota"] = "stopTimer"
  /\ pc["ota"] \in Changing \cup Resetting => after["ota"] \in {"idle", "setRejected", "setAborted", "reset"}
  /\ pc["ota"] \in Plain => after["ota"] = "idle"

Sound == /\ BootInv /\ AgentInv /\ SwitchInv /\ FileInv /\ TargetInv /\ StepInv /\ ImageInv
         /\ TimerInv /\ CopyInv /\ ReturnInv

-----------------------------------------------------------------------------
(* The types.                                                              *)

\* Erasing a bank keeps the types.
LEMMA EraseTypes ==
  ASSUME TypeOK, NEW b \in Banks \cup {NoBank}, NEW ok \in BOOLEAN, EraseBank(b, ok)
  PROVE  /\ image' \in [Banks -> Contents]
         /\ confirmed' \subseteq Banks /\ tried' \subseteq Banks /\ worn' \in BOOLEAN
<1>1. image' \in [Banks -> Contents]
  <2>1. PICK c \in Contents : image' = [image EXCEPT ![b] = c]
    <3>1. CASE b \in Banks
      BY <3>1 DEF EraseBank, TypeOK, Contents
    <3>2. CASE b \notin Banks
      <4>1. PICK c : image' = [image EXCEPT ![b] = c]
        BY DEF EraseBank
      <4>2. image' = [image EXCEPT ![b] = "erased"]
        BY <3>2, <4>1 DEF TypeOK
      <4>3. QED
        BY <4>2 DEF Contents
    <3>3. QED
      BY <3>1, <3>2
  <2>2. QED
    BY <2>1 DEF TypeOK
<1>2. worn' \in BOOLEAN
  BY Zenon DEF EraseBank
<1>3. QED
  BY <1>1, <1>2 DEF EraseBank, TypeOK

USE DEF Contexts, PalStates, PCs, Goto, Call, Return, Halt, At, Runs, durable, context, control, history

\* The boot keeps the types.
LEMMA TypeBoot == TypeOK /\ BootStep => TypeOK'
<1> SUFFICES ASSUME TypeOK, BootStep PROVE TypeOK'
  OBVIOUS
<1>1. CASE Boot
  BY <1>1 DEF Boot, TypeOK
<1>2. CASE EarlyInit
  BY <1>2 DEF EarlyInit, StartTrial, RevertTrial, TypeOK
<1>3. CASE EarlySave
  BY <1>3 DEF EarlySave, WriteNv, TypeOK
<1>4. CASE EarlyDelete
  BY <1>4 DEF EarlyDelete, DeleteNv, NoContext, TypeOK
<1>5. CASE EarlyErase
  <2>1. PICK ok \in BOOLEAN : EraseBank(target, ok)
    BY <1>5 DEF EarlyErase, Succeeds
  <2>2. /\ image' \in [Banks -> Contents]
        /\ confirmed' \subseteq Banks /\ tried' \subseteq Banks /\ worn' \in BOOLEAN
    BY <2>1, EraseTypes DEF TypeOK
  <2>3. QED
    BY <1>5, <2>2 DEF EarlyErase, TypeOK
<1>6. CASE StartAgent
  BY <1>6 DEF StartAgent, PlatformInSelftest, TypeOK
<1>7. QED
  BY <1>1, <1>2, <1>3, <1>4, <1>5, <1>6 DEF BootStep

\* A reset keeps the types.
LEMMA TypeReset == TypeOK /\ (\E t \in Tasks : ResetStep(t)) => TypeOK'
<1> SUFFICES ASSUME TypeOK, NEW t \in Tasks, ResetStep(t) PROVE TypeOK'
  OBVIOUS
<1>1. CASE Reset(t)
  BY <1>1 DEF Reset, TypeOK
<1>2. CASE ResetSave(t)
  BY <1>2 DEF ResetSave, WriteNv, TypeOK
<1>3. CASE ResetDelete(t)
  BY <1>3 DEF ResetDelete, DeleteNv, NoContext, TypeOK
<1>4. CASE SelectBank(t)
  <2>1. worn' \in BOOLEAN
    BY <1>4, Zenon DEF SelectBank, TypeOK
  <2>2. ob' \in Banks
    BY <1>4 DEF SelectBank, TypeOK
  <2>3. pc' \in [Tasks -> PCs] /\ after' \in [Tasks -> PCs]
    BY <1>4 DEF SelectBank, TypeOK
  <2>4. QED
    BY <1>4, <2>1, <2>2, <2>3 DEF SelectBank, TypeOK
<1>5. CASE Apply(t)
  BY <1>5 DEF Apply, PowerOff, NoContext, TypeOK
<1>6. QED
  BY <1>1, <1>2, <1>3, <1>4, <1>5 DEF ResetStep

\* The calls of the agent keep the types.
LEMMA TypeOta == TypeOK /\ OtaStep => TypeOK'
<1> SUFFICES ASSUME TypeOK, OtaStep PROVE TypeOK'
  OBVIOUS
<1>1. ASSUME NEW acceptable \in BOOLEAN, CreateFile(acceptable) PROVE TypeOK'
  <2>1. /\ image' \in [Banks -> Contents]
        /\ confirmed' \subseteq Banks /\ tried' \subseteq Banks /\ worn' \in BOOLEAN
    <3>1. CASE \E ok \in BOOLEAN : EraseBank(Other(active), ok)
      BY <3>1, EraseTypes DEF TypeOK
    <3>2. CASE UNCHANGED <<image, history>>
      BY <3>2 DEF TypeOK
    <3>3. QED
      BY <1>1, <3>1, <3>2 DEF CreateFile, Succeeds
  <2>2. pc' \in [Tasks -> PCs] /\ after' \in [Tasks -> PCs]
    BY <1>1 DEF CreateFile, TypeOK
  <2>3. QED
    BY <1>1, <2>1, <2>2 DEF CreateFile, TypeOK
<1>2. CASE CreateFileDelete
  BY <1>2 DEF CreateFileDelete, DeleteNv, NoContext, TypeOK
<1>3. ASSUME NEW valid \in BOOLEAN, CloseFile(valid) PROVE TypeOK'
  BY <1>3 DEF CloseFile, TypeOK
<1>4. CASE ActivateNewImage
  BY <1>4 DEF ActivateNewImage, TypeOK
<1>5. CASE StartSelfTest
  BY <1>5 DEF StartSelfTest, TypeOK
<1>6. CASE StopTimer
  <2>1. pc' \in [Tasks -> PCs] /\ after' \in [Tasks -> PCs] /\ timerArmed' \in BOOLEAN
    BY <1>6 DEF StopTimer, TypeOK
  <2>2. QED
    BY <1>6, <2>1 DEF StopTimer, TypeOK
<1>7. CASE Commit
  <2>1. confirmed' \subseteq Banks /\ nv' \in Contexts
    <3>1. confirmed' = confirmed \cup {active} \/ confirmed' = confirmed
      BY <1>7 DEF Commit
    <3>2. nv' = nv \/ nv' = NoContext
      BY <1>7 DEF Commit, DeleteNv
    <3>3. QED
      <4>1. confirmed' \subseteq Banks
        BY <3>1 DEF TypeOK
      <4>2. nv' \in Contexts
        BY <3>2 DEF NoContext, TypeOK
      <4>3. QED
        BY <4>1, <4>2, Zenon
  <2>2. pc' \in [Tasks -> PCs] /\ after' \in [Tasks -> PCs]
    BY <1>7 DEF Commit, TypeOK
  <2>3. QED
    BY <1>7, <2>1, <2>2 DEF Commit, TypeOK
<1>8. CASE Committed
  BY <1>8 DEF Committed, TypeOK
<1>9. CASE SetRejected
  BY <1>9 DEF SetRejected, Discard, TypeOK
<1>10. CASE SetAborted
  BY <1>10 DEF SetAborted, Discard, TypeOK
<1>11. CASE EraseImage
  <2>1. PICK ok \in BOOLEAN : EraseBank(target, ok)
    BY <1>11 DEF EraseImage, Succeeds
  <2>2. /\ image' \in [Banks -> Contents]
        /\ confirmed' \subseteq Banks /\ tried' \subseteq Banks /\ worn' \in BOOLEAN
    BY <2>1, EraseTypes DEF TypeOK
  <2>3. QED
    BY <1>11, <2>2 DEF EraseImage, TypeOK
<1>12. CASE DiscardContext
  BY <1>12 DEF DiscardContext, DeleteNv, NoContext, TypeOK
<1>13. CASE ResetStep("ota")
  BY <1>13, TypeReset
<1>14. QED
  BY <1>1, <1>2, <1>3, <1>4, <1>5, <1>6, <1>7, <1>8, <1>9, <1>10, <1>11, <1>12, <1>13 DEF OtaStep

\* Messages, the timer and power failures keep the types.
LEMMA TypeEvent == TypeOK /\ (Event \/ TimerExpires \/ PowerCycle) => TypeOK'
<1> SUFFICES ASSUME TypeOK, Event \/ TimerExpires \/ PowerCycle PROVE TypeOK'
  OBVIOUS
<1> USE DEF Waiting, Receiving
<1>1. CASE ReceiveUpdateJob
  BY <1>1 DEF ReceiveUpdateJob, TypeOK
<1>2. ASSUME NEW last \in BOOLEAN, WriteBlock(last) PROVE TypeOK'
  <2>1. PICK c \in Contents : image' = [image EXCEPT ![target] = c]
    BY <1>2 DEF WriteBlock, Contents
  <2>2. image' \in [Banks -> Contents]
    BY <2>1 DEF TypeOK
  <2>3. QED
    BY <1>2, <2>2 DEF WriteBlock, TypeOK
<1>3. ASSUME NEW byNotice \in BOOLEAN, EndTransfer(byNotice) PROVE TypeOK'
  BY <1>3 DEF EndTransfer, TypeOK
<1>4. ASSUME NEW newer \in BOOLEAN, ReceiveSelfTestJob(newer) PROVE TypeOK'
  BY <1>4 DEF ReceiveSelfTestJob, TypeOK
<1>5. CASE TimerExpires
  <2>1. pc' \in [Tasks -> PCs] /\ after' \in [Tasks -> PCs] /\ timerArmed' \in BOOLEAN
    BY <1>5 DEF TimerExpires, TypeOK
  <2>2. QED
    BY <1>5, <2>1 DEF TimerExpires, TypeOK
<1>6. CASE PowerCycle
  BY <1>6 DEF PowerCycle, PowerOff, NoContext, TypeOK
<1>7. QED
  BY <1>1, <1>2, <1>3, <1>4, <1>5, <1>6 DEF Event

HIDE DEF Contexts, PalStates, PCs, Goto, Call, Return, Halt, At, Runs, durable, context, control, history

\* Every step keeps the types.
LEMMA TypeNext == TypeOK /\ [Next]_vars => TypeOK'
<1> SUFFICES ASSUME TypeOK, [Next]_vars PROVE TypeOK'
  OBVIOUS
<1>1. CASE UNCHANGED vars
  BY <1>1 DEF vars, durable, context, control, history, TypeOK
<1>2. QED
  BY <1>1, TypeBoot, TypeReset, TypeOta, TypeEvent DEF Next

-----------------------------------------------------------------------------
(* Every step keeps Sound, as long as no operation on the flash fails.     *)


\* The OTA task goes to a step, returns, or calls one with another to follow.
Goes(s) == pc'["ota"] = s /\ pc'["timer"] = pc["timer"] /\ after' = after
Calls(s, next) ==
  /\ pc'["ota"] = s /\ pc'["timer"] = pc["timer"]
  /\ after'["ota"] = next /\ after'["timer"] = after["timer"]
Returns == Calls(after["ota"], "idle")

USE DEF Started, GoodBank, Early, Changing, Resetting, Plain, BootInv, AgentInv, SwitchInv, FileInv, TargetInv,
        StepInv, ImageInv, TimerInv, SaveInv, CopyInv, ReturnInv, Sound, NoContext, Goes, Calls, Returns

\* The boot: the image that runs is the one that the option byte selects.
LEMMA BootKeeps == TypeOK /\ Sound /\ Boot => Sound'
<1> SUFFICES ASSUME TypeOK, Sound, Boot PROVE Sound'
  OBVIOUS
<1>1. /\ power = "off" /\ power' = "on" /\ active' = ob /\ palState' = nv.state /\ target' = nv.target
      /\ pc'["ota"] = "earlyInit" /\ pc'["timer"] = "idle" /\ after' = after
      /\ UNCHANGED <<nv, ob, image, copy, agent, timerArmed>>
  BY DEF Boot, durable
<1>2. QED
  BY <1>1 DEF TypeOK, Contexts, PalStates

\* The first otaPal_EarlyInit.
LEMMA EarlyInitKeeps == TypeOK /\ Sound /\ EarlyInit => Sound'
<1> SUFFICES ASSUME TypeOK, Sound, EarlyInit PROVE Sound'
  OBVIOUS
<1>1. /\ power = "on" /\ pc["ota"] = "earlyInit" /\ agent = "booting" /\ pc["timer"] = "idle"
      /\ UNCHANGED <<nv, ob, image, target, active, agent, timerArmed>>
  BY DEF EarlyInit, At, Runs, durable
<1>2. CASE StartTrial
  <2>1. CASE target = active
    <3>1. /\ palState = "PENDING_SELF_TEST" /\ palState' = "NEW_IMAGE_BOOTED"
          /\ copy'["ota"].state = "NEW_IMAGE_BOOTED" /\ copy'["ota"].target = target
          /\ pc'["ota"] = "earlySave" /\ pc'["timer"] = pc["timer"] /\ after' = after
          /\ power' = power /\ pending' = pending
      BY <1>2, <2>1 DEF StartTrial, Goto, TypeOK
    <3>2. QED
      BY <1>1, <2>1, <3>1 DEF TypeOK, Contexts, PalStates
  <2>2. CASE target # active
    <3>1. power' = "halted" /\ UNCHANGED <<pc, after, palState, copy, pending>>
      BY <1>2, <2>2 DEF StartTrial, Halt
    <3>2. QED
      BY <1>1, <2>2, <3>1 DEF TypeOK, Contexts, PalStates
  <2>3. QED
    BY <2>1, <2>2
<1>3. CASE RevertTrial
  <2>1. /\ palState' = "NEW_IMAGE_WDT_RESET" /\ palState = "NEW_IMAGE_BOOTED"
          /\ copy'["ota"].state = "NEW_IMAGE_WDT_RESET" /\ copy'["ota"].target = target
          /\ pc'["ota"] = "earlySave" /\ pc'["timer"] = pc["timer"] /\ after' = after
          /\ power' = power /\ pending' = Other(target)
    BY <1>3 DEF RevertTrial, Goto, TypeOK
  <2>2. QED
    BY <1>1, <2>1 DEF TypeOK, Contexts, PalStates
<1>4. CASE /\ palState \in {"NEW_IMAGE_WDT_RESET", "SELF_TEST_FAILED"}
           /\ palState' = "REJECTED"
           /\ Goto("ota", "earlyDelete") /\ UNCHANGED <<pending, copy, power>>
  <2>1. pc'["ota"] = "earlyDelete" /\ pc'["timer"] = pc["timer"] /\ after' = after
    BY <1>4 DEF Goto, TypeOK
  <2>2. QED
    BY <1>1, <1>4, <2>1 DEF TypeOK, Contexts, PalStates
<1>5. CASE /\ palState = "READY"
           /\ Return("ota") /\ UNCHANGED <<palState, pending, copy, power>>
  <2>1. /\ pc'["ota"] = "idle" /\ pc'["timer"] = pc["timer"]
        /\ after'["ota"] = "idle" /\ after'["timer"] = after["timer"]
    BY <1>1, <1>5 DEF Return, TypeOK
  <2>2. QED
    BY <1>1, <1>5, <2>1 DEF TypeOK, Contexts, PalStates
<1>6. QED
  BY <1>2, <1>3, <1>4, <1>5 DEF EarlyInit

\* Writing the context at boot.
LEMMA EarlySaveKeeps ==
  ASSUME TypeOK, Sound, ~worn', EarlySave
  PROVE  Sound'
<1>1. /\ power = "on" /\ pc["ota"] = "earlySave"
      /\ pc'["ota"] \in {"reset", "idle"}
      /\ pc'["ota"] = "reset" <=> palState = "NEW_IMAGE_WDT_RESET"
      /\ pc'["timer"] = pc["timer"] /\ after' = after
      /\ nv' = nv \/ nv' = copy["ota"]
      /\ UNCHANGED <<ob, image, palState, target, pending, active, power, copy, agent, timerArmed>>
  BY DEF EarlySave, WriteNv, At, Runs, Goto, context, TypeOK
<1>2. QED
  BY <1>1 DEF TypeOK, Contexts, PalStates

\* Deleting the context of an image that failed.
LEMMA EarlyDeleteKeeps ==
  ASSUME TypeOK, Sound, ~worn', EarlyDelete
  PROVE  Sound'
<1>1. /\ power = "on" /\ pc["ota"] = "earlyDelete"
      /\ nv' = nv \/ (nv'.state = "READY" /\ nv'.target = NoBank)
      /\ UNCHANGED <<ob, image, palState, target, pending, active, copy, agent, timerArmed>>
  BY DEF EarlyDelete, DeleteNv, At, Runs, context
<1>2. CASE target # active
  <2>1. /\ Goes("earlyErase")
        /\ power' = power
    BY <1>1, <1>2 DEF EarlyDelete, Goto, TypeOK
  <2>2. QED
    BY <1>1, <1>2, <2>1 DEF TypeOK, Contexts, PalStates
<1>3. CASE target = active
  <2>1. /\ power' = "halted" /\ UNCHANGED <<pc, after>>
    BY <1>1, <1>3 DEF EarlyDelete, Halt
  <2>2. QED
    BY <1>1, <1>3, <2>1 DEF TypeOK, Contexts, PalStates
<1>4. QED
  BY <1>1, <1>2, <1>3

\* Erasing the image that failed.
LEMMA EarlyEraseKeeps ==
  ASSUME TypeOK, Sound, ~worn', EarlyErase
  PROVE  Sound'
<1>1. /\ power = "on" /\ pc["ota"] = "earlyErase"
      /\ Returns
      /\ \A b \in Banks \ {target} : image'[b] = image[b]
      /\ UNCHANGED <<nv, ob, palState, target, pending, active, power, copy, agent, timerArmed>>
  BY DEF EarlyErase, EraseBank, Return, At, Runs, context, TypeOK
<1>2. QED
  BY <1>1 DEF TypeOK, Contexts, PalStates

\* The agent starts, and with it the self-test timer during a trial.
LEMMA StartAgentKeeps ==
  ASSUME TypeOK, Sound, ~worn', StartAgent
  PROVE  Sound'
<1>1. /\ power = "on" /\ pc["ota"] = "idle"
      /\ agent = "booting" /\ agent' = "waiting"
      /\ timerArmed' => palState = "NEW_IMAGE_BOOTED"
      /\ UNCHANGED <<nv, ob, image, palState, target, pending, active, power, pc, after, copy>>
  BY DEF StartAgent, PlatformInSelftest, At, Runs, context, durable, TypeOK
<1>2. QED
  BY <1>1 DEF TypeOK, Contexts, PalStates

\* A job of an update.
LEMMA UpdateJobKeeps ==
  ASSUME TypeOK, Sound, ~worn', ReceiveUpdateJob
  PROVE  Sound'
<1>1. /\ power = "on" /\ pc["ota"] = "idle" /\ agent = "waiting" /\ pc["timer"] = "idle"
      /\ pc'["ota"] = "create" \/ pc'["ota"] = "reset"
      /\ pc'["ota"] = "reset" <=> palState \in {"PENDING_ACTIVATION", "PENDING_SELF_TEST",
         "NEW_IMAGE_BOOTED"}
      /\ pc'["timer"] = pc["timer"] /\ after' = after
      /\ UNCHANGED <<nv, ob, image, palState, target, pending, active, power, copy, agent, timerArmed>>
  BY DEF ReceiveUpdateJob, Waiting, Undisturbed, PlatformInSelftest, Goto, At, Runs, context,
     durable, TypeOK
<1>2. QED
  BY <1>1 DEF TypeOK, Contexts, PalStates

\* Creating the file erases the other bank, of an image that nobody needs.
LEMMA CreateKeeps ==
  ASSUME TypeOK, Sound, ~worn', NEW acceptable \in BOOLEAN, CreateFile(acceptable)
  PROVE  Sound'
<1>1. /\ power = "on" /\ pc["ota"] = "create"
      /\ palState' = IF palState \in {"ACCEPTED", "REJECTED", "READY"} THEN "READY" ELSE palState
      /\ UNCHANGED <<nv, ob, target, pending, active, power, copy, agent, timerArmed>>
  BY DEF CreateFile, At, Runs
<1>2. CASE /\ palState \in {"ACCEPTED", "REJECTED", "READY"}
           /\ EraseBank(Other(active), TRUE) /\ Goto("ota", "createDelete")
  <2>1. /\ Goes("createDelete")
        /\ \A b \in Banks \ {Other(active)} : image'[b] = image[b]
    BY <1>1, <1>2 DEF EraseBank, Goto, TypeOK
  <2>2. QED
    BY <1>1, <1>2, <2>1 DEF TypeOK, Contexts, PalStates
<1>3. CASE Call("ota", "setAborted", "setAborted") /\ image' = image
  <2>1. /\ Calls("setAborted", "setAborted")
    BY <1>1, <1>3 DEF Call, TypeOK
  <2>2. QED
    BY <1>1, <1>3, <2>1 DEF TypeOK, Contexts, PalStates
<1>4. QED
  BY <1>1, <1>2, <1>3 DEF CreateFile, EraseBank

\* The file is open: its target is the other bank.
LEMMA CreateDeleteKeeps ==
  ASSUME TypeOK, Sound, ~worn', CreateFileDelete
  PROVE  Sound'
<1>1. /\ power = "on" /\ pc["ota"] = "createDelete"
      /\ target' = Other(active) /\ pending' = active /\ palState' = "FILE_OPEN"
      /\ nv' = nv \/ (nv'.state = "READY" /\ nv'.target = NoBank)
      /\ UNCHANGED <<ob, image, active, power, copy, timerArmed>>
  BY DEF CreateFileDelete, DeleteNv, At, Runs
<1>2. CASE Return("ota") /\ agent' = "receiving"
  <2>1. /\ Returns
    BY <1>1, <1>2 DEF Return, TypeOK
  <2>2. QED
    BY <1>1, <1>2, <2>1 DEF TypeOK, Contexts, PalStates
<1>3. CASE Call("ota", "setAborted", "setAborted") /\ UNCHANGED agent
  <2>1. /\ Calls("setAborted", "setAborted")
    BY <1>1, <1>3 DEF Call, TypeOK
  <2>2. QED
    BY <1>1, <1>3, <2>1 DEF TypeOK, Contexts, PalStates
<1>4. QED
  BY <1>1, <1>2, <1>3 DEF CreateFileDelete

\* A block is written to the target.
LEMMA WriteKeeps ==
  ASSUME TypeOK, Sound, ~worn', NEW last \in BOOLEAN, WriteBlock(last)
  PROVE  Sound'
<1>1. /\ power = "on" /\ pc["ota"] = "idle" /\ agent = "receiving" /\ palState = "FILE_OPEN"
      /\ \A b \in Banks \ {target} : image'[b] = image[b]
      /\ pc'["ota"] \in {"close", "idle"} /\ pc'["timer"] = pc["timer"] /\ after' = after
      /\ UNCHANGED <<nv, ob, palState, target, pending, active, power, copy, agent, timerArmed>>
  BY DEF WriteBlock, Receiving, At, Runs, Goto, context, TypeOK
<1>2. QED
  BY <1>1 DEF TypeOK, Contexts, PalStates

\* An image is kept when it is authentic.
LEMMA CloseKeeps ==
  ASSUME TypeOK, Sound, ~worn', NEW valid \in BOOLEAN, CloseFile(valid)
  PROVE  Sound'
<1>1. /\ power = "on" /\ pc["ota"] = "close"
      /\ UNCHANGED <<nv, ob, image, target, pending, active, power, copy, agent, timerArmed>>
  BY DEF CloseFile, At, Runs, durable
<1>2. CASE valid
  <2>1. /\ image[target] = "authentic" /\ palState' = "PENDING_ACTIVATION"
        /\ Goes("activate")
    BY <1>1, <1>2 DEF CloseFile, Goto, TypeOK
  <2>2. QED
    BY <1>1, <1>2, <2>1 DEF TypeOK, Contexts, PalStates
<1>3. CASE ~valid
  <2>1. /\ palState' = palState
        /\ Calls("setRejected", "setRejected")
    BY <1>1, <1>3 DEF CloseFile, Call, TypeOK
  <2>2. QED
    BY <1>1, <1>3, <2>1 DEF TypeOK, Contexts, PalStates
<1>4. QED
  BY <1>1, <1>2, <1>3

\* The image is to be tested.
LEMMA ActivateKeeps ==
  ASSUME TypeOK, Sound, ~worn', ActivateNewImage
  PROVE  Sound'
<1>1. /\ power = "on" /\ pc["ota"] = "activate"
      /\ pending' = target /\ palState' = "PENDING_SELF_TEST"
      /\ Goes("reset")
      /\ UNCHANGED <<nv, ob, image, target, active, power, copy, agent, timerArmed>>
  BY DEF ActivateNewImage, At, Runs, Goto, durable, TypeOK
<1>2. QED
  BY <1>1 DEF TypeOK, Contexts, PalStates

\* The transfer ends.
LEMMA EndTransferKeeps ==
  ASSUME TypeOK, Sound, ~worn', NEW byNotice \in BOOLEAN, EndTransfer(byNotice)
  PROVE  Sound'
<1>1. /\ power = "on" /\ pc["ota"] = "idle" /\ agent # "booting"
      /\ agent' = "waiting"
      /\ pc'["ota"] = "setAborted" /\ pc'["timer"] = pc["timer"]
      /\ after'["ota"] \in {"setAborted", "idle"} /\ after'["timer"] = after["timer"]
      /\ UNCHANGED <<nv, ob, image, palState, target, pending, active, power, copy, timerArmed>>
      /\ pc["timer"] = "idle" /\ agent = "receiving"
  BY DEF EndTransfer, Receiving, Undisturbed, At, Runs, Call, context, durable, TypeOK
<1>2. QED
  BY <1>1 DEF TypeOK, Contexts, PalStates

\* A job in self-test.
LEMMA SelfTestJobKeeps ==
  ASSUME TypeOK, Sound, ~worn', NEW newer \in BOOLEAN, ReceiveSelfTestJob(newer)
  PROVE  Sound'
<1>1. /\ power = "on" /\ pc["ota"] = "idle" /\ agent = "waiting" /\ pc["timer"] = "idle"
      /\ UNCHANGED <<nv, ob, image, palState, target, pending, active, power, copy, timerArmed>>
  BY DEF ReceiveSelfTestJob, Waiting, Undisturbed, At, Runs, context, durable
<1>2. CASE newer
  <2>1. /\ agent' \in {"testing", "waiting"} /\ UNCHANGED <<pc, after>>
        /\ agent' = "testing" => palState = "NEW_IMAGE_BOOTED"
    BY <1>1, <1>2 DEF ReceiveSelfTestJob
  <2>2. QED
    BY <1>1, <1>2, <2>1 DEF TypeOK, Contexts, PalStates
<1>3. CASE ~newer
  <2>1. /\ agent' = agent
        /\ Calls("setRejected", "reset")
    BY <1>1, <1>3 DEF ReceiveSelfTestJob, Call, TypeOK
  <2>2. QED
    BY <1>1, <1>3, <2>1 DEF TypeOK, Contexts, PalStates
<1>4. QED
  BY <1>1, <1>2, <1>3

\* The application accepts the image that it is asked to test.
LEMMA StartSelfTestKeeps ==
  ASSUME TypeOK, Sound, ~worn', StartSelfTest
  PROVE  Sound'
<1>1. /\ power = "on" /\ pc["ota"] = "idle" /\ agent = "testing"
      /\ agent' = "waiting"
      /\ UNCHANGED <<nv, ob, image, palState, target, pending, active, power, copy, timerArmed>>
  BY DEF StartSelfTest, At, Runs, context, durable
<1>2. CASE PlatformInSelftest
  <2>1. /\ Calls("commit", "stopTimer")
    BY <1>1, <1>2 DEF StartSelfTest, Call, TypeOK
  <2>2. QED
    BY <1>1, <1>2, <2>1 DEF TypeOK, Contexts, PalStates
<1>3. CASE ~PlatformInSelftest
  <2>1. /\ Calls("setRejected", "reset")
    BY <1>1, <1>3 DEF StartSelfTest, Call, TypeOK
  <2>2. QED
    BY <1>1, <1>3, <2>1 DEF TypeOK, Contexts, PalStates
<1>4. QED
  BY <1>1, <1>2, <1>3

\* The timer is stopped.
LEMMA StopTimerKeeps ==
  ASSUME TypeOK, Sound, ~worn', StopTimer
  PROVE  Sound'
<1>1. /\ power = "on" /\ pc["ota"] = "stopTimer"
      /\ timerArmed' = FALSE
      /\ Returns
      /\ UNCHANGED <<nv, ob, image, palState, target, pending, active, power, copy, agent>>
  BY DEF StopTimer, At, Runs, Return, context, durable, TypeOK
<1>2. QED
  BY <1>1 DEF TypeOK, Contexts, PalStates

\* Accepting the image deletes the context file.
LEMMA CommitKeeps ==
  ASSUME TypeOK, Sound, ~worn', Commit
  PROVE  Sound'
<1>1. /\ power = "on" /\ pc["ota"] = "commit"
      /\ nv' = nv \/ (nv'.state = "READY" /\ nv'.target = NoBank)
      /\ UNCHANGED <<ob, image, palState, target, active, power, copy, agent, timerArmed>>
  BY DEF Commit, DeleteNv, At, Runs
<1>2. CASE palState = "NEW_IMAGE_BOOTED" /\ DeleteNv(TRUE) /\ Goto("ota", "committed")
  <2>1. /\ Goes("committed")
        /\ pending' = target /\ nv'.target = NoBank
    BY <1>1, <1>2 DEF Commit, DeleteNv, Goto, TypeOK
  <2>2. QED
    BY <1>1, <1>2, <2>1 DEF TypeOK, Contexts, PalStates
<1>3. CASE palState = "NEW_IMAGE_BOOTED" /\ Return("ota")
  <2>1. /\ Returns
        /\ pending' = target
    BY <1>1, <1>3 DEF Commit, Return, TypeOK
  <2>2. QED
    BY <1>1, <1>3, <2>1 DEF TypeOK, Contexts, PalStates
<1>4. CASE palState # "NEW_IMAGE_BOOTED" /\ Return("ota") /\ UNCHANGED pending
  <2>1. /\ Returns
    BY <1>1, <1>4 DEF Return, TypeOK
  <2>2. QED
    BY <1>1, <1>4, <2>1 DEF TypeOK, Contexts, PalStates
<1>5. QED
  BY <1>1, <1>2, <1>3, <1>4 DEF Commit

\* Then the state changes.
LEMMA CommittedKeeps ==
  ASSUME TypeOK, Sound, ~worn', Committed
  PROVE  Sound'
<1>1. /\ power = "on" /\ pc["ota"] = "committed"
      /\ palState' = "ACCEPTED"
      /\ Returns
      /\ UNCHANGED <<nv, ob, image, target, pending, active, power, copy, agent, timerArmed>>
  BY DEF Committed, At, Runs, Return, durable, TypeOK
<1>2. QED
  BY <1>1 DEF TypeOK, Contexts, PalStates

\* Rejection.
LEMMA RejectKeeps ==
  ASSUME TypeOK, Sound, ~worn', SetRejected
  PROVE  Sound'
<1>1. /\ power = "on" /\ pc["ota"] = "setRejected"
      /\ UNCHANGED <<nv, ob, image, target, active, copy, agent, timerArmed>>
  BY DEF SetRejected, At, Runs, durable
<1>2. CASE /\ palState \in {"PENDING_SELF_TEST", "NEW_IMAGE_BOOTED"}
           /\ palState' = "SELF_TEST_FAILED" /\ pending' = Other(target)
           /\ Goto("ota", "reset") /\ UNCHANGED power
  <2>1. /\ Goes("reset")
    BY <1>1, <1>2 DEF Goto, TypeOK
  <2>2. QED
    BY <1>1, <1>2, <2>1 DEF TypeOK, Contexts, PalStates
<1>3. CASE palState = "SELF_TEST_FAILED" /\ Halt /\ UNCHANGED <<palState, pending>>
  <2>1. /\ power' = "halted" /\ UNCHANGED <<pc, after>>
    BY <1>1, <1>3 DEF Halt
  <2>2. QED
    BY <1>1, <1>3, <2>1 DEF TypeOK, Contexts, PalStates
<1>4. CASE /\ palState \in {"PENDING_ACTIVATION", "FILE_OPEN"}
           /\ pending' = Other(target)
           /\ Discard("REJECTED") /\ UNCHANGED <<palState, power>>
  <2>1. /\ Goes("erase")
    BY <1>1, <1>4 DEF Discard, Goto, TypeOK
  <2>2. QED
    BY <1>1, <1>4, <2>1 DEF TypeOK, Contexts, PalStates
<1>5. CASE /\ palState \in {"NEW_IMAGE_WDT_RESET", "REJECTED", "READY", "ACCEPTED"}
           /\ Return("ota") /\ UNCHANGED <<palState, pending, power>>
  <2>1. /\ Returns
    BY <1>1, <1>5 DEF Return, TypeOK
  <2>2. QED
    BY <1>1, <1>5, <2>1 DEF TypeOK, Contexts, PalStates
<1>6. palState = "SELF_TEST_FAILED" => active # Other(target)
  BY <1>1 DEF TypeOK, Contexts, PalStates
<1>7. QED
  <2> HIDE DEF Sound
  <2>1. QED
    BY <1>2, <1>3, <1>4, <1>5, <1>6 DEF SetRejected

\* Abortion.
LEMMA AbortKeeps ==
  ASSUME TypeOK, Sound, ~worn', SetAborted
  PROVE  Sound'
<1>1. /\ power = "on" /\ pc["ota"] = "setAborted"
      /\ UNCHANGED <<nv, ob, image, palState, target, active, copy, agent, timerArmed>>
  BY DEF SetAborted, At, Runs, durable
<1>2. CASE /\ palState \in {"READY", "REJECTED", "ACCEPTED"}
           /\ Return("ota") /\ UNCHANGED <<pending, power>>
  <2>1. /\ Returns
    BY <1>1, <1>2 DEF Return, TypeOK
  <2>2. QED
    BY <1>1, <1>2, <2>1 DEF TypeOK, Contexts, PalStates
<1>3. CASE Halt /\ UNCHANGED pending
  <2>1. /\ power' = "halted" /\ UNCHANGED <<pc, after>>
    BY <1>1, <1>3 DEF Halt
  <2>2. QED
    BY <1>1, <1>3, <2>1 DEF TypeOK, Contexts, PalStates
<1>4. CASE /\ palState = "NEW_IMAGE_BOOTED" /\ pending' = Other(target)
           /\ Return("ota") /\ UNCHANGED power
  <2>1. /\ Returns
    BY <1>1, <1>4 DEF Return, TypeOK
  <2>2. QED
    BY <1>1, <1>4, <2>1 DEF TypeOK, Contexts, PalStates
<1>5. CASE /\ palState \in {"FILE_OPEN", "PENDING_ACTIVATION", "PENDING_SELF_TEST", "NEW_IMAGE_WDT_RESET"}
           /\ active = Other(target) /\ pending' = active
           /\ Discard("READY") /\ UNCHANGED power
  <2>1. /\ Goes("erase")
    BY <1>1, <1>5 DEF Discard, Goto, TypeOK
  <2>2. QED
    BY <1>1, <1>5, <2>1 DEF TypeOK, Contexts, PalStates
<1>6. palState = "SELF_TEST_FAILED" => active # Other(target)
  BY <1>1 DEF TypeOK, Contexts, PalStates
<1>7. \/ /\ palState \in {"READY", "REJECTED", "ACCEPTED"}
         /\ Return("ota") /\ UNCHANGED <<pending, power>>
      \/ Halt /\ UNCHANGED pending
      \/ /\ palState = "NEW_IMAGE_BOOTED" /\ pending' = Other(target)
         /\ Return("ota") /\ UNCHANGED power
      \/ /\ palState \in {"FILE_OPEN", "PENDING_ACTIVATION", "PENDING_SELF_TEST", "NEW_IMAGE_WDT_RESET"}
         /\ active = Other(target) /\ pending' = active
         /\ Discard("READY") /\ UNCHANGED power
  <2> HIDE DEF Sound
  <2>1. QED
    BY <1>6 DEF SetAborted
<1>8. QED
  BY <1>2, <1>3, <1>4, <1>5, <1>7, Zenon

\* Erasing the target.
LEMMA EraseKeeps ==
  ASSUME TypeOK, Sound, ~worn', EraseImage
  PROVE  Sound'
<1>1. /\ power = "on" /\ pc["ota"] = "erase"
      /\ \A b \in Banks \ {target} : image'[b] = image[b]
      /\ UNCHANGED <<nv, ob, palState, target, pending, active, power, copy, agent, timerArmed>>
  BY DEF EraseImage, EraseBank, At, Runs, context, TypeOK
<1>2. CASE Goto("ota", "discard")
  <2>1. /\ Goes("discard")
    BY <1>1, <1>2 DEF Goto, TypeOK
  <2>2. QED
    BY <1>1, <1>2, <2>1 DEF TypeOK, Contexts, PalStates
<1>3. CASE Return("ota")
  <2>1. /\ Returns
    BY <1>1, <1>3 DEF Return, TypeOK
  <2>2. QED
    BY <1>1, <1>3, <2>1 DEF TypeOK, Contexts, PalStates
<1>4. QED
  BY <1>1, <1>2, <1>3 DEF EraseImage

\* Deleting its context.
LEMMA DiscardKeeps ==
  ASSUME TypeOK, Sound, ~worn', DiscardContext
  PROVE  Sound'
<1>1. /\ power = "on" /\ pc["ota"] = "discard"
      /\ nv' = nv \/ (nv'.state = "READY" /\ nv'.target = NoBank)
      /\ Returns
      /\ palState' \in {palState, goal}
      /\ UNCHANGED <<ob, image, target, pending, active, power, copy, agent, timerArmed>>
  BY DEF DiscardContext, DeleteNv, Return, At, Runs, TypeOK
<1>2. QED
  BY <1>1 DEF TypeOK, Contexts, PalStates

\* The self-test timer expires.
LEMMA TimerKeeps ==
  ASSUME TypeOK, Sound, ~worn', TimerExpires
  PROVE  Sound'
<1>1. /\ power = "on" /\ pc["timer"] = "idle" /\ timerArmed
      /\ timerArmed' = FALSE
      /\ pc'["timer"] = "reset" /\ pc'["ota"] = pc["ota"] /\ after' = after
      /\ UNCHANGED <<nv, ob, image, palState, target, pending, active, power, copy, agent>>
  BY DEF TimerExpires, At, Runs, Goto, context, durable, TypeOK
<1>2. QED
  BY <1>1 DEF TypeOK, Contexts, PalStates

\* Power fails.
LEMMA PowerKeeps ==
  ASSUME TypeOK, Sound, ~worn', PowerOff
  PROVE  Sound'
<1>1. /\ power' = "off"
      /\ pc'["ota"] = "idle" /\ pc'["timer"] = "idle"
      /\ after'["ota"] = "idle" /\ after'["timer"] = "idle"
      /\ agent' = "booting" /\ timerArmed' = FALSE
      /\ UNCHANGED <<nv, ob, image, active>>
  BY DEF PowerOff, durable
<1>2. QED
  BY <1>1 DEF TypeOK, Contexts, PalStates

\* The reset of the device, which both tasks call.
LEMMA ResetKeeps ==
  ASSUME TypeOK, Sound, NEW t \in Tasks, Reset(t)
  PROVE  Sound'
<1>1. /\ power = "on" /\ pc[t] = "reset" /\ Started
      /\ UNCHANGED <<nv, ob, image, target, active, agent, timerArmed>>
  BY DEF Reset, At, Runs, durable
<1> DEFINE u == IF t = "ota" THEN "timer" ELSE "ota"
           goes(s) == pc'[t] = s /\ pc'[u] = pc[u] /\ after' = after /\ power' = power
<1>2. ASSUME NEW s \in PCs, Goto(t, s), UNCHANGED power PROVE goes(s)
  BY <1>2 DEF Goto, TypeOK
<1>3. CASE /\ palState = "NEW_IMAGE_BOOTED" /\ palState' = "SELF_TEST_FAILED"
           /\ copy' = [copy EXCEPT ![t] = [state |-> "SELF_TEST_FAILED", target |-> target]]
           /\ Goto(t, "resetSave") /\ UNCHANGED <<pending, power>>
  <2>1. goes("resetSave")
    BY <1>2, <1>3 DEF PCs
  <2>2. copy'[t].state = "SELF_TEST_FAILED" /\ copy'[t].target = target /\ copy'[u] = copy[u]
    BY <1>3 DEF TypeOK
  <2>3. QED
    BY <1>1, <1>3, <2>1, <2>2 DEF TypeOK, Contexts, PalStates
<1>4. CASE /\ palState = "PENDING_SELF_TEST" /\ palState' = palState
           /\ active = Other(target) /\ pending' = target
           /\ copy' = [copy EXCEPT ![t] = [state |-> "PENDING_SELF_TEST", target |-> target]]
           /\ Goto(t, "resetSave") /\ UNCHANGED power
  <2>1. goes("resetSave")
    BY <1>2, <1>4 DEF PCs
  <2>2. copy'[t].state = "PENDING_SELF_TEST" /\ copy'[t].target = target /\ copy'[u] = copy[u]
    BY <1>4 DEF TypeOK
  <2>3. QED
    BY <1>1, <1>4, <2>1, <2>2 DEF TypeOK, Contexts, PalStates
<1>5. CASE palState' = palState /\ Halt /\ UNCHANGED <<pending, copy>>
  BY <1>1, <1>5 DEF Halt, TypeOK, Contexts, PalStates
<1>6. CASE /\ palState = "SELF_TEST_FAILED" /\ pending' = Other(target)
           /\ Goto(t, "resetDelete") /\ UNCHANGED <<palState, copy, power>>
  <2>1. goes("resetDelete")
    BY <1>2, <1>6 DEF PCs
  <2>2. QED
    BY <1>1, <1>6, <2>1 DEF TypeOK, Contexts, PalStates
<1>7. CASE /\ palState = "NEW_IMAGE_WDT_RESET"
           /\ Goto(t, "select") /\ UNCHANGED <<palState, pending, copy, power>>
  <2>1. goes("select")
    BY <1>2, <1>7 DEF PCs
  <2>2. QED
    BY <1>1, <1>7, <2>1 DEF TypeOK, Contexts, PalStates
<1>8. CASE /\ palState \in {"READY", "FILE_OPEN", "PENDING_ACTIVATION", "ACCEPTED", "REJECTED"}
           /\ pending' = Other(target)
           /\ Goto(t, "select") /\ UNCHANGED <<palState, copy, power>>
  <2>1. goes("select")
    BY <1>2, <1>8 DEF PCs
  <2>2. QED
    BY <1>1, <1>8, <2>1 DEF TypeOK, Contexts, PalStates
<1>9. QED
  BY <1>3, <1>4, <1>5, <1>6, <1>7, <1>8 DEF Reset

\* Writing the context before the reset.
LEMMA ResetSaveKeeps ==
  ASSUME TypeOK, Sound, NEW t \in Tasks, ResetSave(t)
  PROVE  Sound'
<1> DEFINE u == IF t = "ota" THEN "timer" ELSE "ota"
<1>1. /\ power = "on" /\ pc[t] = "resetSave"
      /\ nv' = nv \/ nv' = copy[t]
      /\ pending' = IF copy[t].state = "SELF_TEST_FAILED" THEN Other(target) ELSE pending
      /\ UNCHANGED <<ob, image, palState, target, active, power, copy, agent, timerArmed>>
  BY DEF ResetSave, WriteNv, At, Runs
<1>2. pc'[t] \in {"select", "selectOnly"} /\ pc'[u] = pc[u] /\ after' = after
  BY DEF ResetSave, Goto, TypeOK
<1>3. QED
  BY <1>1, <1>2 DEF TypeOK, Contexts, PalStates

\* Deleting the context before the reset.
LEMMA ResetDeleteKeeps ==
  ASSUME TypeOK, Sound, NEW t \in Tasks, ResetDelete(t)
  PROVE  Sound'
<1> DEFINE u == IF t = "ota" THEN "timer" ELSE "ota"
<1>1. /\ power = "on" /\ pc[t] = "resetDelete"
      /\ nv' = nv \/ (nv'.state = "READY" /\ nv'.target = NoBank)
      /\ UNCHANGED <<ob, image, palState, target, pending, active, power, copy, agent, timerArmed>>
  BY DEF ResetDelete, DeleteNv, At, Runs, context
<1>2. pc'[t] \in {"select", "selectOnly"} /\ pc'[u] = pc[u] /\ after' = after
  BY DEF ResetDelete, Goto, TypeOK
<1>3. QED
  BY <1>1, <1>2 DEF TypeOK, Contexts, PalStates

\* Selecting the bank: it is the one that runs, or holds a good image.
LEMMA SelectKeeps ==
  ASSUME TypeOK, Sound, ~worn', NEW t \in Tasks, SelectBank(t)
  PROVE  Sound'
<1> DEFINE u == IF t = "ota" THEN "timer" ELSE "ota"
<1>1. /\ power = "on" /\ pc[t] \in {"select", "selectOnly"}
      /\ UNCHANGED <<nv, image, palState, target, pending, active, power, copy, agent, timerArmed>>
  BY DEF SelectBank, At, Runs, context
<1>2. pc[t] = "selectOnly" => pending \in Banks \ {active}
  BY <1>1 DEF TypeOK
<1>3. /\ Goto(t, "apply")
      /\ ob' = IF pending \in Banks \ {active} THEN pending ELSE ob
  BY <1>1, <1>2 DEF SelectBank, TypeOK
<1>4. pc'[t] = "apply" /\ pc'[u] = pc[u] /\ after' = after
  BY <1>3 DEF Goto, TypeOK
<1>5. QED
  BY <1>1, <1>2, <1>3, <1>4 DEF TypeOK, Contexts, PalStates

\* Initially the device is off.
LEMMA SoundInit == Init => TypeOK /\ Sound
<1> SUFFICES ASSUME Init PROVE TypeOK /\ Sound
  OBVIOUS
<1>1. confirmed = {1} /\ tried = {} /\ worn = FALSE /\ nv \in Contexts
  BY DEF Init, Contexts, PalStates
<1>2. TypeOK
  BY <1>1 DEF Init, TypeOK, Contexts, PalStates, PCs, Contents
<1>3. Sound
  BY DEF Init
<1>4. QED
  BY <1>2, <1>3

\* Every step keeps Sound.
LEMMA SoundNext ==
  ASSUME TypeOK, Sound, ~worn', Next
  PROVE  Sound'
<1>1. CASE BootStep
  BY <1>1, BootKeeps, EarlyInitKeeps, EarlySaveKeeps, EarlyDeleteKeeps, EarlyEraseKeeps,
     StartAgentKeeps DEF BootStep
<1>2. CASE \E t \in Tasks : ResetStep(t)
  <2>1. \A t \in Tasks : Apply(t) => PowerOff
    BY DEF Apply
  <2>2. QED
    BY <1>2, <2>1, ResetKeeps, ResetSaveKeeps, ResetDeleteKeeps, SelectKeeps, PowerKeeps DEF ResetStep
<1>3. CASE OtaStep
  BY <1>2, <1>3, CreateKeeps, CreateDeleteKeeps, CloseKeeps, ActivateKeeps, StartSelfTestKeeps,
     StopTimerKeeps, CommitKeeps, CommittedKeeps, RejectKeeps, AbortKeeps, EraseKeeps, DiscardKeeps
     DEF OtaStep
<1>4. CASE Event
  BY <1>4, UpdateJobKeeps, WriteKeeps, EndTransferKeeps, SelfTestJobKeeps DEF Event
<1>5. CASE TimerExpires
  BY <1>5, TimerKeeps
<1>6. CASE PowerCycle
  BY <1>6, PowerKeeps DEF PowerCycle
<1>7. QED
  BY <1>1, <1>2, <1>3, <1>4, <1>5, <1>6 DEF Next

HIDE DEF Started, GoodBank, Early, Changing, Resetting, Plain, BootInv, AgentInv, SwitchInv, FileInv,
         TargetInv, StepInv, ImageInv, TimerInv, SaveInv, CopyInv, ReturnInv, Sound, NoContext,
         Goes, Calls, Returns

\* What wore the flash out stays.
LEMMA WornStays == TypeOK /\ worn /\ [Next]_vars => worn'
<1> SUFFICES ASSUME TypeOK, worn, [Next]_vars PROVE worn'
  OBVIOUS
<1> USE DEF history, durable, context, control
<1>1. CASE BootStep
  BY <1>1 DEF BootStep, Boot, EarlyInit, EarlySave, EarlyDelete, EarlyErase, EraseBank, StartAgent
<1>2. CASE \E t \in Tasks : ResetStep(t)
  BY <1>2 DEF ResetStep, Reset, ResetSave, ResetDelete, SelectBank, Apply, PowerOff
<1>3. CASE OtaStep
  BY <1>2, <1>3 DEF OtaStep, CreateFile, EraseBank, CreateFileDelete, CloseFile, ActivateNewImage,
     StartSelfTest, StopTimer, Commit, Committed, SetRejected, SetAborted, EraseImage, DiscardContext
<1>4. CASE Event
  BY <1>4 DEF Event, ReceiveUpdateJob, WriteBlock, EndTransfer, ReceiveSelfTestJob
<1>5. CASE TimerExpires \/ PowerCycle \/ UNCHANGED vars
  BY <1>5 DEF TimerExpires, PowerCycle, PowerOff, vars
<1>6. QED
  BY <1>1, <1>2, <1>3, <1>4, <1>5 DEF Next

\* A stuttering step keeps Sound.
LEMMA SoundStutters == Sound /\ UNCHANGED vars => Sound'
  BY DEF vars, durable, context, control, history, Started, GoodBank, Early, Changing, Resetting, Plain,
     BootInv, AgentInv, SwitchInv, FileInv, TargetInv, StepInv, ImageInv, TimerInv, SaveInv, CopyInv,
     ReturnInv, Sound

Inv == TypeOK /\ (worn \/ Sound)

\* The invariant holds in every reachable state.
LEMMA InvHolds == Spec => []Inv
<1>1. Init => Inv
  BY SoundInit DEF Inv
<1>2. Inv /\ [Next]_vars => Inv'
  BY TypeNext, WornStays, SoundNext, SoundStutters DEF Inv
<1>3. QED
  BY <1>1, <1>2, PTL DEF Spec

-----------------------------------------------------------------------------
(* The theorems.                                                           *)

\* Every variable keeps its type.
THEOREM TypeCorrect == Spec => []TypeOK
<1>1. Inv => TypeOK
  BY DEF Inv
<1>2. QED
  BY <1>1, InvHolds, PTL

\* Whatever operation on the context file fails, and whenever the power does,
\* the bank that the option byte selects holds an image whose hash and
\* signature otaPal_CloseFile has verified; only a failed operation on the
\* flash can end this.
THEOREM DeviceBoots == Spec => []BootBankVerified
<1>1. Inv => BootBankVerified
  BY DEF Inv, Sound, ImageInv, BootBankVerified
<1>2. QED
  BY <1>1, InvHolds, PTL

\* A trial is a trial of the image that runs, as the assertions of
\* otaPal_SetPlatformImageState and otaPal_ResetDevice say, even after failed
\* operations on the flash.
THEOREM TrialRunsTarget == Spec => []BootedOnTarget
<1>1. Init => BootedOnTarget
  BY DEF Init, BootedOnTarget
<1>2. TypeOK /\ BootedOnTarget /\ [Next]_vars => BootedOnTarget'
  <2> SUFFICES ASSUME TypeOK, BootedOnTarget, Next PROVE BootedOnTarget'
    BY DEF vars, durable, context, control, history, BootedOnTarget
  <2> USE DEF durable, context, control, history, BootedOnTarget, At, Runs, TypeOK
  <2>1. CASE Boot
    <3>1. pc'["ota"] = "earlyInit"
      BY <2>1 DEF Boot
    <3>2. QED
      BY <3>1
  <2>2. CASE EarlyInit
    BY <2>2 DEF EarlyInit, StartTrial, RevertTrial, Halt
  <2>3. CASE PowerOff
    BY <2>3 DEF PowerOff
  <2>4. ASSUME pc["ota"] # "earlyInit", power = "on", UNCHANGED <<active>>,
               palState' = "NEW_IMAGE_BOOTED" => palState' = palState /\ target' = target
        PROVE  BootedOnTarget'
    BY <2>4
  <2>5. CASE BootStep /\ ~Boot /\ ~EarlyInit
    BY <2>4, <2>5 DEF BootStep, EarlySave, EarlyDelete, EarlyErase, StartAgent
  <2>6. ASSUME NEW t \in Tasks, ResetStep(t), ~PowerOff PROVE BootedOnTarget'
    <3>1. CASE t = "ota"
      BY <2>4, <2>6, <3>1 DEF ResetStep, Reset, ResetSave, ResetDelete, SelectBank, Apply
    <3>2. CASE t = "timer"
      <4>1. pc'["ota"] = pc["ota"] /\ power = "on" /\ UNCHANGED <<active, target>>
        BY <2>6, <3>2 DEF ResetStep, Reset, ResetSave, ResetDelete, SelectBank, Apply, Goto, Return, Halt
      <4>2. palState' = "NEW_IMAGE_BOOTED" => palState' = palState
        BY <2>6, <3>2 DEF ResetStep, Reset, ResetSave, ResetDelete, SelectBank, Apply
      <4>3. QED
        BY <4>1, <4>2
    <3>3. QED
      BY <3>1, <3>2
  <2>7. CASE OtaStep /\ ~ResetStep("ota")
    BY <2>4, <2>7 DEF OtaStep, CreateFile, CreateFileDelete, CloseFile, ActivateNewImage,
       StartSelfTest, StopTimer, Commit, Committed, SetRejected, SetAborted, EraseImage, DiscardContext
  <2>8. CASE Event
    BY <2>4, <2>8 DEF Event, ReceiveUpdateJob, WriteBlock, EndTransfer, ReceiveSelfTestJob, Waiting, Receiving
  <2>9. CASE TimerExpires
    <3>1. pc'["ota"] = pc["ota"] /\ power = "on" /\ UNCHANGED <<active, target, palState>>
      BY <2>9 DEF TimerExpires, Goto
    <3>2. QED
      BY <3>1
  <2>10. QED
    BY <2>1, <2>2, <2>3, <2>5, <2>6, <2>7, <2>8, <2>9 DEF Next, PowerCycle, OtaStep
<1>3. QED
  BY <1>1, <1>2, TypeCorrect, PTL DEF Spec

-----------------------------------------------------------------------------
(* Trials, when nothing fails but the deletion of a file: every other      *)
(* fault can leave an image that runs on trial without the context saying  *)
(* so, or no accepted image to go back to.                                 *)

OnlyDeletes == Faults \subseteq {"delete"}

\* An accepted image to go back to, if there is a bank to go to.
Trusted(b) == b \in Banks => b \in confirmed

\* Before otaPal_EarlyInit reads it, the context fits the bank that boots.
RestInv == ~Started =>
  /\ nv.state = "READY" => ob \in confirmed
  /\ nv.state = "PENDING_SELF_TEST" => nv.target = ob
  /\ nv.state \in {"NEW_IMAGE_WDT_RESET", "SELF_TEST_FAILED"} => nv.target # ob

\* The other bank than the target holds an accepted image, and an image that
\* runs without having been accepted is on trial.
TrustInv ==
  /\ \A b \in confirmed : image[b] = "authentic"
  /\ Trusted(Other(nv.target))
  /\ Started /\ pc["ota"] # "createDelete" => Trusted(Other(target))
  /\ Started /\ active \notin confirmed =>
       /\ palState \in {"NEW_IMAGE_BOOTED", "SELF_TEST_FAILED", "NEW_IMAGE_WDT_RESET"}
       /\ target = active /\ pc["ota"] # "committed"

\* The image that is received has not been accepted, nor run before its trial.
FreshInv ==
  /\ nv.state = "PENDING_SELF_TEST" => nv.target \notin tried
  /\ Started =>
     /\ pc["ota"] = "createDelete" \/ palState = "FILE_OPEN" => Other(active) \notin confirmed
     /\ pc["ota"] = "createDelete" \/ palState \in {"FILE_OPEN", "PENDING_ACTIVATION", "PENDING_SELF_TEST"} =>
          Other(active) \notin tried
     /\ palState = "NEW_IMAGE_BOOTED" /\ agent = "booting" => active \notin tried

\* What the context file holds while the state in RAM changes.
Switching(t) == pc[t] \in {"select", "selectOnly", "apply"}
ContextInv == Started =>
  /\ nv.state = "PENDING_SELF_TEST" =>
       \/ pc["ota"] = "earlySave" /\ palState = "NEW_IMAGE_BOOTED"
       \/ Switching("ota") /\ palState = "PENDING_SELF_TEST"
  /\ palState = "PENDING_SELF_TEST" /\ Switching("ota") =>
       nv.state = "PENDING_SELF_TEST" /\ nv.target = target
  /\ palState = "NEW_IMAGE_WDT_RESET" =>
       /\ agent = "booting" /\ nv.target = target
       /\ pc["ota"] # "earlySave" => nv.state = "NEW_IMAGE_WDT_RESET"
  /\ target = active => nv.target # Other(active)
  /\ palState = "NEW_IMAGE_BOOTED" /\ pc["ota"] \notin {"earlySave", "committed"} =>
       nv.state = "NEW_IMAGE_BOOTED"
  /\ palState = "SELF_TEST_FAILED" /\ pc["ota"] \notin Resetting \cup {"committed"} /\ ~Switching("timer") =>
       nv.state = "NEW_IMAGE_BOOTED"
  /\ nv.state = "NEW_IMAGE_BOOTED" => nv.target = active \/ pc["ota"] = "earlySave"
  /\ nv.state \in {"NEW_IMAGE_WDT_RESET", "SELF_TEST_FAILED"} /\ nv.target = active =>
       \/ palState = "NEW_IMAGE_WDT_RESET" /\ pc["ota"] \in Resetting
       \/ palState \in {"SELF_TEST_FAILED", "ACCEPTED"} /\ \E t \in Tasks : Switching(t)

\* A reset boots the target of a new image, and else the bank to go back to.

\* The agent receives a file, or sets its image aborted, outside of a trial,
\* and the image that failed is not the one that runs.
AbortInv == Started =>
  /\ agent = "receiving" => palState \notin {"NEW_IMAGE_BOOTED", "SELF_TEST_FAILED"}
  /\ pc["ota"] = "setAborted" => palState \notin {"NEW_IMAGE_BOOTED", "SELF_TEST_FAILED"}
  /\ pc["ota"] = "earlyDelete" => target # active

\* The bank that a reset selects, if it is one.
NextBank == IF palState = "PENDING_SELF_TEST" THEN target ELSE Other(target)
ResetInv == Started => \A t \in Tasks :
  /\ pc[t] = "resetDelete" => palState \in {"SELF_TEST_FAILED", "ACCEPTED"}
  /\ pc[t] \in {"select", "selectOnly"} => pending = NextBank
  /\ pc[t] = "apply" => ob = IF NextBank \in Banks THEN NextBank ELSE active

\* The assertion that stops the processor is the one that expects the other
\* bank to run when an image is rejected whose self-test has failed: it finds
\* the new image still running when the timer's callback has begun its reset.
OnlyRaceHalts == power = "halted" =>
  palState = "SELF_TEST_FAILED" /\ pc["ota"] = "setRejected" /\ pc["timer"] # "idle"

Trial == ~worn /\ RestInv /\ TrustInv /\ FreshInv /\ ContextInv /\ AbortInv /\ ResetInv /\ OnlyRaceHalts

\* An operation that cannot fail succeeds.
LEMMA Sure ==
  ASSUME OnlyDeletes, NEW f \in {"write", "erase", "select"} PROVE Succeeds(f) = {TRUE}
  BY DEF OnlyDeletes, Succeeds

USE DEF Started, GoodBank, Early, Changing, Resetting, Plain, BootInv, AgentInv, SwitchInv, FileInv, TargetInv,
        StepInv, ImageInv, TimerInv, SaveInv, CopyInv, ReturnInv, Sound, NoContext, Goes, Calls, Returns,
        Trusted, RestInv, TrustInv, FreshInv, Switching, ContextInv, AbortInv, NextBank, ResetInv,
        OnlyRaceHalts, Trial

\* The boot reads the context, which fits the bank.
LEMMA BootTrial == TypeOK /\ Sound /\ Trial /\ Boot => Trial'
<1> SUFFICES ASSUME TypeOK, Sound, Trial, Boot PROVE Trial'
  OBVIOUS
<1>1. /\ power = "off" /\ power' = "on" /\ active' = ob /\ palState' = nv.state /\ target' = nv.target
      /\ pc'["ota"] = "earlyInit" /\ pc'["timer"] = "idle"
      /\ UNCHANGED <<nv, ob, image, agent, confirmed, tried, worn>>
  BY DEF Boot, durable, history
<1>2. QED
  BY <1>1 DEF TypeOK, Contexts, PalStates

\* The first otaPal_EarlyInit starts a trial, or ends one.
LEMMA EarlyInitTrial == TypeOK /\ Sound /\ Trial /\ EarlyInit => Trial'
<1> SUFFICES ASSUME TypeOK, Sound, Trial, EarlyInit PROVE Trial'
  OBVIOUS
<1>1. /\ power = "on" /\ pc["ota"] = "earlyInit" /\ agent = "booting" /\ pc["timer"] = "idle"
      /\ ob = active /\ nv.state = palState /\ nv.target = target
      /\ UNCHANGED <<nv, ob, image, target, active, agent, confirmed, tried, worn>>
  BY DEF EarlyInit, At, Runs, durable, history
<1>2. CASE StartTrial
  <2>1. target = active
    BY <1>1, <1>2 DEF StartTrial
  <2>2. /\ palState = "PENDING_SELF_TEST" /\ palState' = "NEW_IMAGE_BOOTED"
        /\ Goes("earlySave") /\ power' = power
    BY <1>2, <2>1 DEF StartTrial, Goto, TypeOK
  <2>3. QED
    BY <1>1, <2>1, <2>2 DEF TypeOK, Contexts, PalStates
<1>3. CASE RevertTrial
  <2>1. /\ palState = "NEW_IMAGE_BOOTED" /\ palState' = "NEW_IMAGE_WDT_RESET"
        /\ Goes("earlySave") /\ power' = power
    BY <1>3 DEF RevertTrial, Goto, TypeOK
  <2>2. QED
    BY <1>1, <2>1 DEF TypeOK, Contexts, PalStates
<1>4. CASE /\ palState \in {"NEW_IMAGE_WDT_RESET", "SELF_TEST_FAILED"}
           /\ palState' = "REJECTED"
           /\ Goto("ota", "earlyDelete") /\ UNCHANGED power
  <2>1. Goes("earlyDelete")
    BY <1>4 DEF Goto, TypeOK
  <2>2. QED
    BY <1>1, <1>4, <2>1 DEF TypeOK, Contexts, PalStates
<1>5. CASE palState = "READY" /\ Return("ota") /\ UNCHANGED <<palState, power>>
  <2>1. pc'["ota"] = "idle" /\ pc'["timer"] = pc["timer"]
    BY <1>1, <1>5 DEF Return, TypeOK
  <2>2. QED
    BY <1>1, <1>5, <2>1 DEF TypeOK, Contexts, PalStates
<1>6. QED
  BY <1>2, <1>3, <1>4, <1>5 DEF EarlyInit

\* What it makes of the context is saved.
LEMMA EarlySaveTrial ==
  ASSUME OnlyDeletes, TypeOK, Sound, Trial, EarlySave
  PROVE  Trial'
<1>1. /\ power = "on" /\ pc["ota"] = "earlySave" /\ pc["timer"] = "idle"
      /\ nv' = copy["ota"] /\ nv'.state = palState /\ nv'.target = target
      /\ Goes(IF palState = "NEW_IMAGE_WDT_RESET" THEN "reset" ELSE "idle")
      /\ UNCHANGED <<ob, image, palState, target, pending, active, power, agent, confirmed, tried, worn>>
  BY Sure DEF EarlySave, WriteNv, At, Runs, Goto, context, history, TypeOK
<1>2. QED
  BY <1>1 DEF TypeOK, Contexts, PalStates

\* The image that failed is not the one that runs.
LEMMA EarlyDeleteTrial ==
  ASSUME OnlyDeletes, TypeOK, Sound, Trial, EarlyDelete
  PROVE  Trial'
<1>1. /\ power = "on" /\ pc["ota"] = "earlyDelete" /\ pc["timer"] = "idle"
      /\ nv' = nv \/ (nv'.state = "READY" /\ nv'.target = NoBank)
      /\ UNCHANGED <<ob, image, palState, target, pending, active, agent, confirmed, tried, worn>>
  BY DEF EarlyDelete, DeleteNv, At, Runs, context, history
<1>2. active \in confirmed /\ palState = "REJECTED"
  BY <1>1 DEF TypeOK, Contexts, PalStates
<1>3. CASE target # active
  <2>1. Goes("earlyErase") /\ power' = power
    BY <1>1, <1>3 DEF EarlyDelete, Goto, TypeOK
  <2>2. QED
    BY <1>1, <1>2, <1>3, <2>1 DEF TypeOK, Contexts, PalStates
<1>4. CASE target = active
  <2>1. power' = "halted" /\ UNCHANGED <<pc, after>>
    BY <1>1, <1>4 DEF EarlyDelete, Halt
  <2>2. QED
    BY <1>1, <1>2, <1>4, <2>1 DEF TypeOK, Contexts, PalStates
<1>5. QED
  BY <1>1, <1>3, <1>4

\* The image that failed is erased.
LEMMA EarlyEraseTrial ==
  ASSUME OnlyDeletes, TypeOK, Sound, Trial, EarlyErase
  PROVE  Trial'
<1>0. EraseBank(target, TRUE)
  <2>1. Succeeds("erase") = {TRUE}
    BY Sure
  <2>2. QED
    BY <2>1 DEF EarlyErase
<1>1. /\ power = "on" /\ pc["ota"] = "earlyErase" /\ pc["timer"] = "idle" /\ palState = "REJECTED"
      /\ target = Other(active)
      /\ Returns /\ after["ota"] = "idle"
      /\ \A b \in Banks \ {target} : image'[b] = image[b]
      /\ confirmed' = confirmed \ {target} /\ tried' = tried \ {target} /\ ~worn'
      /\ UNCHANGED <<nv, ob, palState, target, pending, active, power, agent>>
  BY <1>0 DEF EarlyErase, EraseBank, Return, At, Runs, context, TypeOK
<1>2. active \in confirmed /\ nv.state # "PENDING_SELF_TEST"
  BY <1>1 DEF TypeOK, Contexts, PalStates
<1>3. nv.target # active
  BY <1>1, <1>2 DEF TypeOK, Contexts, PalStates
<1>4. QED
  BY <1>1, <1>2, <1>3 DEF TypeOK, Contexts, PalStates

\* The application starts: a new image runs for the first time.
LEMMA StartAgentTrial ==
  ASSUME TypeOK, Sound, Trial, StartAgent
  PROVE  Trial'
<1>1. /\ power = "on" /\ pc["ota"] = "idle" /\ pc["timer"] = "idle"
      /\ agent = "booting" /\ agent' = "waiting"
      /\ tried' \subseteq tried \cup {active}
      /\ UNCHANGED <<nv, ob, image, palState, target, pending, active, power, pc, confirmed, worn>>
  BY DEF StartAgent, At, Runs, context, durable, TypeOK
<1>2. QED
  BY <1>1 DEF TypeOK, Contexts, PalStates

\* A job of an update.
LEMMA UpdateJobTrial ==
  ASSUME TypeOK, Sound, Trial, ReceiveUpdateJob
  PROVE  Trial'
<1>1. /\ power = "on" /\ pc["ota"] = "idle" /\ agent = "waiting" /\ pc["timer"] = "idle"
      /\ pc'["ota"] = "create" \/ pc'["ota"] = "reset"
      /\ pc'["timer"] = pc["timer"]
      /\ UNCHANGED <<nv, ob, image, palState, target, pending, active, power, agent, confirmed, tried, worn>>
  BY DEF ReceiveUpdateJob, Waiting, Undisturbed, Goto, At, Runs, context, durable, history, TypeOK
<1>2. QED
  BY <1>1 DEF TypeOK, Contexts, PalStates

\* Creating the file erases the other bank; the image that runs is accepted.
LEMMA CreateTrial ==
  ASSUME OnlyDeletes, TypeOK, Sound, Trial, NEW acceptable \in BOOLEAN, CreateFile(acceptable)
  PROVE  Trial'
<1>1. /\ power = "on" /\ pc["ota"] = "create"
      /\ palState' = IF palState \in {"ACCEPTED", "REJECTED", "READY"} THEN "READY" ELSE palState
      /\ UNCHANGED <<nv, ob, target, pending, active, power, agent>>
  BY DEF CreateFile, At, Runs
<1>2. active \in confirmed /\ pc["timer"] = "idle" /\ nv.target # active
  BY <1>1 DEF TypeOK, Contexts, PalStates
<1>3. CASE /\ palState \in {"ACCEPTED", "REJECTED", "READY"}
           /\ EraseBank(Other(active), TRUE) /\ Goto("ota", "createDelete")
  <2>1. /\ Goes("createDelete")
        /\ \A b \in Banks \ {Other(active)} : image'[b] = image[b]
        /\ confirmed' = confirmed \ {Other(active)} /\ tried' = tried \ {Other(active)} /\ ~worn'
    BY <1>1, <1>3 DEF EraseBank, Goto, TypeOK
  <2>2. QED
    BY <1>1, <1>2, <1>3, <2>1 DEF TypeOK, Contexts, PalStates
<1>4. CASE Call("ota", "setAborted", "setAborted") /\ UNCHANGED <<image, history>>
  <2>1. Calls("setAborted", "setAborted") /\ UNCHANGED <<confirmed, tried, worn>>
    BY <1>1, <1>4 DEF Call, history, TypeOK
  <2>2. QED
    BY <1>1, <1>2, <1>4, <2>1 DEF TypeOK, Contexts, PalStates
<1>5. Succeeds("erase") = {TRUE}
  BY Sure
<1>6. QED
  <2> HIDE DEF Sound, Trial
  <2>1. QED
    BY <1>3, <1>4, <1>5 DEF CreateFile

\* The file is open: its target is the other bank.
LEMMA CreateDeleteTrial ==
  ASSUME TypeOK, Sound, Trial, CreateFileDelete
  PROVE  Trial'
<1>1. /\ power = "on" /\ pc["ota"] = "createDelete" /\ pc["timer"] = "idle"
      /\ target' = Other(active) /\ palState' = "FILE_OPEN"
      /\ nv' = nv \/ (nv'.state = "READY" /\ nv'.target = NoBank)
      /\ UNCHANGED <<ob, image, active, power, confirmed, tried, worn>>
      /\ pc'["timer"] = "idle" /\ pc'["ota"] \in {"idle", "setAborted"}
  BY DEF CreateFileDelete, DeleteNv, Return, Call, At, Runs, history, TypeOK
<1>2. active \in confirmed /\ nv.target # active
  BY <1>1 DEF TypeOK, Contexts, PalStates
<1>3. QED
  BY <1>1, <1>2 DEF TypeOK, Contexts, PalStates

\* A block is written to the target, which holds no accepted image.
LEMMA WriteTrial ==
  ASSUME TypeOK, Sound, Trial, NEW last \in BOOLEAN, WriteBlock(last)
  PROVE  Trial'
<1>1. /\ power = "on" /\ pc["ota"] = "idle" /\ pc["timer"] = "idle" /\ palState = "FILE_OPEN"
      /\ \A b \in Banks \ {target} : image'[b] = image[b]
      /\ pc'["ota"] \in {"close", "idle"} /\ pc'["timer"] = pc["timer"]
      /\ UNCHANGED <<nv, ob, palState, target, pending, active, power, agent, confirmed, tried, worn>>
  BY DEF WriteBlock, Receiving, Undisturbed, At, Runs, Goto, context, history, TypeOK
<1>2. target = Other(active) /\ target \notin confirmed
  BY <1>1
<1>3. QED
  BY <1>1, <1>2 DEF TypeOK, Contexts, PalStates

\* The file is closed.
LEMMA CloseTrial ==
  ASSUME TypeOK, Sound, Trial, NEW valid \in BOOLEAN, CloseFile(valid)
  PROVE  Trial'
<1>1. /\ power = "on" /\ pc["ota"] = "close" /\ palState = "FILE_OPEN" /\ pc["timer"] = "idle"
      /\ palState' \in {"FILE_OPEN", "PENDING_ACTIVATION"}
      /\ pc'["ota"] \in {"activate", "setRejected"} /\ pc'["timer"] = pc["timer"]
      /\ UNCHANGED <<nv, ob, image, target, pending, active, power, agent, confirmed, tried, worn>>
  BY DEF CloseFile, Goto, Call, At, Runs, durable, history, TypeOK
<1>2. QED
  BY <1>1 DEF TypeOK, Contexts, PalStates

\* The image is to be tested.
LEMMA ActivateTrial ==
  ASSUME TypeOK, Sound, Trial, ActivateNewImage
  PROVE  Trial'
<1>1. /\ power = "on" /\ pc["ota"] = "activate"
      /\ palState = "PENDING_ACTIVATION" /\ palState' = "PENDING_SELF_TEST"
      /\ Goes("reset")
      /\ UNCHANGED <<nv, ob, image, target, active, power, agent, confirmed, tried, worn>>
  BY DEF ActivateNewImage, At, Runs, Goto, durable, history, TypeOK
<1>2. QED
  BY <1>1 DEF TypeOK, Contexts, PalStates

\* The events and the steps of the agent that leave the platform's state alone.
LEMMA AgentTrial ==
  ASSUME TypeOK, Sound, Trial,
         \/ \E byNotice \in BOOLEAN : EndTransfer(byNotice)
         \/ \E newer \in BOOLEAN : ReceiveSelfTestJob(newer)
         \/ StartSelfTest
         \/ StopTimer
  PROVE  Trial'
<1>1. /\ power = "on" /\ pc["ota"] \in {"idle", "stopTimer"}
      /\ agent' \in {"booting", "receiving"} => agent' = agent
      /\ pc'["ota"] = "setAborted" => agent = "receiving"
      /\ pc'["timer"] = pc["timer"]
      /\ pc'["ota"] \in {"idle", "setAborted", "setRejected", "commit"}
      /\ UNCHANGED <<nv, ob, image, palState, target, pending, active, power, confirmed, tried, worn>>
  BY DEF EndTransfer, ReceiveSelfTestJob, StartSelfTest, StopTimer, Receiving, Waiting,
     At, Runs, Call, Return, context, durable, history, TypeOK
<1>2. QED
  BY <1>1 DEF TypeOK, Contexts, PalStates

\* Accepting the image deletes the context file.
LEMMA CommitTrial ==
  ASSUME TypeOK, Sound, Trial, Commit
  PROVE  Trial'
<1>1. /\ power = "on" /\ pc["ota"] = "commit" /\ after["ota"] = "stopTimer"
      /\ UNCHANGED <<ob, image, palState, target, active, power, agent, tried, worn>>
  BY DEF Commit, At, Runs
<1>2. CASE /\ palState = "NEW_IMAGE_BOOTED" /\ DeleteNv(TRUE) /\ Goto("ota", "committed")
           /\ confirmed' = confirmed \cup {active}
  <2>1. Goes("committed") /\ nv'.state = "READY" /\ nv'.target = NoBank
    BY <1>1, <1>2 DEF DeleteNv, Goto, TypeOK
  <2>2. QED
    BY <1>1, <1>2, <2>1 DEF TypeOK, Contexts, PalStates
<1>3. CASE Return("ota") /\ UNCHANGED <<nv, confirmed>>
  <2>1. Returns
    BY <1>3 DEF Return, TypeOK
  <2>2. pc["timer"] \notin {"select", "selectOnly", "apply"}
    BY DEF Commit, At, Runs
  <2>3. QED
    BY <1>1, <1>3, <2>1, <2>2 DEF TypeOK, Contexts, PalStates
<1>4. QED
  BY <1>2, <1>3 DEF Commit, DeleteNv

\* Then the state changes.
LEMMA CommittedTrial ==
  ASSUME TypeOK, Sound, Trial, Committed
  PROVE  Trial'
<1>1. /\ power = "on" /\ pc["ota"] = "committed"
      /\ palState' = "ACCEPTED"
      /\ Returns /\ after["ota"] = "stopTimer"
      /\ UNCHANGED <<nv, ob, image, target, pending, active, power, agent, confirmed, tried, worn>>
  BY DEF Committed, At, Runs, Return, durable, history, TypeOK
<1>2. active \in confirmed
  BY <1>1
<1>3. QED
  BY <1>1, <1>2 DEF TypeOK, Contexts, PalStates

\* Rejection.
LEMMA RejectTrial ==
  ASSUME TypeOK, Sound, Trial, SetRejected
  PROVE  Trial'
<1>1. /\ power = "on" /\ pc["ota"] = "setRejected" /\ ob = active
      /\ pc["timer"] \notin {"select", "selectOnly", "apply"}
      /\ UNCHANGED <<nv, ob, image, target, active, agent, confirmed, tried, worn>>
  BY DEF SetRejected, At, Runs, durable, history
<1>2. CASE /\ palState \in {"PENDING_SELF_TEST", "NEW_IMAGE_BOOTED"}
           /\ palState' = "SELF_TEST_FAILED" /\ pending' = Other(target)
           /\ Goto("ota", "reset") /\ UNCHANGED power
  <2>1. Goes("reset") /\ palState = "NEW_IMAGE_BOOTED"
    BY <1>1, <1>2 DEF Goto, TypeOK
  <2>2. QED
    BY <1>1, <1>2, <2>1 DEF TypeOK, Contexts, PalStates
<1>3. CASE palState = "SELF_TEST_FAILED" /\ Halt /\ UNCHANGED palState
  <2>1. power' = "halted" /\ pc' = pc
    BY <1>3 DEF Halt
  <2>2. nv.state = "NEW_IMAGE_BOOTED" /\ pc["timer"] # "idle"
    BY <1>1, <1>3
  <2>3. QED
    BY <1>1, <1>3, <2>1, <2>2 DEF TypeOK, Contexts, PalStates
<1>4. CASE /\ palState \in {"PENDING_ACTIVATION", "FILE_OPEN"}
           /\ Discard("REJECTED") /\ UNCHANGED <<palState, power>>
  <2>1. Goes("erase")
    BY <1>1, <1>4 DEF Discard, Goto, TypeOK
  <2>2. QED
    BY <1>1, <1>4, <2>1 DEF TypeOK, Contexts, PalStates
<1>5. CASE /\ palState \in {"NEW_IMAGE_WDT_RESET", "REJECTED", "READY", "ACCEPTED"}
           /\ Return("ota") /\ UNCHANGED <<palState, power>>
  <2>1. Returns
    BY <1>1, <1>5 DEF Return, TypeOK
  <2>2. QED
    BY <1>1, <1>5, <2>1 DEF TypeOK, Contexts, PalStates
<1>6. palState = "SELF_TEST_FAILED" => active # Other(target)
  BY <1>1 DEF TypeOK, Contexts, PalStates
<1>7. QED
  <2> HIDE DEF Sound, Trial
  <2>1. QED
    BY <1>2, <1>3, <1>4, <1>5, <1>6 DEF SetRejected

\* Abortion.
LEMMA AbortTrial ==
  ASSUME TypeOK, Sound, Trial, SetAborted
  PROVE  Trial'
<1>1. /\ power = "on" /\ pc["ota"] = "setAborted" /\ ob = active
      /\ pc["timer"] \notin {"select", "selectOnly", "apply"}
      /\ UNCHANGED <<nv, ob, image, palState, target, active, agent, confirmed, tried, worn>>
  BY DEF SetAborted, At, Runs, durable, history
<1>2. palState \notin {"PENDING_SELF_TEST", "NEW_IMAGE_WDT_RESET"}
  BY <1>1
<1>3. CASE palState = "SELF_TEST_FAILED" /\ Halt
  <2>1. power' = "halted"
    BY <1>3 DEF Halt
  <2>2. nv.state = "NEW_IMAGE_BOOTED"
    BY <1>1, <1>3
  <2>3. QED
    BY <1>1, <2>1, <2>2 DEF TypeOK, Contexts, PalStates
<1>4. CASE Return("ota") /\ UNCHANGED power /\ palState # "SELF_TEST_FAILED"
  <2>1. Returns
    BY <1>1, <1>4 DEF Return, TypeOK
  <2>2. QED
    BY <1>1, <1>2, <1>4, <2>1 DEF TypeOK, Contexts, PalStates
<1>5. CASE palState \in {"FILE_OPEN", "PENDING_ACTIVATION"} /\ Discard("READY") /\ UNCHANGED power
  <2>1. Goes("erase")
    BY <1>1, <1>5 DEF Discard, Goto, TypeOK
  <2>2. QED
    BY <1>1, <1>5, <2>1 DEF TypeOK, Contexts, PalStates
<1>6. /\ palState = "SELF_TEST_FAILED" => active # Other(target)
      /\ palState \in {"FILE_OPEN", "PENDING_ACTIVATION"} => active = Other(target)
  BY <1>1 DEF TypeOK, Contexts, PalStates
<1>7. QED
  <2> HIDE DEF Sound, Trial
  <2>1. QED
    BY <1>2, <1>3, <1>4, <1>5, <1>6 DEF SetAborted

\* Erasing the target.
LEMMA EraseTrial ==
  ASSUME OnlyDeletes, TypeOK, Sound, Trial, EraseImage
  PROVE  Trial'
<1>1. EraseBank(target, TRUE) /\ Goto("ota", "discard")
  <2>1. Succeeds("erase") = {TRUE}
    BY Sure
  <2>2. QED
    BY <2>1 DEF EraseImage
<1>2. /\ power = "on" /\ pc["ota"] = "erase" /\ Goes("discard") /\ target = Other(active)
      /\ \A b \in Banks \ {target} : image'[b] = image[b]
      /\ confirmed' = confirmed \ {target} /\ tried' = tried \ {target} /\ ~worn'
      /\ UNCHANGED <<nv, ob, palState, target, pending, active, power, agent>>
  BY <1>1 DEF EraseImage, EraseBank, Goto, At, Runs, context, TypeOK
<1>3. active \in confirmed /\ palState \in {"FILE_OPEN", "PENDING_ACTIVATION"} /\ pc["timer"] = "idle"
  BY <1>2 DEF TypeOK, Contexts, PalStates
<1>4. nv.target # active
  BY <1>2, <1>3
<1>5. QED
  BY <1>2, <1>3, <1>4 DEF TypeOK, Contexts, PalStates

\* Deleting its context.
LEMMA DiscardTrial ==
  ASSUME TypeOK, Sound, Trial, DiscardContext
  PROVE  Trial'
<1>1. /\ power = "on" /\ pc["ota"] = "discard" /\ target = Other(active)
      /\ nv' = nv \/ (nv'.state = "READY" /\ nv'.target = NoBank)
      /\ Returns
      /\ palState' \in {palState, "READY", "REJECTED"}
      /\ UNCHANGED <<ob, image, target, pending, active, power, agent, confirmed, tried, worn>>
  BY DEF DiscardContext, DeleteNv, Return, At, Runs, history, TypeOK
<1>2. active \in confirmed /\ palState \in {"FILE_OPEN", "PENDING_ACTIVATION"} /\ pc["timer"] = "idle"
  BY <1>1 DEF TypeOK, Contexts, PalStates
<1>3. QED
  BY <1>1, <1>2 DEF TypeOK, Contexts, PalStates

\* The self-test timer expires.
LEMMA TimerTrial ==
  ASSUME TypeOK, Sound, Trial, TimerExpires
  PROVE  Trial'
<1>1. /\ power = "on" /\ pc["timer"] = "idle"
      /\ pc'["timer"] = "reset" /\ pc'["ota"] = pc["ota"]
      /\ UNCHANGED <<nv, ob, image, palState, target, pending, active, power, agent, confirmed, tried, worn>>
  BY DEF TimerExpires, At, Runs, Goto, context, durable, history, TypeOK
<1>2. QED
  BY <1>1 DEF TypeOK, Contexts, PalStates

\* A reset leaves a context that fits the bank that boots.
LEMMA PowerTrial ==
  ASSUME OnlyDeletes, TypeOK, Sound, Trial, PowerCycle \/ (\E t \in Tasks : Apply(t))
  PROVE  Trial'
<1>1. /\ power' = "off" /\ UNCHANGED <<nv, ob, image, active, confirmed, tried, worn>>
  BY DEF PowerCycle, Apply, PowerOff, durable, history
<1>2. CASE PowerCycle
  <2>1. power = "halted" \/ (power = "on" /\ pc["ota"] = "idle" /\ pc["timer"] = "idle")
    BY <1>2 DEF PowerCycle, OnlyDeletes
  <2>2. QED
    BY <1>1, <2>1 DEF TypeOK, Contexts, PalStates
<1>3. ASSUME NEW t \in Tasks, Apply(t) PROVE Trial'
  <2>1. power = "on" /\ pc[t] = "apply"
    BY <1>3 DEF Apply, At, Runs
  <2>2. QED
    BY <1>1, <2>1 DEF TypeOK, Contexts, PalStates
<1>4. QED
  BY <1>2, <1>3

\* The reset of the device, which both tasks call.
LEMMA ResetTrial ==
  ASSUME TypeOK, Sound, Trial, NEW t \in Tasks, Reset(t)
  PROVE  Trial'
<1>1. /\ power = "on" /\ pc[t] = "reset" /\ Started
      /\ UNCHANGED <<nv, ob, image, target, active, agent, confirmed, tried, worn>>
  BY DEF Reset, At, Runs, durable, history
<1> DEFINE u == IF t = "ota" THEN "timer" ELSE "ota"
           goes(s) == pc'[t] = s /\ pc'[u] = pc[u] /\ power' = power
<1>2. ASSUME NEW s \in PCs, Goto(t, s), UNCHANGED power PROVE goes(s)
  BY <1>2 DEF Goto, TypeOK
<1>3. CASE /\ palState = "NEW_IMAGE_BOOTED" /\ palState' = "SELF_TEST_FAILED"
           /\ Goto(t, "resetSave") /\ UNCHANGED <<pending, power>>
  <2>1. goes("resetSave")
    BY <1>2, <1>3 DEF PCs
  <2>2. QED
    BY <1>1, <1>3, <2>1 DEF TypeOK, Contexts, PalStates
<1>4. CASE /\ palState = "PENDING_SELF_TEST" /\ palState' = palState
           /\ pending' = target /\ Goto(t, "resetSave") /\ UNCHANGED power
  <2>1. goes("resetSave") /\ t = "ota"
    BY <1>1, <1>2, <1>4 DEF PCs
  <2>2. QED
    BY <1>1, <1>4, <2>1 DEF TypeOK, Contexts, PalStates
<1>5. CASE /\ palState = "SELF_TEST_FAILED" /\ pending' = Other(target)
           /\ Goto(t, "resetDelete") /\ UNCHANGED <<palState, power>>
  <2>1. goes("resetDelete")
    BY <1>2, <1>5 DEF PCs
  <2>2. QED
    BY <1>1, <1>5, <2>1 DEF TypeOK, Contexts, PalStates
<1>6. CASE /\ palState = "NEW_IMAGE_WDT_RESET"
           /\ Goto(t, "select") /\ UNCHANGED <<palState, pending, power>>
  <2>1. goes("select")
    BY <1>2, <1>6 DEF PCs
  <2>2. QED
    BY <1>1, <1>6, <2>1 DEF TypeOK, Contexts, PalStates
<1>7. CASE /\ palState \in {"READY", "FILE_OPEN", "PENDING_ACTIVATION", "ACCEPTED", "REJECTED"}
           /\ pending' = Other(target)
           /\ Goto(t, "select") /\ UNCHANGED <<palState, power>>
  <2>1. goes("select")
    BY <1>2, <1>7 DEF PCs
  <2>2. QED
    BY <1>1, <1>7, <2>1 DEF TypeOK, Contexts, PalStates
<1>8. palState = "PENDING_SELF_TEST" => active = Other(target)
  BY <1>1 DEF TypeOK, Contexts, PalStates
<1>9. QED
  <2> HIDE DEF Sound, Trial
  <2>1. QED
    BY <1>3, <1>4, <1>5, <1>6, <1>7, <1>8 DEF Reset

\* Writing the context before the reset.
LEMMA ResetSaveTrial ==
  ASSUME OnlyDeletes, TypeOK, Sound, Trial, NEW t \in Tasks, ResetSave(t)
  PROVE  Trial'
<1> DEFINE u == IF t = "ota" THEN "timer" ELSE "ota"
<1>1. Succeeds("write") = {TRUE}
  BY Sure
<1>2. /\ power = "on" /\ pc[t] = "resetSave"
      /\ nv' = copy[t]
      /\ pending' = IF copy[t].state = "SELF_TEST_FAILED" THEN Other(target) ELSE pending
      /\ UNCHANGED <<ob, image, palState, target, active, power, agent, confirmed, tried, worn>>
  BY <1>1 DEF ResetSave, WriteNv, At, Runs, history
<1>3. pc'[t] = "select" /\ pc'[u] = pc[u]
  BY <1>1 DEF ResetSave, WriteNv, Goto, TypeOK
<1>4. /\ nv'.target = target /\ nv'.state \in {"SELF_TEST_FAILED", "PENDING_SELF_TEST"}
      /\ nv'.state = "PENDING_SELF_TEST" => t = "ota" /\ palState = "PENDING_SELF_TEST" /\ pending = target
      /\ nv'.state = "SELF_TEST_FAILED" => palState \in {"SELF_TEST_FAILED", "ACCEPTED"}
  BY <1>2
<1>5. QED
  BY <1>2, <1>3, <1>4 DEF TypeOK, Contexts, PalStates

\* Deleting the context before the reset.
LEMMA ResetDeleteTrial ==
  ASSUME TypeOK, Sound, Trial, NEW t \in Tasks, ResetDelete(t)
  PROVE  Trial'
<1> DEFINE u == IF t = "ota" THEN "timer" ELSE "ota"
<1>1. /\ power = "on" /\ pc[t] = "resetDelete"
      /\ nv' = nv \/ (nv'.state = "READY" /\ nv'.target = NoBank)
      /\ UNCHANGED <<ob, image, palState, target, pending, active, power, agent, confirmed, tried, worn>>
  BY DEF ResetDelete, DeleteNv, At, Runs, context, history
<1>2. pc'[t] \in {"select", "selectOnly"} /\ pc'[u] = pc[u]
  BY DEF ResetDelete, Goto, TypeOK
<1>3. palState \in {"SELF_TEST_FAILED", "ACCEPTED"} /\ target = active
  BY <1>1
<1>4. QED
  BY <1>1, <1>2, <1>3 DEF TypeOK, Contexts, PalStates

\* Selecting the bank.
LEMMA SelectTrial ==
  ASSUME OnlyDeletes, TypeOK, Sound, Trial, NEW t \in Tasks, SelectBank(t)
  PROVE  Trial'
<1> DEFINE u == IF t = "ota" THEN "timer" ELSE "ota"
<1>1. Succeeds("select") = {TRUE}
  BY Sure
<1>2. /\ power = "on" /\ pc[t] \in {"select", "selectOnly"} /\ pending = NextBank
      /\ UNCHANGED <<nv, image, palState, target, pending, active, power, agent, confirmed, tried>>
  BY DEF SelectBank, At, Runs, context
<1>3. pc[t] = "selectOnly" => pending \in Banks \ {active}
  BY <1>2 DEF TypeOK
<1>4. ~worn' /\ Goto(t, "apply") /\ ob' = IF pending \in Banks \ {active} THEN pending ELSE ob
  BY <1>1, <1>2, <1>3 DEF SelectBank
<1>5. pc'[t] = "apply" /\ pc'[u] = pc[u]
  BY <1>4 DEF Goto, TypeOK
<1>6. QED
  BY <1>2, <1>3, <1>4, <1>5 DEF TypeOK, Contexts, PalStates

\* Initially the image that boots is accepted.
LEMMA TrialInit == Init => Trial
  BY DEF Init

HIDE DEF Started, GoodBank, Early, Changing, Resetting, Plain, BootInv, AgentInv, SwitchInv, FileInv,
         TargetInv, StepInv, ImageInv, TimerInv, SaveInv, CopyInv, ReturnInv, Sound, NoContext,
         Goes, Calls, Returns, Trusted, RestInv, TrustInv, FreshInv, Switching, ContextInv, AbortInv, NextBank,
         ResetInv, OnlyRaceHalts, Trial

\* Every step keeps Trial.
LEMMA TrialNext ==
  ASSUME OnlyDeletes, TypeOK, Sound, Trial, [Next]_vars
  PROVE  Trial'
<1>1. CASE BootStep
  BY <1>1, BootTrial, EarlyInitTrial, EarlySaveTrial, EarlyDeleteTrial, EarlyEraseTrial,
     StartAgentTrial DEF BootStep
<1>2. CASE \E t \in Tasks : ResetStep(t)
  BY <1>2, ResetTrial, ResetSaveTrial, ResetDeleteTrial, SelectTrial, PowerTrial DEF ResetStep
<1>3. CASE OtaStep
  BY <1>2, <1>3, CreateTrial, CreateDeleteTrial, CloseTrial, ActivateTrial, AgentTrial, CommitTrial,
     CommittedTrial, RejectTrial, AbortTrial, EraseTrial, DiscardTrial DEF OtaStep
<1>4. CASE Event
  BY <1>4, UpdateJobTrial, WriteTrial, AgentTrial DEF Event
<1>5. CASE TimerExpires
  BY <1>5, TimerTrial
<1>6. CASE PowerCycle
  BY <1>6, PowerTrial
<1>7. CASE UNCHANGED vars
  BY <1>7 DEF vars, durable, context, control, history, Started, Resetting, Trusted, RestInv, TrustInv,
     FreshInv, Switching, ContextInv, AbortInv, NextBank, ResetInv, OnlyRaceHalts, Trial
<1>8. QED
  BY <1>1, <1>2, <1>3, <1>4, <1>5, <1>6, <1>7 DEF Next

SafeInv == TypeOK /\ Sound /\ Trial

\* The invariant holds in every reachable state.
LEMMA SafeHolds == ASSUME OnlyDeletes PROVE Spec => []SafeInv
<1>1. Init => SafeInv
  BY SoundInit, TrialInit DEF SafeInv
<1>2. SafeInv /\ [Next]_vars => SafeInv'
  <2> SUFFICES ASSUME SafeInv, [Next]_vars PROVE SafeInv'
    OBVIOUS
  <2>1. TypeOK' /\ Trial'
    BY TypeNext, TrialNext DEF SafeInv
  <2>2. ~worn'
    BY <2>1 DEF Trial
  <2>3. Sound'
    BY <2>2, SoundNext, SoundStutters DEF SafeInv
  <2>4. QED
    BY <2>1, <2>3 DEF SafeInv
<1>3. QED
  BY <1>1, <1>2, PTL DEF Spec

\* An image that was not accepted runs as a trial only, which a reset ends by
\* the context: no deletion that fails, whatever the two tasks do and whenever
\* the device is reset between two operations, hides the trial.
THEOREM TrialsAreSupervised ==
  ASSUME OnlyDeletes PROVE Spec => []TrialIsSupervised
<1>1. SafeInv => TrialIsSupervised
  <2> SUFFICES ASSUME SafeInv, Running, active \notin confirmed
               PROVE  palState \in {"NEW_IMAGE_BOOTED", "SELF_TEST_FAILED"}
    BY DEF TrialIsSupervised
  <2>1. Started
    BY DEF SafeInv, Sound, BootInv, Early, Running, Started
  <2>2. QED
    BY <2>1 DEF SafeInv, Trial, TrustInv, ContextInv, Running
<1>2. QED
  BY <1>1, SafeHolds, PTL

\* A new image that was reset before it was accepted is not run again: its
\* second boot goes back to the other bank before the application starts.
THEOREM TrialsRunOnce ==
  ASSUME OnlyDeletes PROVE Spec => TrialRunsOnce
<1>1. SafeInv /\ [Next]_vars =>
        [agent = "booting" /\ agent' = "waiting" => active \in confirmed \/ active \notin tried]_vars
  <2> SUFFICES ASSUME SafeInv, Next, agent = "booting", agent' = "waiting"
               PROVE  active \in confirmed \/ active \notin tried
    OBVIOUS
  <2>1. StartAgent
    <3> USE DEF control
    <3>1. ~Boot /\ ~EarlyInit /\ ~EarlySave /\ ~EarlyDelete /\ ~EarlyErase
      BY DEF Boot, EarlyInit, EarlySave, EarlyDelete, EarlyErase
    <3>2. ~PowerOff /\ ~TimerExpires
      BY DEF PowerOff, TimerExpires
    <3>3. \A t \in Tasks : ~ResetStep(t)
      BY <3>2 DEF ResetStep, Reset, ResetSave, ResetDelete, SelectBank, Apply
    <3>4. ~OtaStep
      BY <3>3 DEF OtaStep, CreateFile, CreateFileDelete, CloseFile, ActivateNewImage, StartSelfTest,
         StopTimer, Commit, Committed, SetRejected, SetAborted, EraseImage, DiscardContext
    <3>5. ~Event
      BY DEF Event, ReceiveUpdateJob, WriteBlock, EndTransfer, ReceiveSelfTestJob, Waiting, Receiving
    <3>6. QED
      BY <3>1, <3>2, <3>3, <3>4, <3>5 DEF Next, BootStep, PowerCycle
  <2>2. Started /\ pc["ota"] = "idle"
    BY <2>1 DEF StartAgent, At, Runs, Started
  <2>3. CASE active \notin confirmed
    <3>1. palState = "NEW_IMAGE_BOOTED"
      BY <2>2, <2>3 DEF SafeInv, Trial, TrustInv, Sound, BootInv, StepInv
    <3>2. QED
      BY <2>2, <3>1 DEF SafeInv, Trial, FreshInv
  <2>4. QED
    BY <2>3
<1>2. QED
  BY <1>1, SafeHolds, PTL DEF Spec, TrialRunsOnce

\* The assertions of otaPal_* that compare the target with the bank that runs
\* hold, except in that race of the OTA task with the self-test timer.
THEOREM AssertionsFailInRaceOnly ==
  ASSUME OnlyDeletes PROVE Spec => []OnlyRaceHalts
<1>1. SafeInv => OnlyRaceHalts
  BY DEF SafeInv, Trial
<1>2. QED
  BY <1>1, SafeHolds, PTL

\* A pending self-test starts on its target bank, as the assertion of
\* otaPal_EarlyInit says; power lost inside otaPal_ResetDevice, or a write or
\* a selection that fails there, ends this.
THEOREM SelfTestsBootTarget ==
  ASSUME OnlyDeletes PROVE Spec => []SelfTestBootsTarget
<1>1. SafeInv => SelfTestBootsTarget
  BY DEF SafeInv, Sound, BootInv, Trial, RestInv, Started, SelfTestBootsTarget
<1>2. QED
  BY <1>1, SafeHolds, PTL

-----------------------------------------------------------------------------
(* OtaPal implements ABUpdate, under the same hypothesis.                  *)

\* Changing what the other bank holds is an Overwrite while the image that
\* boots is an accepted one.
LEMMA Overwrites ==
  ASSUME TypeOK, ob \in confirmed, NEW c \in Contents, ob' = ob,
         image' = [image EXCEPT ![Other(ob)] = c], confirmed' = confirmed \ {Other(ob)}
  PROVE  AB!Overwrite
<1>1. AB!Other(ob) = Other(ob) /\ c \in AB!Contents
  BY DEF TypeOK, AB!Other, AB!Contents, Contents
<1>2. QED
  BY <1>1 DEF AB!Overwrite

\* The steps that erase a bank or write to it.
LEMMA EraseRefines ==
  ASSUME SafeInv, NEW b \in {target, Other(active)}, EraseBank(b, TRUE),
         power = "on", UNCHANGED ob,
         \/ pc["ota"] = "create" /\ b = Other(active) /\ palState \in {"ACCEPTED", "REJECTED", "READY"}
         \/ pc["ota"] \in {"erase", "earlyErase"} /\ b = target
  PROVE  AB!Overwrite
<1> USE DEF SafeInv, Sound, Trial, Started
<1>1. ob = active
  BY DEF SwitchInv, TimerInv, BootInv, StepInv, Early
<1>2. active \in confirmed
  BY DEF TrustInv, StepInv
<1>3. b = Other(active)
  BY DEF TargetInv
<1>4. PICK c \in Contents : image' = [image EXCEPT ![b] = c]
  BY DEF EraseBank, Contents
<1>5. QED
  BY <1>1, <1>2, <1>3, <1>4, Overwrites DEF EraseBank

\* Selecting the other bank is a first boot of a new image, or goes back to
\* an accepted one.
LEMMA SelectRefines ==
  ASSUME OnlyDeletes, SafeInv, NEW t \in Tasks, SelectBank(t)
  PROVE  [AB!Next]_(AB!vars)
<1> USE DEF SafeInv, Sound, Trial, Started
<1>1. Succeeds("select") = {TRUE}
  BY Sure
<1>2. /\ power = "on" /\ pc[t] \in {"select", "selectOnly"}
      /\ UNCHANGED <<image, confirmed>>
      /\ ob' = ob \/ (pending \in Banks \ {active} /\ ob' = pending)
  BY <1>1 DEF SelectBank, At, Runs
<1>3. CASE ob' = ob
  BY <1>2, <1>3 DEF AB!vars
<1>4. CASE ob' # ob
  <2>1. ob = active /\ ob' = pending /\ pending = Other(active) /\ AB!Other(ob) = pending
    BY <1>2, <1>4 DEF TypeOK, AB!Other
  <2>2. pc["ota"] # "earlyInit" /\ pc["ota"] # "createDelete"
    BY <1>2 DEF TimerInv, BootInv, Early, StepInv
  <2>3. CASE active \in confirmed
    <3>1. image[pending] = "authentic"
      <4>1. SaveInv(t) /\ pending \in Banks \ {active}
        BY <1>2, <2>1 DEF CopyInv, TypeOK
      <4>2. QED
        BY <1>2, <4>1 DEF SaveInv, GoodBank
    <3>2. AB!Try
      BY <1>2, <2>1, <2>3, <3>1 DEF AB!Try
    <3>3. QED
      BY <3>2 DEF AB!Next
  <2>4. CASE active \notin confirmed
    <3>1. Other(active) \in confirmed
      BY <1>2, <2>2, <2>4 DEF TrustInv, Trusted, TypeOK
    <3>2. AB!Revert
      BY <1>2, <2>1, <3>1 DEF AB!Revert
    <3>3. QED
      BY <3>2 DEF AB!Next
  <2>5. QED
    BY <2>3, <2>4
<1>5. QED
  BY <1>3, <1>4

\* Every step is one of ABUpdate, or changes none of its variables.
LEMMA StepRefines ==
  ASSUME OnlyDeletes, SafeInv, [Next]_vars
  PROVE  [AB!Next]_(AB!vars)
<1> DEFINE Keeps == UNCHANGED <<ob, image, confirmed>>
<1> USE DEF durable, history
<1>1. Keeps => [AB!Next]_(AB!vars)
  BY DEF AB!vars
<1>2. AB!Overwrite => [AB!Next]_(AB!vars)
  BY DEF AB!Next
<1>3. Succeeds("erase") = {TRUE}
  BY Sure
<1>4. CASE BootStep
  <2>1. CASE EarlyErase
    <3>1. EraseBank(target, TRUE) /\ power = "on" /\ pc["ota"] = "earlyErase" /\ UNCHANGED ob
      BY <1>3, <2>1 DEF EarlyErase, At, Runs
    <3>2. QED
      BY <1>2, <3>1, EraseRefines
  <2>2. CASE ~EarlyErase
    BY <1>1, <1>4, <2>2 DEF BootStep, Boot, EarlyInit, EarlySave, EarlyDelete, StartAgent
  <2>3. QED
    BY <2>1, <2>2
<1>5. CASE \E t \in Tasks : ResetStep(t)
  <2>1. PICK t \in Tasks : ResetStep(t)
    BY <1>5
  <2>2. CASE SelectBank(t)
    BY <2>2, SelectRefines
  <2>3. CASE ~SelectBank(t)
    BY <1>1, <2>1, <2>3 DEF ResetStep, Reset, ResetSave, ResetDelete, Apply, PowerOff
  <2>4. QED
    BY <2>2, <2>3
<1>6. ASSUME NEW acceptable \in BOOLEAN, CreateFile(acceptable) PROVE [AB!Next]_(AB!vars)
  <2>1. CASE UNCHANGED <<image, history>>
    BY <1>1, <1>6, <2>1 DEF CreateFile
  <2>2. CASE /\ palState \in {"ACCEPTED", "REJECTED", "READY"} /\ EraseBank(Other(active), TRUE)
             /\ power = "on" /\ pc["ota"] = "create" /\ UNCHANGED ob
    BY <1>2, <2>2, EraseRefines
  <2>3. QED
    BY <1>3, <1>6, <2>1, <2>2 DEF CreateFile, At, Runs
<1>7. CASE EraseImage
  <2>1. EraseBank(target, TRUE) /\ power = "on" /\ pc["ota"] = "erase" /\ UNCHANGED ob
    BY <1>3, <1>7 DEF EraseImage, At, Runs
  <2>2. QED
    BY <1>2, <2>1, EraseRefines
<1>8. CASE Commit
  <2>1. CASE Keeps
    BY <1>1, <2>1
  <2>2. CASE ~Keeps
    <3>1. UNCHANGED <<ob, image>> /\ confirmed' = confirmed \cup {active}
      BY <1>8, <2>2 DEF Commit
    <3>2. power = "on" /\ pc["ota"] = "commit" /\ pc["timer"] # "apply"
      BY <1>8 DEF Commit, At, Runs
    <3>3. ob = active
      BY <3>2 DEF SafeInv, Sound, SwitchInv
    <3>4. AB!Accept
      BY <3>1, <3>3 DEF AB!Accept
    <3>5. QED
      BY <3>4 DEF AB!Next
  <2>3. QED
    BY <2>1, <2>2
<1>9. CASE OtaStep
  BY <1>1, <1>5, <1>6, <1>7, <1>8, <1>9 DEF OtaStep, CreateFileDelete, CloseFile, ActivateNewImage,
     StartSelfTest, StopTimer, Committed, SetRejected, SetAborted, DiscardContext
<1>10. ASSUME NEW last \in BOOLEAN, WriteBlock(last) PROVE [AB!Next]_(AB!vars)
  <2> USE DEF SafeInv, Sound, Trial, Started
  <2>1. /\ power = "on" /\ pc["ota"] = "idle" /\ pc["timer"] = "idle" /\ palState = "FILE_OPEN"
        /\ UNCHANGED <<ob, confirmed>>
    BY <1>10 DEF WriteBlock, Receiving, Undisturbed, At, Runs
  <2>2. ob = active /\ target = Other(active) /\ Other(active) \notin confirmed
    BY <2>1 DEF SwitchInv, TargetInv, FreshInv
  <2>3. ob \in confirmed
    BY <2>1, <2>2 DEF TrustInv
  <2>4. PICK c \in Contents : image' = [image EXCEPT ![target] = c]
    BY <1>10 DEF WriteBlock, Contents
  <2>5. confirmed' = confirmed \ {Other(ob)}
    BY <2>1, <2>2
  <2>6. QED
    BY <1>2, <2>1, <2>2, <2>3, <2>4, <2>5, Overwrites
<1>11. CASE Event
  BY <1>1, <1>10, <1>11 DEF Event, ReceiveUpdateJob, EndTransfer, ReceiveSelfTestJob
<1>12. CASE TimerExpires \/ PowerCycle \/ UNCHANGED vars
  BY <1>1, <1>12 DEF TimerExpires, PowerCycle, PowerOff, vars
<1>13. QED
  BY <1>4, <1>5, <1>9, <1>11, <1>12 DEF Next

\* What otaPal_* does to the banks, the option byte and the accepted images
\* is an update over two banks, with every interleaving of the two tasks and
\* a reset between any two operations.
THEOREM ImplementsUpdate ==
  ASSUME OnlyDeletes PROVE Spec => ImplementsABUpdate
<1>1. Init => AB!Init
  BY DEF Init, AB!Init, AB!Banks, AB!Contents
<1>2. SafeInv /\ [Next]_vars => [AB!Next]_(AB!vars)
  BY StepRefines
<1>3. QED
  BY <1>1, <1>2, SafeHolds, PTL DEF Spec, ImplementsABUpdate, AB!Spec

\* The abstract update keeps an authentic image to boot and an accepted one
\* to return to.
LEMMA UpdateRecoverable == AB!Spec => [](AB!TypeOK /\ AB!Recoverable)
<1> USE DEF AB!TypeOK, AB!Recoverable, AB!Banks, AB!Contents, AB!Other
<1>1. AB!Init => AB!TypeOK /\ AB!Recoverable
  BY DEF AB!Init
<1>2. AB!TypeOK /\ AB!Recoverable /\ [AB!Next]_(AB!vars) => (AB!TypeOK /\ AB!Recoverable)'
  <2> SUFFICES ASSUME AB!TypeOK, AB!Recoverable, [AB!Next]_(AB!vars)
               PROVE  (AB!TypeOK /\ AB!Recoverable)'
    OBVIOUS
  <2>1. CASE AB!Overwrite
    BY <2>1 DEF AB!Overwrite
  <2>2. CASE AB!Try
    BY <2>2 DEF AB!Try
  <2>3. CASE AB!Accept
    BY <2>3 DEF AB!Accept
  <2>4. CASE AB!Revert
    BY <2>4 DEF AB!Revert
  <2>5. CASE UNCHANGED AB!vars
    BY <2>5 DEF AB!vars
  <2>6. QED
    BY <2>1, <2>2, <2>3, <2>4, <2>5 DEF AB!Next
<1>3. QED
  BY <1>1, <1>2, PTL DEF AB!Spec

\* So does the platform layer that implements it: the bank that boots and
\* every accepted bank hold an authentic image, and during a trial there is
\* an accepted image to return to.
THEOREM AcceptedImageRemains ==
  ASSUME OnlyDeletes PROVE Spec => []Recoverable
<1>1. Spec => AB!Spec
  BY ImplementsUpdate DEF ImplementsABUpdate
<1>2. AB!Recoverable => Recoverable
  BY DEF Recoverable
<1>3. QED
  BY <1>1, <1>2, UpdateRecoverable, PTL
=============================================================================
