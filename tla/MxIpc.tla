--------------------------------- MODULE MxIpc ---------------------------------
(***************************************************************************)
(* The link to the Wi-Fi module: the tasks that make a request with        *)
(* xSendIPCRequest (mx_ipc.c), the data-plane thread that exchanges one     *)
(* packet each way in an SPI transaction (mx_dataplane.c), the router task *)
(* that gives each answer to the request it belongs to, and the TCP/IP     *)
(* task that sends Ethernet frames (mx_lwip.c).                            *)
(*                                                                         *)
(* A packet is the identifier of the request it carries or answers, Event  *)
(* for a notification of the module, or Frame for the bypassed Ethernet    *)
(* frames and their acknowledgments.  A section under xContextArrayMutex   *)
(* is one step: nobody blocks inside one.                                  *)
(***************************************************************************)
EXTENDS Integers, FiniteSets, Sequences

CONSTANTS
  Tasks,           \* the tasks that call mx_*; here the network task only
  NoTask,          \* a NULL xWaitingTask
  Contexts,        \* the NUM_IPC_REQUEST_CTX entries of xIPCRequestCtxArray
  RequestIds,      \* identifiers that prvGetNextRequestID returns
  CtrlQueueLen,    \* CONTROL_PLANE_QUEUE_LEN
  DataQueueLen,    \* DATA_PLANE_QUEUE_LEN
  RespBufferLen,   \* messages that xControlPlaneResponseBuff holds
  ModuleQueueLen,  \* bound: packets the module has ready to send
  MaxWaiting,      \* bound: ulTxPacketsWaiting from which no send fails
  Faults           \* what may go wrong on the SPI: see AllFaults

AllFaults == {"flow", "header", "garbled", "transfer"}

ASSUME TasksAssumption == NoTask \notin Tasks /\ IsFiniteSet(Contexts)
                          /\ IsFiniteSet(Tasks) /\ Cardinality(Tasks) <= Cardinality(Contexts)
ASSUME IdsAssumption == RequestIds \subseteq Nat \ {0}
ASSUME LengthsAssumption == {CtrlQueueLen, DataQueueLen, RespBufferLen, ModuleQueueLen} \subseteq Nat \ {0}
ASSUME BoundAssumption == MaxWaiting \in Nat /\ Faults \subseteq AllFaults

NoPacket == -2
Frame    == -1
Event    == 0
Packets  == RequestIds \cup {Event, Frame}

VARIABLES
  \* the callers of xSendIPCRequest
  pc,            \* where each caller is
  pxRequestCtx,  \* the context it uses
  xReturnValue,  \* what its last wait gave
  notified,      \* a notification is pending on its index 0
  \* the request contexts
  ulRequestID, pxRxPbuf, xWaitingTask,
  tokens,        \* the count of xContextCountSemaphore
  \* the queues to the data plane, and the count of packets in them
  ctrlQueue, dataQueue, ulTxPacketsWaiting,
  framePc,       \* where the TCP/IP task is in prvxLinkOutput
  countLost,     \* history: a reset of the count has taken that of a queued frame
  \* the data-plane thread
  dpc,           \* where it is
  source,        \* the queue it looked into
  lengths,       \* the headers exchanged were valid
  pxTxBuff, pxRxBuff,
  respBuffer,    \* xControlPlaneResponseBuff
  \* the module
  received,      \* requests it has got and not answered
  outgoing       \* packets it has ready to send

callerVars  == <<pc, pxRequestCtx, xReturnValue, notified>>
contextVars == <<ulRequestID, pxRxPbuf, xWaitingTask, tokens>>
queueVars   == <<ctrlQueue, dataQueue, ulTxPacketsWaiting, framePc, countLost>>
spiVars     == <<dpc, source, lengths, pxTxBuff, pxRxBuff>>
moduleVars  == <<received, outgoing>>
vars == <<callerVars, contextVars, queueVars, spiVars, respBuffer, moduleVars>>

Elems(s) == {s[i] : i \in DOMAIN s}

Init ==
  /\ pc = [t \in Tasks |-> "idle"]
  /\ pxRequestCtx \in [Tasks -> Contexts]
  /\ xReturnValue = [t \in Tasks |-> "none"]
  /\ notified = [t \in Tasks |-> FALSE]
  /\ ulRequestID = [c \in Contexts |-> 0]
  /\ pxRxPbuf = [c \in Contexts |-> NoPacket]
  /\ xWaitingTask = [c \in Contexts |-> NoTask]
  /\ tokens = Cardinality(Contexts)
  /\ ctrlQueue = <<>> /\ dataQueue = 0 /\ ulTxPacketsWaiting = 0
  /\ framePc = "idle" /\ countLost = FALSE
  /\ dpc = "wait" /\ source = "none" /\ lengths = FALSE
  /\ pxTxBuff = NoPacket /\ pxRxBuff = NoPacket
  /\ respBuffer = <<>>
  /\ received = {} /\ outgoing = <<>>

-----------------------------------------------------------------------------
(* Requests: xSendIPCRequest.                                              *)

\* The identifiers that something still refers to.  The counter has 32 bits:
\* it does not come round to one of these while a packet is under way.
InFlight ==
  {ulRequestID[c] : c \in Contexts} \cup Elems(ctrlQueue) \cup {pxTxBuff, pxRxBuff}
  \cup received \cup Elems(outgoing) \cup Elems(respBuffer)
NextRequestIDs == RequestIds \ InFlight

\* pxFindAvailableCtx asserts that it gets a token in time.
TakeToken(t) ==
  /\ pc[t] = "idle" /\ tokens > 0
  /\ pc' = [pc EXCEPT ![t] = "find"]
  /\ xReturnValue' = [xReturnValue EXCEPT ![t] = "none"]
  /\ tokens' = tokens - 1
  /\ UNCHANGED <<pxRequestCtx, notified, ulRequestID, pxRxPbuf, xWaitingTask, queueVars, spiVars,
                 respBuffer, moduleVars>>

FindAvailableCtx(t) ==
  /\ pc[t] = "find"
  /\ \E c \in Contexts, id \in NextRequestIDs :
       /\ ulRequestID[c] = 0
       /\ \A i \in NextRequestIDs : id <= i
       /\ ulRequestID' = [ulRequestID EXCEPT ![c] = id]
       /\ pxRxPbuf' = [pxRxPbuf EXCEPT ![c] = NoPacket]
       /\ xWaitingTask' = [xWaitingTask EXCEPT ![c] = NoTask]
       /\ pxRequestCtx' = [pxRequestCtx EXCEPT ![t] = c]
  /\ pc' = [pc EXCEPT ![t] = "send"]
  /\ UNCHANGED <<xReturnValue, notified, tokens, queueVars, spiVars, respBuffer, moduleVars>>

SendToDataplane(t) ==
  /\ pc[t] = "send" /\ Len(ctrlQueue) < CtrlQueueLen
  /\ xWaitingTask' = [xWaitingTask EXCEPT ![pxRequestCtx[t]] = t]
  /\ ctrlQueue' = Append(ctrlQueue, ulRequestID[pxRequestCtx[t]])
  /\ pc' = [pc EXCEPT ![t] = "count"]
  /\ UNCHANGED <<pxRequestCtx, xReturnValue, notified, ulRequestID, pxRxPbuf, tokens,
                 dataQueue, ulTxPacketsWaiting, framePc, countLost, spiVars, respBuffer, moduleVars>>

\* The queue stayed full until the timeout: the packet is counted all the same.
SendFails(t) ==
  /\ pc[t] = "send" /\ Len(ctrlQueue) = CtrlQueueLen /\ ulTxPacketsWaiting < MaxWaiting
  /\ xWaitingTask' = [xWaitingTask EXCEPT ![pxRequestCtx[t]] = t]
  /\ ulTxPacketsWaiting' = ulTxPacketsWaiting + 1
  /\ xReturnValue' = [xReturnValue EXCEPT ![t] = "notSent"]
  /\ pc' = [pc EXCEPT ![t] = "clear"]
  /\ UNCHANGED <<pxRequestCtx, notified, ulRequestID, pxRxPbuf, tokens,
                 ctrlQueue, dataQueue, framePc, countLost, spiVars, respBuffer, moduleVars>>

\* The count is raised after the packet is in the queue, where the data plane
\* may have taken it already: the counter then passes below zero.
CountPacket(t) ==
  /\ pc[t] = "count"
  /\ ulTxPacketsWaiting' = ulTxPacketsWaiting + 1
  /\ pc' = [pc EXCEPT ![t] = "wait"]
  /\ UNCHANGED <<pxRequestCtx, xReturnValue, notified, contextVars, ctrlQueue, dataQueue, framePc,
                 countLost, spiVars, respBuffer, moduleVars>>

\* xTaskNotifyWait returns pdTRUE for any notification, and the response is
\* read from the context: a null pointer when the notification was an old one.
WaitSucceeds(t) ==
  /\ pc[t] = "wait" /\ notified[t]
  /\ notified' = [notified EXCEPT ![t] = FALSE]
  /\ xReturnValue' = [xReturnValue EXCEPT ![t] =
       IF pxRxPbuf[pxRequestCtx[t]] = NoPacket THEN "garbage" ELSE "answered"]
  /\ pc' = [pc EXCEPT ![t] = "waited"]
  /\ UNCHANGED <<pxRequestCtx, contextVars, queueVars, spiVars, respBuffer, moduleVars>>

WaitTimesOut(t) ==
  /\ pc[t] = "wait" /\ ~notified[t]
  /\ xReturnValue' = [xReturnValue EXCEPT ![t] = "timeout"]
  /\ pc' = [pc EXCEPT ![t] = "waited"]
  /\ UNCHANGED <<pxRequestCtx, notified, contextVars, queueVars, spiVars, respBuffer, moduleVars>>

\* Without the mutex: until here the router still takes the task for waiting.
StopWaiting(t) ==
  /\ pc[t] = "waited"
  /\ xWaitingTask' = [xWaitingTask EXCEPT ![pxRequestCtx[t]] = NoTask]
  /\ pc' = [pc EXCEPT ![t] = "clear"]
  /\ UNCHANGED <<pxRequestCtx, xReturnValue, notified, ulRequestID, pxRxPbuf, tokens, queueVars,
                 spiVars, respBuffer, moduleVars>>

\* Faulty variant of ClearCtx: a request that timed out keeps its token.
ClearCtxKeepsToken(t) ==
  /\ pc[t] = "clear"
  /\ ulRequestID' = [ulRequestID EXCEPT ![pxRequestCtx[t]] = 0]
  /\ xWaitingTask' = [xWaitingTask EXCEPT ![pxRequestCtx[t]] = NoTask]
  /\ pxRxPbuf' = [pxRxPbuf EXCEPT ![pxRequestCtx[t]] = NoPacket]
  /\ tokens' = IF xReturnValue[t] = "timeout" THEN tokens ELSE tokens + 1
  /\ pc' = [pc EXCEPT ![t] = "idle"]
  /\ UNCHANGED <<pxRequestCtx, xReturnValue, notified, queueVars, spiVars, respBuffer, moduleVars>>

ClearCtx(t) ==
  /\ pc[t] = "clear"
  /\ ulRequestID' = [ulRequestID EXCEPT ![pxRequestCtx[t]] = 0]
  /\ xWaitingTask' = [xWaitingTask EXCEPT ![pxRequestCtx[t]] = NoTask]
  /\ pxRxPbuf' = [pxRxPbuf EXCEPT ![pxRequestCtx[t]] = NoPacket]
  /\ tokens' = tokens + 1
  /\ pc' = [pc EXCEPT ![t] = "idle"]
  /\ UNCHANGED <<pxRequestCtx, xReturnValue, notified, queueVars, spiVars, respBuffer, moduleVars>>

-----------------------------------------------------------------------------
(* The router: prvControlPlaneRouter.                                      *)

Awaiting(p) == {c \in Contexts : ulRequestID[c] = p /\ pxRxPbuf[c] = NoPacket /\ xWaitingTask[c] # NoTask}

\* Faulty variant of DeliverResponse: to whichever request waits.
DeliverToAnyone ==
  /\ respBuffer # <<>> /\ Head(respBuffer) # Event
  /\ \E c \in Contexts :
       /\ pxRxPbuf[c] = NoPacket /\ xWaitingTask[c] # NoTask
       /\ pxRxPbuf' = [pxRxPbuf EXCEPT ![c] = Head(respBuffer)]
       /\ notified' = [notified EXCEPT ![xWaitingTask[c]] = TRUE]
  /\ respBuffer' = Tail(respBuffer)
  /\ UNCHANGED <<pc, pxRequestCtx, xReturnValue, ulRequestID, xWaitingTask, tokens, queueVars, spiVars, moduleVars>>

DeliverResponse ==
  /\ respBuffer # <<>> /\ Head(respBuffer) # Event
  /\ \E c \in Awaiting(Head(respBuffer)) :
       /\ pxRxPbuf' = [pxRxPbuf EXCEPT ![c] = Head(respBuffer)]
       /\ notified' = [notified EXCEPT ![xWaitingTask[c]] = TRUE]
  /\ respBuffer' = Tail(respBuffer)
  /\ UNCHANGED <<pc, pxRequestCtx, xReturnValue, ulRequestID, xWaitingTask, tokens, queueVars, spiVars, moduleVars>>

\* A notification of the module goes to the event callback; a response that
\* nobody waits for is dropped.
DropResponse ==
  /\ respBuffer # <<>>
  /\ Head(respBuffer) # Event => Awaiting(Head(respBuffer)) = {}
  /\ respBuffer' = Tail(respBuffer)
  /\ UNCHANGED <<callerVars, contextVars, queueVars, spiVars, moduleVars>>

-----------------------------------------------------------------------------
(* Ethernet frames: prvxLinkOutput, in the TCP/IP task.                    *)

SendFrame ==
  /\ framePc = "idle" /\ dataQueue < DataQueueLen
  /\ dataQueue' = dataQueue + 1
  /\ framePc' = "count"
  /\ UNCHANGED <<callerVars, contextVars, ctrlQueue, ulTxPacketsWaiting, countLost, spiVars, respBuffer, moduleVars>>

CountFrame ==
  /\ framePc = "count"
  /\ ulTxPacketsWaiting' = ulTxPacketsWaiting + 1
  /\ framePc' = "idle"
  /\ UNCHANGED <<callerVars, contextVars, ctrlQueue, dataQueue, countLost, spiVars, respBuffer, moduleVars>>

-----------------------------------------------------------------------------
(* The data-plane thread: one turn of vDataplaneThread.                    *)

\* Faulty variant of StartTransaction: a turn only when the module has a packet.
StartOnNotifyPin ==
  /\ dpc = "wait"
  /\ outgoing # <<>>
  /\ dpc' = "flow"
  /\ UNCHANGED <<callerVars, contextVars, queueVars, source, lengths, pxTxBuff, pxRxBuff,
                 respBuffer, moduleVars>>

\* The wait for DATA_WAITING_IDX ends after 500 ticks at the latest; the turn
\* is skipped when the notify pin is low and no packet is counted.
StartTransaction ==
  /\ dpc = "wait"
  /\ outgoing # <<>> \/ ulTxPacketsWaiting # 0
  /\ dpc' = "flow"
  /\ UNCHANGED <<callerVars, contextVars, queueVars, source, lengths, pxTxBuff, pxRxBuff,
                 respBuffer, moduleVars>>

\* Flow has come: the packet to send is looked up, not yet taken.
PeekControl ==
  /\ dpc = "flow"
  /\ source' = IF ctrlQueue # <<>> THEN "control" ELSE "none"
  /\ dpc' = IF ctrlQueue # <<>> THEN "header" ELSE "peekData"
  /\ UNCHANGED <<callerVars, contextVars, queueVars, lengths, pxTxBuff, pxRxBuff, respBuffer, moduleVars>>

PeekData ==
  /\ dpc = "peekData"
  /\ source' = IF dataQueue > 0 THEN "data" ELSE "none"
  /\ dpc' = IF dataQueue > 0 THEN "header" ELSE "test"
  /\ UNCHANGED <<callerVars, contextVars, queueVars, lengths, pxTxBuff, pxRxBuff, respBuffer, moduleVars>>

TestCount ==
  /\ dpc = "test"
  /\ dpc' = IF ulTxPacketsWaiting # 0 THEN "reset" ELSE "header"
  /\ UNCHANGED <<callerVars, contextVars, queueVars, source, lengths, pxTxBuff, pxRxBuff,
                 respBuffer, moduleVars>>

\* A count without a packet is reset.  Since the queues were looked into, the
\* TCP/IP task may have queued a frame and counted it.
ResetCount ==
  /\ dpc = "reset"
  /\ ulTxPacketsWaiting' = 0
  /\ countLost' = (countLost \/ dataQueue > IF framePc = "count" THEN 1 ELSE 0)
  /\ dpc' = "header"
  /\ UNCHANGED <<callerVars, contextVars, ctrlQueue, dataQueue, framePc, source, lengths, pxTxBuff, pxRxBuff,
                 respBuffer, moduleVars>>

\* Faulty variant of Abandon: the packet looked up is counted off and stays.
AbandonCountsOff ==
  /\ dpc' = "wait" /\ source' = "none" /\ lengths' = FALSE /\ pxRxBuff' = NoPacket
  /\ outgoing' = outgoing \/ (pxRxBuff # NoPacket /\ outgoing' = Tail(outgoing))
  /\ ulTxPacketsWaiting' = IF source = "none" THEN ulTxPacketsWaiting ELSE ulTxPacketsWaiting - 1
  /\ UNCHANGED <<callerVars, contextVars, ctrlQueue, dataQueue, framePc, countLost, pxTxBuff,
                 respBuffer, received>>

\* The transaction ends before the packet to send was taken from its queue;
\* a packet that the module had announced may be lost on its side.
Abandon ==
  /\ dpc' = "wait" /\ source' = "none" /\ lengths' = FALSE /\ pxRxBuff' = NoPacket
  /\ outgoing' = outgoing \/ (pxRxBuff # NoPacket /\ outgoing' = Tail(outgoing))
  /\ UNCHANGED <<callerVars, contextVars, queueVars, pxTxBuff, respBuffer, received>>

FlowTimesOut == "flow" \in Faults /\ dpc \in {"flow", "flow2"} /\ Abandon
HeaderTransferFails == "header" \in Faults /\ dpc = "header" /\ Abandon

\* A header that is not valid makes both lengths zero and is no failure.
ExchangeHeaders(valid) ==
  /\ dpc = "header"
  /\ valid \/ "garbled" \in Faults
  /\ lengths' = valid
  /\ pxRxBuff' = IF valid /\ outgoing # <<>> THEN Head(outgoing) ELSE NoPacket
  /\ dpc' = "flow2"
  /\ UNCHANGED <<callerVars, contextVars, queueVars, source, pxTxBuff, respBuffer, moduleVars>>

TakeFromQueue ==
  /\ dpc = "flow2"
  /\ pxTxBuff' = CASE source = "control" -> Head(ctrlQueue)
                   [] source = "data" -> Frame
                   [] OTHER -> NoPacket
  /\ ctrlQueue' = IF source = "control" THEN Tail(ctrlQueue) ELSE ctrlQueue
  /\ dataQueue' = IF source = "data" THEN dataQueue - 1 ELSE dataQueue
  /\ dpc' = "transfer"
  /\ UNCHANGED <<callerVars, contextVars, ulTxPacketsWaiting, framePc, countLost, source, lengths, pxRxBuff,
                 respBuffer, moduleVars>>

\* Both outcomes of the transfer count a taken packet off and free both buffers.
EndTransaction ==
  /\ ulTxPacketsWaiting' = IF pxTxBuff # NoPacket THEN ulTxPacketsWaiting - 1 ELSE ulTxPacketsWaiting
  /\ dpc' = "wait" /\ source' = "none" /\ lengths' = FALSE
  /\ pxTxBuff' = NoPacket /\ pxRxBuff' = NoPacket
  /\ UNCHANGED <<callerVars, contextVars, ctrlQueue, dataQueue, framePc, countLost>>

\* vProcessRxPacket: frames go to lwIP, anything else to the router unless its
\* buffer is full.
ProcessRxPacket ==
  respBuffer' = IF pxRxBuff \in Packets \ {Frame} /\ Len(respBuffer) < RespBufferLen
                THEN Append(respBuffer, pxRxBuff) ELSE respBuffer

\* With zero lengths nothing is transferred, and the packet taken is lost.
Transfer ==
  /\ dpc = "transfer"
  /\ EndTransaction /\ ProcessRxPacket
  /\ received' = received \cup (IF lengths THEN {pxTxBuff} \cap RequestIds ELSE {})
  /\ outgoing' = IF pxRxBuff # NoPacket THEN Tail(outgoing) ELSE outgoing

TransferFails ==
  /\ "transfer" \in Faults /\ dpc = "transfer" /\ lengths
  /\ EndTransaction
  /\ UNCHANGED respBuffer
  /\ received' \in {received, received \cup ({pxTxBuff} \cap RequestIds)}
  /\ outgoing' = outgoing \/ (pxRxBuff # NoPacket /\ outgoing' = Tail(outgoing))

-----------------------------------------------------------------------------
(* The module: it answers a request once, or never, and reports events.    *)

ModuleAnswers(id) ==
  /\ id \in received /\ Len(outgoing) < ModuleQueueLen
  /\ outgoing' = Append(outgoing, id)
  /\ received' = received \ {id}
  /\ UNCHANGED <<callerVars, contextVars, queueVars, spiVars, respBuffer>>

ModuleForgets(id) ==
  /\ id \in received
  /\ received' = received \ {id}
  /\ UNCHANGED <<callerVars, contextVars, queueVars, spiVars, respBuffer, outgoing>>

ModuleReports(p) ==
  /\ Len(outgoing) < ModuleQueueLen
  /\ outgoing' = Append(outgoing, p)
  /\ UNCHANGED <<callerVars, contextVars, queueVars, spiVars, respBuffer, received>>

-----------------------------------------------------------------------------
Wait(t) == WaitSucceeds(t) \/ WaitTimesOut(t)
Send(t) == SendToDataplane(t) \/ SendFails(t)
Request(t) == TakeToken(t) \/ FindAvailableCtx(t) \/ Send(t) \/ CountPacket(t)
              \/ Wait(t) \/ StopWaiting(t) \/ ClearCtx(t)

\* A requester has a lower priority than the data-plane thread and runs while
\* that waits: for something to send, for flow, or for the end of a transfer.
\* (The TCP/IP task has the same priority and runs at any time.)
DataplaneRuns ==
  dpc \in {"peekData", "test", "reset"} \/ (dpc = "wait" /\ ulTxPacketsWaiting # 0)
RequesterStep(t) == ~DataplaneRuns /\ Request(t)

Router == DeliverResponse \/ DropResponse
Dataplane ==
  \/ StartTransaction \/ PeekControl \/ PeekData \/ TestCount \/ ResetCount \/ FlowTimesOut \/ HeaderTransferFails
  \/ \E valid \in BOOLEAN : ExchangeHeaders(valid)
  \/ TakeFromQueue \/ Transfer \/ TransferFails
Module ==
  \/ \E id \in RequestIds : ModuleAnswers(id) \/ ModuleForgets(id)
  \/ \E p \in {Event, Frame} : ModuleReports(p)

Next ==
  \/ \E t \in Tasks : RequesterStep(t)
  \/ Router \/ SendFrame \/ CountFrame \/ Dataplane \/ Module

Spec == Init /\ [][Next]_vars

-----------------------------------------------------------------------------
(* Properties.                                                             *)

\* The type of every variable.
TypeOK ==
  /\ pc \in [Tasks -> {"idle", "find", "send", "count", "wait", "waited", "clear"}]
  /\ pxRequestCtx \in [Tasks -> Contexts]
  /\ xReturnValue \in [Tasks -> {"none", "notSent", "timeout", "answered", "garbage"}]
  /\ notified \in [Tasks -> BOOLEAN]
  /\ ulRequestID \in [Contexts -> RequestIds \cup {0}]
  /\ pxRxPbuf \in [Contexts -> RequestIds \cup {NoPacket}]
  /\ xWaitingTask \in [Contexts -> Tasks \cup {NoTask}]
  /\ tokens \in 0..Cardinality(Contexts)
  /\ ctrlQueue \in Seq(RequestIds) /\ dataQueue \in 0..DataQueueLen /\ ulTxPacketsWaiting \in Int
  /\ framePc \in {"idle", "count"} /\ countLost \in BOOLEAN
  /\ dpc \in {"wait", "flow", "peekData", "test", "reset", "header", "flow2", "transfer"}
  /\ source \in {"control", "data", "none"} /\ lengths \in BOOLEAN
  /\ pxTxBuff \in RequestIds \cup {Frame, NoPacket} /\ pxRxBuff \in Packets \cup {NoPacket}
  /\ respBuffer \in Seq(RequestIds \cup {Event})
  /\ received \subseteq RequestIds /\ outgoing \in Seq(Packets)

\* The assertion of pxFindAvailableCtx holds and its search succeeds: whatever
\* timed out, failed or was answered late, a task that starts a request finds
\* a token, and one that has a token finds a free context of its own.
RequestFindsContext ==
  \A t \in Tasks :
    /\ pc[t] = "idle" => tokens > 0
    /\ pc[t] = "find" => \E c \in Contexts : ulRequestID[c] = 0
    /\ pc[t] \notin {"idle", "find"} =>
         \A u \in Tasks \ {t} : pc[u] \notin {"idle", "find"} => pxRequestCtx[u] # pxRequestCtx[t]

\* A response kept in a context answers the request that the context has now:
\* never an earlier one that timed out, nor that of another task.
AnswerMatches ==
  \A c \in Contexts : pxRxPbuf[c] # NoPacket => pxRxPbuf[c] = ulRequestID[c]

\* The count and the queues are not changed together: the count is raised for
\* packets that were not queued, passes below zero, and is reset.  Only the
\* reset can do harm: as long as none has taken the count of a frame queued
\* after the queues were looked into, the data plane never skips its turn while
\* a packet is queued that its sender has counted.
Counting == framePc = "count" \/ \E t \in Tasks : pc[t] = "count"
Forgotten == ~Counting /\ (ctrlQueue # <<>> \/ dataQueue > 0) /\ ulTxPacketsWaiting = 0
OnlyResetForgets == Forgotten => countLost

\* The data plane runs; the module raises flow and exchanges headers again and again.
FairSpec ==
  /\ Spec
  /\ WF_vars(StartTransaction) /\ SF_vars(PeekControl) /\ WF_vars(PeekData) /\ WF_vars(TestCount)
  /\ WF_vars(ResetCount) /\ SF_vars(ExchangeHeaders(TRUE))
  /\ SF_vars(TakeFromQueue) /\ WF_vars(Transfer \/ TransferFails)
  /\ WF_vars(CountFrame) /\ \A t \in Tasks : WF_vars(~DataplaneRuns /\ CountPacket(t))

\* A request that was queued leaves the queue, whatever transactions fail, as
\* long as no count is lost.  (After that a turn that the module asks for takes
\* the frame left over, and counts it off for a request that was counted
\* meanwhile: the request then stays.)
QueuedRequestLeaves ==
  \A id \in RequestIds : id \in Elems(ctrlQueue) ~> id \notin Elems(ctrlQueue) \/ countLost

-----------------------------------------------------------------------------
(* What the comments say and the code does not do.                         *)

\* "Send packet to waiting thread" (mx_ipc.c): a request that returns
\* IPC_SUCCESS has read a response.
SuccessIsAnswered == \A t \in Tasks : xReturnValue[t] # "garbage"

\* "Skip this transaction if IRQ pin is low and there are no pending tx
\* packets" (mx_dataplane.c): a turn is skipped only when nothing is pending.
NoPacketForgotten == ~Forgotten
=============================================================================
