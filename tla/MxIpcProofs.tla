------------------------------ MODULE MxIpcProofs ------------------------------
(***************************************************************************)
(* Proofs about MxIpc for any tasks, contexts, identifiers and lengths of  *)
(* the queues.  Three things are counted: the tokens of the semaphore are  *)
(* the contexts that no task has asked for, each context with a request    *)
(* belongs to one task, and the packets that are counted or about to be    *)
(* are at least those in the queues and in the data plane's hands.         *)
(***************************************************************************)
EXTENDS MxIpc, FiniteSetTheorems, TLAPS

USE TasksAssumption, IdsAssumption, LengthsAssumption, BoundAssumption

\* The tasks that have asked for a context, that have one, and that have
\* queued a packet and not yet counted it.
Asking   == {t \in Tasks : pc[t] # "idle"}
Owners   == {t \in Tasks : pc[t] \notin {"idle", "find"}}
Uncounted == {t \in Tasks : pc[t] = "count"}

\* What the data plane has looked up is still there when it takes it: it is
\* the only one that takes from the queues.  No request is queued between its
\* look for one and its reset of the count.
PeekInv ==
  /\ pxTxBuff # NoPacket => dpc = "transfer"
  /\ dpc = "flow2" \/ dpc = "header" =>
       /\ source = "control" => ctrlQueue # <<>>
       /\ source = "data" => dataQueue > 0
  /\ dpc \in {"peekData", "test", "reset"} => ctrlQueue = <<>> /\ source = "none"

\* Semaphore and contexts.
TokenInv == tokens = Cardinality(Contexts) - Cardinality(Asking)
OwnerInv ==
  /\ \A t \in Owners : ulRequestID[pxRequestCtx[t]] # 0
  /\ \A t, u \in Owners : pxRequestCtx[t] = pxRequestCtx[u] => t = u
  /\ \A c \in Contexts : ulRequestID[c] # 0 => \E t \in Owners : pxRequestCtx[t] = c

\* The packets that are or will be counted, and those that are somewhere.  The
\* balance is upset by the reset that takes the count of a frame, and only by it.
Sending == IF framePc = "count" THEN 1 ELSE 0
Held    == IF pxTxBuff # NoPacket THEN 1 ELSE 0
Balance ==
  ulTxPacketsWaiting + Cardinality(Uncounted) + Sending >= Len(ctrlQueue) + dataQueue + Held
BalanceInv == countLost \/ Balance

\* A packet being received was announced: it is still the module's first.
AnnouncedInv == pxRxBuff # NoPacket => outgoing # <<>>

Inv == TypeOK /\ PeekInv /\ AnnouncedInv /\ TokenInv /\ OwnerInv /\ BalanceInv

-----------------------------------------------------------------------------
(* Types.                                                                  *)

\* A queue after a packet was put in or taken out.
LEMMA AppendType ==
  ASSUME NEW S, NEW q \in Seq(S), NEW x \in S
  PROVE  Append(q, x) \in Seq(S) /\ Len(Append(q, x)) = Len(q) + 1
  OBVIOUS

\* What is left of a queue that is not empty.
LEMMA TailType ==
  ASSUME NEW S, NEW q \in Seq(S), q # <<>>
  PROVE  /\ Head(q) \in S /\ Tail(q) \in Seq(S)
         /\ Len(q) \in Nat \ {0} /\ Len(Tail(q)) = Len(q) - 1
  OBVIOUS

\* The types of the callers' variables.
CallerTypes ==
  /\ pc \in [Tasks -> {"idle", "find", "send", "count", "wait", "waited", "clear"}]
  /\ pxRequestCtx \in [Tasks -> Contexts]
  /\ xReturnValue \in [Tasks -> {"none", "notSent", "timeout", "answered", "garbage"}]
  /\ notified \in [Tasks -> BOOLEAN]
  /\ ulRequestID \in [Contexts -> RequestIds \cup {0}]
  /\ pxRxPbuf \in [Contexts -> RequestIds \cup {NoPacket}]
  /\ xWaitingTask \in [Contexts -> Tasks \cup {NoTask}]

\* The initial state has the types.
LEMMA TypeInit == Init => TypeOK /\ PeekInv
<1> SUFFICES ASSUME Init PROVE TypeOK /\ PeekInv
  OBVIOUS
<1>1. CallerTypes
  BY DEF Init, CallerTypes
<1>2. tokens \in 0..Cardinality(Contexts)
  BY FS_CardinalityType DEF Init
<1>3. /\ ctrlQueue \in Seq(RequestIds) /\ respBuffer \in Seq(RequestIds \cup {Event})
      /\ outgoing \in Seq(Packets)
  BY DEF Init
<1>4. lengths \in BOOLEAN /\ countLost \in BOOLEAN
  BY Zenon DEF Init
<1>5. TypeOK
  BY <1>1, <1>2, <1>3, <1>4 DEF Init, TypeOK, CallerTypes
<1>6. PeekInv
  BY DEF Init, PeekInv
<1>7. QED
  BY <1>5, <1>6

\* The steps of a request keep the types.
LEMMA TypeRequest ==
  ASSUME TypeOK, PeekInv, OwnerInv, NEW t \in Tasks, RequesterStep(t),
         tokens' \in 0..Cardinality(Contexts)
  PROVE  TypeOK' /\ PeekInv'
<1> USE DEF TypeOK, PeekInv, DataplaneRuns, callerVars, contextVars, queueVars, spiVars, moduleVars
<1>0. ~DataplaneRuns /\ Request(t)
  BY DEF RequesterStep
<1>1. CASE TakeToken(t)
  BY <1>1 DEF TakeToken
<1>2. CASE FindAvailableCtx(t)
  <2>1. PICK c \in Contexts, id \in NextRequestIDs :
          /\ ulRequestID' = [ulRequestID EXCEPT ![c] = id]
          /\ pxRxPbuf' = [pxRxPbuf EXCEPT ![c] = NoPacket]
          /\ xWaitingTask' = [xWaitingTask EXCEPT ![c] = NoTask]
          /\ pxRequestCtx' = [pxRequestCtx EXCEPT ![t] = c]
    BY <1>2 DEF FindAvailableCtx
  <2>2. id \in RequestIds
    BY DEF NextRequestIDs
  <2>3. QED
    BY <1>2, <2>1, <2>2 DEF FindAvailableCtx
<1>3. CASE SendToDataplane(t)
  <2>1. ulRequestID[pxRequestCtx[t]] \in RequestIds
    <3>1. t \in Owners
      BY <1>3 DEF SendToDataplane, Owners
    <3>2. ulRequestID[pxRequestCtx[t]] # 0
      BY <3>1 DEF OwnerInv
    <3>3. QED
      BY <3>2
  <2>2. ctrlQueue' \in Seq(RequestIds) /\ Len(ctrlQueue') = Len(ctrlQueue) + 1
    <3>1. ctrlQueue \in Seq(RequestIds) /\ ctrlQueue' = Append(ctrlQueue, ulRequestID[pxRequestCtx[t]])
      BY <1>3 DEF SendToDataplane
    <3>2. QED
      BY ONLY <2>1, <3>1, AppendType
  <2>3. ctrlQueue' # <<>>
    BY <2>2
  <2>4. QED
    BY <1>0, <1>3, <2>2, <2>3 DEF SendToDataplane
<1>4. CASE SendFails(t)
  BY <1>4 DEF SendFails
<1>5. CASE CountPacket(t)
  BY <1>5 DEF CountPacket
<1>6. CASE WaitSucceeds(t)
  BY <1>6 DEF WaitSucceeds
<1>7. CASE WaitTimesOut(t)
  BY <1>7 DEF WaitTimesOut
<1>8. CASE StopWaiting(t)
  BY <1>8 DEF StopWaiting
<1>9. CASE ClearCtx(t)
  BY <1>9 DEF ClearCtx
<1>10. QED
  BY <1>0, <1>1, <1>2, <1>3, <1>4, <1>5, <1>6, <1>7, <1>8, <1>9 DEF Request, Send, Wait

\* The router keeps the types.
LEMMA TypeRouter == TypeOK /\ PeekInv /\ Router => TypeOK' /\ PeekInv'
<1> SUFFICES ASSUME TypeOK, PeekInv, Router PROVE TypeOK' /\ PeekInv'
  OBVIOUS
<1> USE DEF TypeOK, PeekInv, callerVars, contextVars, queueVars, spiVars, moduleVars
<1>1. respBuffer # <<>> /\ respBuffer' = Tail(respBuffer)
  BY DEF Router, DeliverResponse, DropResponse
<1>2. Head(respBuffer) \in RequestIds \cup {Event} /\ respBuffer' \in Seq(RequestIds \cup {Event})
  BY <1>1, TailType
<1>3. CASE DeliverResponse
  <2>1. PICK c \in Awaiting(Head(respBuffer)) :
          /\ pxRxPbuf' = [pxRxPbuf EXCEPT ![c] = Head(respBuffer)]
          /\ notified' = [notified EXCEPT ![xWaitingTask[c]] = TRUE]
    BY <1>3 DEF DeliverResponse
  <2>2. c \in Contexts /\ Head(respBuffer) \in RequestIds /\ xWaitingTask[c] \in Tasks
    BY <1>2, <1>3, <2>1 DEF DeliverResponse, Awaiting
  <2>3. pxRxPbuf' \in [Contexts -> RequestIds \cup {NoPacket}]
    BY <2>1, <2>2
  <2>4. notified' \in [Tasks -> BOOLEAN]
    BY <2>1, <2>2
  <2>5. QED
    BY <1>2, <1>3, <2>3, <2>4 DEF DeliverResponse
<1>4. CASE DropResponse
  BY <1>2, <1>4 DEF DropResponse
<1>5. QED
  BY <1>3, <1>4 DEF Router

\* The frames and the module keep the types.
LEMMA TypeOutside == TypeOK /\ PeekInv /\ (SendFrame \/ CountFrame \/ Module) => TypeOK' /\ PeekInv'
<1> SUFFICES ASSUME TypeOK, PeekInv, SendFrame \/ CountFrame \/ Module PROVE TypeOK' /\ PeekInv'
  OBVIOUS
<1> USE DEF TypeOK, PeekInv, callerVars, contextVars, queueVars, spiVars, moduleVars
<1>1. CASE SendFrame
  BY <1>1, SMTT(30) DEF SendFrame
<1>2. CASE CountFrame
  BY <1>2 DEF CountFrame
<1>3. ASSUME NEW id \in RequestIds, ModuleAnswers(id) PROVE TypeOK' /\ PeekInv'
  <2>1. outgoing' \in Seq(Packets)
    BY <1>3, AppendType DEF ModuleAnswers, Packets
  <2>2. QED
    BY <1>3, <2>1 DEF ModuleAnswers
<1>4. ASSUME NEW id \in RequestIds, ModuleForgets(id) PROVE TypeOK' /\ PeekInv'
  BY <1>4 DEF ModuleForgets
<1>5. ASSUME NEW p \in {Event, Frame}, ModuleReports(p) PROVE TypeOK' /\ PeekInv'
  <2>1. outgoing' \in Seq(Packets)
    BY <1>5, AppendType DEF ModuleReports, Packets
  <2>2. QED
    BY <1>5, <2>1 DEF ModuleReports
<1>6. QED
  BY <1>1, <1>2, <1>3, <1>4, <1>5 DEF Module

\* What the module has ready may lose its first packet.
LEMMA OutgoingType ==
  ASSUME TypeOK, \/ outgoing' = outgoing
                 \/ outgoing # <<>> /\ outgoing' = Tail(outgoing)
  PROVE  outgoing' \in Seq(Packets)
<1>1. outgoing \in Seq(Packets)
  BY DEF TypeOK
<1>2. outgoing # <<>> => Tail(outgoing) \in Seq(Packets)
  BY ONLY <1>1, TailType
<1>3. QED
  BY <1>1, <1>2

\* The data plane keeps the types.
LEMMA TypeDataplane ==
  ASSUME TypeOK, PeekInv, AnnouncedInv, Dataplane
  PROVE  TypeOK' /\ PeekInv'
<1> USE DEF TypeOK, PeekInv, callerVars, contextVars, queueVars, spiVars, moduleVars
<1>1. CASE StartTransaction
  BY <1>1 DEF StartTransaction
<1>2. CASE PeekControl \/ PeekData \/ TestCount \/ ResetCount
  <2>1. CASE PeekControl
    <3>1. /\ source' \in {"control", "none"} /\ dpc' \in {"header", "peekData"}
          /\ (dpc' = "header" => ctrlQueue # <<>>) /\ (dpc' = "peekData" => ctrlQueue = <<>>)
      BY <2>1, Zenon DEF PeekControl
    <3>2. source' # "data"
      BY <3>1
    <3>3. QED
      BY <2>1, <3>1, <3>2 DEF PeekControl
  <2>2. CASE PeekData
    BY <2>2 DEF PeekData
  <2>3. CASE TestCount
    BY <2>3 DEF TestCount
  <2>4. CASE ResetCount
    <3>1. countLost' \in BOOLEAN
      BY <2>4, Zenon DEF ResetCount
    <3>2. ulTxPacketsWaiting' = 0 /\ dpc' = "header" /\ dpc = "reset"
      BY <2>4 DEF ResetCount
    <3>3. QED
      BY <2>4, <3>1, <3>2 DEF ResetCount
  <2>5. QED
    BY <1>2, <2>1, <2>2, <2>3, <2>4
<1>3. CASE FlowTimesOut \/ HeaderTransferFails
  <2>1. Abandon
    BY <1>3 DEF FlowTimesOut, HeaderTransferFails
  <2>2. outgoing' \in Seq(Packets)
    BY <2>1, OutgoingType DEF Abandon, AnnouncedInv
  <2>3. lengths' \in BOOLEAN
    BY <2>1, Zenon DEF Abandon
  <2>4. pxTxBuff = NoPacket
    BY <1>3 DEF FlowTimesOut, HeaderTransferFails
  <2>5. QED
    BY <2>1, <2>2, <2>3, <2>4 DEF Abandon
<1>4. ASSUME NEW valid \in BOOLEAN, ExchangeHeaders(valid) PROVE TypeOK' /\ PeekInv'
  <2>1. pxRxBuff' \in Packets \cup {NoPacket}
    BY <1>4, TailType DEF ExchangeHeaders
  <2>2. lengths' \in BOOLEAN
    BY <1>4, Zenon DEF ExchangeHeaders
  <2>3. QED
    BY <1>4, <2>1, <2>2 DEF ExchangeHeaders
<1>5. CASE TakeFromQueue
  <2>1. CASE source = "control"
    <3>1. Head(ctrlQueue) \in RequestIds /\ Tail(ctrlQueue) \in Seq(RequestIds)
      BY <1>5, <2>1, TailType DEF TakeFromQueue
    <3>2. pxTxBuff' = Head(ctrlQueue) /\ ctrlQueue' = Tail(ctrlQueue) /\ dataQueue' = dataQueue
      BY <1>5, <2>1 DEF TakeFromQueue
    <3>3. QED
      BY <1>5, <3>1, <3>2 DEF TakeFromQueue
  <2>2. CASE source # "control"
    BY <1>5, <2>2 DEF TakeFromQueue
  <2>3. QED
    BY <2>1, <2>2
<1>6. ASSUME EndTransaction, dpc = "transfer", received' \subseteq RequestIds, outgoing' \in Seq(Packets),
             respBuffer' \in Seq(RequestIds \cup {Event})
      PROVE  TypeOK' /\ PeekInv'
  <2>1. lengths' \in BOOLEAN
    BY <1>6, Zenon DEF EndTransaction
  <2>2. QED
    BY <1>6, <2>1, SMTT(30) DEF EndTransaction
<1>7. CASE Transfer
  <2>1. respBuffer' \in Seq(RequestIds \cup {Event})
    BY <1>7, AppendType DEF Transfer, ProcessRxPacket, Packets
  <2>2. outgoing' \in Seq(Packets)
    BY <1>7, OutgoingType DEF Transfer, AnnouncedInv
  <2>3. received' \subseteq RequestIds
    BY <1>7 DEF Transfer
  <2>4. QED
    BY <1>6, <1>7, <2>1, <2>2, <2>3 DEF Transfer
<1>8. CASE TransferFails
  <2>1. outgoing' \in Seq(Packets)
    BY <1>8, OutgoingType DEF TransferFails, AnnouncedInv
  <2>2. received' \subseteq RequestIds
    BY <1>8 DEF TransferFails
  <2>3. QED
    BY <1>6, <1>8, <2>1, <2>2 DEF TransferFails
<1>9. QED
  BY <1>1, <1>2, <1>3, <1>4, <1>5, <1>7, <1>8 DEF Dataplane

\* Announced packets stay: only the transaction takes them.
LEMMA AnnouncedNext == TypeOK /\ PeekInv /\ AnnouncedInv /\ [Next]_vars => AnnouncedInv'
<1> SUFFICES ASSUME TypeOK, AnnouncedInv, [Next]_vars PROVE AnnouncedInv'
  OBVIOUS
<1> USE DEF AnnouncedInv, callerVars, contextVars, queueVars, spiVars, moduleVars
<1>1. ASSUME Next, ~Dataplane PROVE UNCHANGED pxRxBuff /\ (outgoing # <<>> => outgoing' # <<>>)
  <2>1. CASE Module
    <3>1. ASSUME NEW p \in Packets, outgoing' = Append(outgoing, p) PROVE outgoing' # <<>>
      BY <3>1 DEF TypeOK
    <3>2. QED
      BY <2>1, <3>1 DEF Module, ModuleAnswers, ModuleForgets, ModuleReports, Packets
  <2>2. CASE ~Module
    BY <1>1, <2>2 DEF Next, RequesterStep, Request, Send, Wait, Router, TakeToken, FindAvailableCtx, SendToDataplane,
      SendFails, CountPacket, WaitSucceeds, WaitTimesOut, StopWaiting, ClearCtx, DeliverResponse,
      DropResponse, SendFrame, CountFrame
  <2>3. QED
    BY <2>1, <2>2
<1>2. CASE Dataplane
  BY <1>2 DEF Dataplane, StartTransaction, PeekControl, PeekData, TestCount, ResetCount, FlowTimesOut, HeaderTransferFails, Abandon,
    ExchangeHeaders, TakeFromQueue, Transfer, TransferFails, EndTransaction
<1>3. CASE UNCHANGED vars
  BY <1>3 DEF vars
<1>4. QED
  BY <1>1, <1>2, <1>3

-----------------------------------------------------------------------------
(* Tokens and contexts.                                                    *)

\* Sets of tasks are finite, and no larger than the array of contexts.
LEMMA TaskSets ==
  ASSUME NEW S \in SUBSET Tasks
  PROVE  /\ IsFiniteSet(S) /\ Cardinality(S) \in Nat
         /\ Cardinality(Contexts) \in Nat /\ Cardinality(S) <= Cardinality(Contexts)
         /\ \A t \in Tasks : t \notin S => Cardinality(S) < Cardinality(Contexts)
<1>1. IsFiniteSet(S) /\ Cardinality(S) <= Cardinality(Tasks)
  BY FS_Subset
<1>2. Cardinality(S) \in Nat /\ Cardinality(Contexts) \in Nat /\ Cardinality(Tasks) \in Nat
  BY <1>1, FS_CardinalityType
<1>3. ASSUME NEW t \in Tasks, t \notin S PROVE Cardinality(S) < Cardinality(Contexts)
  <2>1. Cardinality(S) # Cardinality(Tasks)
    BY <1>3, FS_Subset
  <2>2. QED
    BY <1>1, <1>2, <2>1
<1>4. QED
  BY <1>1, <1>2, <1>3

\* Only the callers move in the array of contexts.
LEMMA OnlyCallers ==
  ASSUME Router \/ SendFrame \/ CountFrame \/ Dataplane \/ Module \/ UNCHANGED vars
  PROVE  /\ pc' = pc /\ pxRequestCtx' = pxRequestCtx
         /\ ulRequestID' = ulRequestID /\ tokens' = tokens
<1> USE DEF callerVars, contextVars, queueVars, spiVars, moduleVars
<1>1. CASE Router
  BY <1>1 DEF Router, DeliverResponse, DropResponse
<1>2. CASE Dataplane
  BY <1>2 DEF Dataplane, StartTransaction, PeekControl, PeekData, TestCount, ResetCount, FlowTimesOut, HeaderTransferFails, Abandon,
    ExchangeHeaders, TakeFromQueue, Transfer, TransferFails, EndTransaction
<1>3. CASE SendFrame \/ CountFrame \/ Module \/ UNCHANGED vars
  BY <1>3 DEF SendFrame, CountFrame, Module, ModuleAnswers, ModuleForgets, ModuleReports, vars
<1>4. QED
  BY <1>1, <1>2, <1>3

\* The steps that neither ask for a context nor give one back.
Between(t) == Send(t) \/ CountPacket(t) \/ Wait(t) \/ StopWaiting(t)

\* They leave the semaphore and the identifiers alone.
LEMMA BetweenStays ==
  ASSUME TypeOK, NEW t \in Tasks, Between(t)
  PROVE  /\ tokens' = tokens /\ pxRequestCtx' = pxRequestCtx /\ ulRequestID' = ulRequestID
         /\ pc' = [pc EXCEPT ![t] = pc'[t]]
         /\ pc[t] \notin {"idle", "find"} /\ pc'[t] \notin {"idle", "find"}
<1> USE DEF TypeOK, callerVars, contextVars, queueVars, spiVars, moduleVars
<1>1. CASE Send(t)
  BY <1>1 DEF Send, SendToDataplane, SendFails
<1>2. CASE CountPacket(t)
  BY <1>2 DEF CountPacket
<1>3. CASE Wait(t)
  BY <1>3 DEF Wait, WaitSucceeds, WaitTimesOut
<1>4. CASE StopWaiting(t)
  BY <1>4 DEF StopWaiting
<1>5. QED
  BY <1>1, <1>2, <1>3, <1>4 DEF Between

\* A token is out for each task that has asked for a context.
LEMMA TokenNext == TypeOK /\ TokenInv /\ [Next]_vars => TokenInv' /\ tokens' \in 0..Cardinality(Contexts)
<1> SUFFICES ASSUME TypeOK, TokenInv, [Next]_vars PROVE TokenInv' /\ tokens' \in 0..Cardinality(Contexts)
  OBVIOUS
<1>1. /\ IsFiniteSet(Asking) /\ Cardinality(Asking) \in Nat /\ Cardinality(Contexts) \in Nat
      /\ Cardinality(Asking') \in Nat /\ Cardinality(Asking') <= Cardinality(Contexts)
  BY TaskSets DEF Asking
<1>2. SUFFICES TokenInv'
  BY <1>1 DEF TokenInv
<1>3. ASSUME NEW t \in Tasks, TakeToken(t) PROVE TokenInv'
  <2>1. t \notin Asking /\ Asking' = Asking \cup {t} /\ tokens' = tokens - 1
    BY <1>3 DEF TakeToken, Asking, TypeOK
  <2>2. Cardinality(Asking') = Cardinality(Asking) + 1
    BY <1>1, <2>1, FS_AddElement, Zenon
  <2>3. QED
    BY <1>1, <2>1, <2>2 DEF TokenInv
<1>4. ASSUME NEW t \in Tasks, ClearCtx(t) PROVE TokenInv'
  <2>1. t \in Asking /\ Asking' = Asking \ {t} /\ tokens' = tokens + 1
    BY <1>4 DEF ClearCtx, Asking, TypeOK
  <2>2. Cardinality(Asking') = Cardinality(Asking) - 1
    BY <1>1, <2>1, FS_RemoveElement, Zenon
  <2>3. QED
    BY <1>1, <2>1, <2>2 DEF TokenInv
<1>5. ASSUME NEW t \in Tasks, FindAvailableCtx(t) PROVE TokenInv'
  <2>1. Asking' = Asking /\ tokens' = tokens
    BY <1>5 DEF FindAvailableCtx, Asking, TypeOK
  <2>2. QED
    BY <2>1 DEF TokenInv
<1>6. ASSUME NEW t \in Tasks, Between(t) PROVE TokenInv'
  <2>1. Asking' = Asking /\ tokens' = tokens
    BY <1>6, BetweenStays DEF Asking, TypeOK
  <2>2. QED
    BY <2>1 DEF TokenInv
<1>7. CASE Router \/ SendFrame \/ CountFrame \/ Dataplane \/ Module \/ UNCHANGED vars
  BY <1>7, OnlyCallers DEF TokenInv, Asking
<1>8. QED
  BY <1>3, <1>4, <1>5, <1>6, <1>7 DEF Next, RequesterStep, Request, Between

\* A context in use belongs to one task.
LEMMA OwnerNext == TypeOK /\ OwnerInv /\ [Next]_vars => OwnerInv'
<1> SUFFICES ASSUME TypeOK, OwnerInv, [Next]_vars PROVE OwnerInv'
  OBVIOUS
<1>1. ASSUME NEW t \in Tasks, TakeToken(t) PROVE OwnerInv'
  <2>1. Owners' = Owners /\ pxRequestCtx' = pxRequestCtx /\ ulRequestID' = ulRequestID
    BY <1>1 DEF TakeToken, Owners, TypeOK
  <2>2. QED
    BY <2>1 DEF OwnerInv
<1>2. ASSUME NEW t \in Tasks, FindAvailableCtx(t) PROVE OwnerInv'
  <2>1. t \notin Owners /\ Owners' = Owners \cup {t}
    BY <1>2 DEF FindAvailableCtx, Owners, TypeOK
  <2>2. PICK c \in Contexts, id \in NextRequestIDs :
          /\ ulRequestID[c] = 0
          /\ ulRequestID' = [ulRequestID EXCEPT ![c] = id]
          /\ pxRequestCtx' = [pxRequestCtx EXCEPT ![t] = c]
    BY <1>2 DEF FindAvailableCtx
  <2>3. id # 0
    BY DEF NextRequestIDs
  <2>4. ulRequestID'[c] # 0 /\ \A d \in Contexts : d # c => ulRequestID'[d] = ulRequestID[d]
    BY <2>2, <2>3 DEF TypeOK
  <2>5. pxRequestCtx'[t] = c /\ \A u \in Tasks : u # t => pxRequestCtx'[u] = pxRequestCtx[u]
    BY <2>2 DEF TypeOK
  <2>6. Owners \subseteq Tasks /\ \A u \in Owners : pxRequestCtx[u] \in Contexts /\ pxRequestCtx[u] # c
    BY <2>2 DEF OwnerInv, Owners, TypeOK
  <2>7. QED
    BY <2>1, <2>4, <2>5, <2>6 DEF OwnerInv
<1>3. ASSUME NEW t \in Tasks, ClearCtx(t) PROVE OwnerInv'
  <2>1. t \in Owners /\ Owners' = Owners \ {t}
    BY <1>3 DEF ClearCtx, Owners, TypeOK
  <2>2. pxRequestCtx' = pxRequestCtx /\ ulRequestID' = [ulRequestID EXCEPT ![pxRequestCtx[t]] = 0]
    BY <1>3 DEF ClearCtx
  <2>3. /\ pxRequestCtx[t] \in Contexts /\ ulRequestID'[pxRequestCtx[t]] = 0
        /\ \A d \in Contexts : d # pxRequestCtx[t] => ulRequestID'[d] = ulRequestID[d]
    BY <2>2 DEF TypeOK
  <2>4. Owners \subseteq Tasks /\ \A u \in Owners : pxRequestCtx[u] \in Contexts
    BY DEF Owners, TypeOK
  <2>5. QED
    BY <2>1, <2>2, <2>3, <2>4 DEF OwnerInv
<1>4. ASSUME NEW t \in Tasks, Between(t) PROVE OwnerInv'
  <2>1. Owners' = Owners /\ pxRequestCtx' = pxRequestCtx /\ ulRequestID' = ulRequestID
    BY <1>4, BetweenStays DEF Owners, TypeOK
  <2>2. QED
    BY <2>1 DEF OwnerInv
<1>5. CASE Router \/ SendFrame \/ CountFrame \/ Dataplane \/ Module \/ UNCHANGED vars
  BY <1>5, OnlyCallers DEF OwnerInv, Owners
<1>6. QED
  BY <1>1, <1>2, <1>3, <1>4, <1>5 DEF Next, RequesterStep, Request, Between

-----------------------------------------------------------------------------
(* Packets and their count.                                                *)

\* The types of the two sides of the balance.
SidesTyped ==
  /\ IsFiniteSet(Uncounted) /\ Cardinality(Uncounted) \in Nat
  /\ Sending \in Nat /\ Held \in Nat /\ ulTxPacketsWaiting \in Int
  /\ Len(ctrlQueue) \in Nat /\ dataQueue \in Nat

\* They follow from the types, before and after a step.
LEMMA BalanceTypes == (TypeOK => SidesTyped) /\ (TypeOK' => SidesTyped')
<1> SUFFICES (TypeOK => SidesTyped)
  BY PTL
<1> SUFFICES ASSUME TypeOK PROVE SidesTyped
  OBVIOUS
<1>1. IsFiniteSet(Uncounted) /\ Cardinality(Uncounted) \in Nat
  BY TaskSets DEF Uncounted
<1>2. Sending \in Nat /\ Held \in Nat
  BY DEF Sending, Held
<1>3. ulTxPacketsWaiting \in Int /\ Len(ctrlQueue) \in Nat /\ dataQueue \in Nat
  BY DEF TypeOK
<1>4. QED
  BY <1>1, <1>2, <1>3 DEF SidesTyped

\* The balance is kept by a step that leaves its terms alone.
LEMMA BalanceSame ==
  ASSUME Balance, pc' = pc, framePc' = framePc, pxTxBuff' = pxTxBuff,
         ctrlQueue' = ctrlQueue, dataQueue' = dataQueue, ulTxPacketsWaiting' = ulTxPacketsWaiting
  PROVE  Balance'
  BY DEF Balance, Uncounted, Sending, Held

\* A request is first queued and then counted.
LEMMA BalanceRequest ==
  ASSUME TypeOK, TypeOK', Balance, NEW t \in Tasks, Request(t)
  PROVE  Balance'
<1> USE DEF callerVars, contextVars, queueVars, spiVars, moduleVars
<1>1. SidesTyped /\ SidesTyped'
  BY BalanceTypes
<1>2. pxTxBuff' = pxTxBuff /\ framePc' = framePc /\ dataQueue' = dataQueue
  BY DEF Request, Send, Wait, TakeToken, FindAvailableCtx, SendToDataplane, SendFails, CountPacket,
    WaitSucceeds, WaitTimesOut, StopWaiting, ClearCtx
<1>3. Sending' = Sending /\ Held' = Held
  BY <1>2 DEF Sending, Held
<1>4. CASE SendToDataplane(t)
  <2>1. t \notin Uncounted /\ Uncounted' = Uncounted \cup {t}
    BY <1>4 DEF SendToDataplane, Uncounted, TypeOK
  <2>2. Cardinality(Uncounted') = Cardinality(Uncounted) + 1
    BY <1>1, <2>1, FS_AddElement, Zenon DEF SidesTyped
  <2>3. Len(ctrlQueue') = Len(ctrlQueue) + 1 /\ ulTxPacketsWaiting' = ulTxPacketsWaiting
    BY <1>4 DEF SendToDataplane, TypeOK
  <2>4. dataQueue' = dataQueue
    BY <1>2
  <2>5. QED
    BY ONLY <1>1, <1>3, <2>2, <2>3, <2>4, Balance DEF Balance, SidesTyped
<1>5. CASE CountPacket(t)
  <2>1. t \in Uncounted /\ Uncounted' = Uncounted \ {t}
    BY <1>5 DEF CountPacket, Uncounted, TypeOK
  <2>2. Cardinality(Uncounted') = Cardinality(Uncounted) - 1
    BY <1>1, <2>1, FS_RemoveElement, Zenon DEF SidesTyped
  <2>3. ctrlQueue' = ctrlQueue /\ ulTxPacketsWaiting' = ulTxPacketsWaiting + 1
    BY <1>5 DEF CountPacket
  <2>4. dataQueue' = dataQueue /\ Sending' = Sending /\ Held' = Held
    BY <1>2, <1>3
  <2>5. ulTxPacketsWaiting' + Cardinality(Uncounted') = ulTxPacketsWaiting + Cardinality(Uncounted)
    BY ONLY <1>1, <2>2, <2>3 DEF SidesTyped
  <2>6. Len(ctrlQueue') = Len(ctrlQueue)
    BY <2>3
  <2>7. QED
    BY ONLY <1>1, <2>4, <2>5, <2>6, Balance DEF Balance, SidesTyped
<1>6. CASE ~SendToDataplane(t) /\ ~CountPacket(t)
  <2>1. Uncounted' = Uncounted
    BY <1>6 DEF Uncounted, TypeOK, Request, Send, Wait, TakeToken, FindAvailableCtx, SendFails,
      WaitSucceeds, WaitTimesOut, StopWaiting, ClearCtx
  <2>2. /\ ctrlQueue' = ctrlQueue
        /\ ulTxPacketsWaiting' = ulTxPacketsWaiting \/ ulTxPacketsWaiting' = ulTxPacketsWaiting + 1
    BY <1>6 DEF Request, Send, Wait, TakeToken, FindAvailableCtx, SendFails,
      WaitSucceeds, WaitTimesOut, StopWaiting, ClearCtx
  <2>3. QED
    BY <1>1, <1>2, <1>3, <2>1, <2>2 DEF Balance, SidesTyped
<1>7. QED
  BY <1>4, <1>5, <1>6

\* A reset that takes the count of no frame finds nothing to count.
LEMMA BalanceDataplane ==
  ASSUME TypeOK, TypeOK', PeekInv, Balance, Dataplane, ~countLost'
  PROVE  Balance'
<1> USE DEF callerVars, contextVars, queueVars, spiVars, moduleVars
<1>1. SidesTyped /\ SidesTyped'
  BY BalanceTypes
<1>2. pc' = pc /\ framePc' = framePc
  BY DEF Dataplane, StartTransaction, PeekControl, PeekData, TestCount, ResetCount, FlowTimesOut, HeaderTransferFails, Abandon,
    ExchangeHeaders, TakeFromQueue, Transfer, TransferFails, EndTransaction
<1>3. Uncounted' = Uncounted /\ Sending' = Sending
  BY <1>2 DEF Uncounted, Sending
<1>4. CASE ResetCount
  <2>1. /\ ctrlQueue' = ctrlQueue /\ dataQueue' = dataQueue /\ pxTxBuff' = pxTxBuff
        /\ ulTxPacketsWaiting' = 0 /\ ~(dataQueue > Sending)
    BY <1>4 DEF ResetCount, Sending
  <2>2. ctrlQueue = <<>> /\ pxTxBuff = NoPacket
    BY <1>4 DEF ResetCount, PeekInv
  <2>3. Len(ctrlQueue') = 0 /\ Held' = 0
    BY <2>1, <2>2 DEF Held
  <2>4. QED
    BY <1>1, <1>3, <2>1, <2>3 DEF Balance, SidesTyped
<1>5. CASE TakeFromQueue
  <2>1. ulTxPacketsWaiting' = ulTxPacketsWaiting /\ Held = 0 /\ Held' \in {0, 1}
    BY <1>5 DEF TakeFromQueue, PeekInv, Held
  <2>2. CASE source = "control"
    <3>1. ctrlQueue # <<>> /\ ctrlQueue' = Tail(ctrlQueue) /\ dataQueue' = dataQueue
      BY <1>5, <2>2 DEF TakeFromQueue, PeekInv
    <3>2. Len(ctrlQueue') = Len(ctrlQueue) - 1
      BY <3>1, TailType DEF TypeOK
    <3>3. QED
      BY ONLY <1>1, <1>3, <2>1, <3>1, <3>2, Balance DEF Balance, SidesTyped
  <2>3. CASE source = "data"
    <3>1. ctrlQueue' = ctrlQueue /\ dataQueue' = dataQueue - 1
      BY <1>5, <2>3 DEF TakeFromQueue
    <3>2. QED
      BY <1>1, <1>3, <2>1, <3>1 DEF Balance, SidesTyped
  <2>4. CASE source = "none"
    <3>1. ctrlQueue' = ctrlQueue /\ dataQueue' = dataQueue /\ pxTxBuff' = NoPacket
      BY <1>5, <2>4 DEF TakeFromQueue
    <3>2. Held' = 0
      BY <3>1 DEF Held
    <3>3. QED
      BY <1>1, <1>3, <2>1, <3>1, <3>2 DEF Balance, SidesTyped
  <2>5. QED
    BY <2>2, <2>3, <2>4 DEF TypeOK
<1>6. CASE EndTransaction
  <2>1. /\ ctrlQueue' = ctrlQueue /\ dataQueue' = dataQueue /\ Held' = 0
        /\ ulTxPacketsWaiting' = ulTxPacketsWaiting - Held
    BY <1>1, <1>6 DEF EndTransaction, Held, SidesTyped
  <2>2. QED
    BY <1>1, <1>3, <2>1 DEF Balance, SidesTyped
<1>7. CASE ~ResetCount /\ ~TakeFromQueue /\ ~EndTransaction
  <2>1. /\ ctrlQueue' = ctrlQueue /\ dataQueue' = dataQueue /\ pxTxBuff' = pxTxBuff
        /\ ulTxPacketsWaiting' = ulTxPacketsWaiting
    BY <1>7 DEF Dataplane, StartTransaction, PeekControl, PeekData, TestCount, FlowTimesOut, HeaderTransferFails, Abandon,
      ExchangeHeaders, Transfer, TransferFails
  <2>2. QED
    BY <1>2, <2>1, BalanceSame
<1>8. QED
  BY <1>4, <1>5, <1>6, <1>7

\* Every step keeps the balance, but for that reset.
LEMMA BalanceKept ==
  ASSUME TypeOK, TypeOK', PeekInv, Balance, [Next]_vars, ~countLost'
  PROVE  Balance'
<1> USE DEF callerVars, contextVars, queueVars, spiVars, moduleVars
<1>1. SidesTyped /\ SidesTyped'
  BY BalanceTypes
<1>2. CASE SendFrame
  <2>1. /\ pc' = pc /\ ctrlQueue' = ctrlQueue /\ pxTxBuff' = pxTxBuff
        /\ ulTxPacketsWaiting' = ulTxPacketsWaiting /\ dataQueue' = dataQueue + 1
    BY <1>2 DEF SendFrame
  <2>2. Uncounted' = Uncounted /\ Held' = Held /\ Sending = 0 /\ Sending' = 1
    BY <1>2, <2>1 DEF SendFrame, Uncounted, Held, Sending
  <2>3. QED
    BY ONLY <1>1, <2>1, <2>2, Balance DEF Balance, SidesTyped
<1>3. CASE CountFrame
  <2>1. /\ pc' = pc /\ ctrlQueue' = ctrlQueue /\ pxTxBuff' = pxTxBuff
        /\ ulTxPacketsWaiting' = ulTxPacketsWaiting + 1 /\ dataQueue' = dataQueue
    BY <1>3 DEF CountFrame
  <2>2. Uncounted' = Uncounted /\ Held' = Held /\ Sending = 1 /\ Sending' = 0
    BY <1>3, <2>1 DEF CountFrame, Uncounted, Held, Sending
  <2>3. QED
    BY <1>1, <2>1, <2>2 DEF Balance, SidesTyped
<1>4. CASE Router \/ Module \/ UNCHANGED vars
  <2>1. /\ pc' = pc /\ framePc' = framePc /\ pxTxBuff' = pxTxBuff /\ ctrlQueue' = ctrlQueue
        /\ dataQueue' = dataQueue /\ ulTxPacketsWaiting' = ulTxPacketsWaiting
    BY <1>4 DEF Router, DeliverResponse, DropResponse, Module, ModuleAnswers, ModuleForgets,
      ModuleReports, vars
  <2>2. QED
    BY <2>1, BalanceSame
<1>5. QED
  BY <1>2, <1>3, <1>4, BalanceRequest, BalanceDataplane DEF Next, RequesterStep

\* A count that was lost stays so.
LEMMA LostStays == countLost /\ [Next]_vars => countLost'
<1> SUFFICES ASSUME countLost, [Next]_vars PROVE countLost'
  OBVIOUS
<1>1. CASE ResetCount
  BY <1>1, Zenon DEF ResetCount
<1>2. CASE ~ResetCount
  BY <1>2 DEF Next, RequesterStep, Request, Send, Wait, TakeToken, FindAvailableCtx, SendToDataplane, SendFails,
    CountPacket, WaitSucceeds, WaitTimesOut, StopWaiting, ClearCtx, Router, DeliverResponse, DropResponse,
    SendFrame, CountFrame, Dataplane, StartTransaction, PeekControl, PeekData, TestCount, FlowTimesOut,
    HeaderTransferFails, Abandon, ExchangeHeaders, TakeFromQueue, Transfer, TransferFails, EndTransaction,
    Module, ModuleAnswers, ModuleForgets, ModuleReports, vars, queueVars
<1>3. QED
  BY <1>1, <1>2

\* Every step keeps the balance or loses a count.
LEMMA BalanceNext ==
  ASSUME TypeOK, TypeOK', PeekInv, BalanceInv, [Next]_vars
  PROVE  BalanceInv'
  BY BalanceKept, LostStays DEF BalanceInv

-----------------------------------------------------------------------------
(* The theorems.                                                           *)

\* The invariant holds at the start.
LEMMA InvInit == Init => Inv
<1> SUFFICES ASSUME Init PROVE Inv
  OBVIOUS
<1>1. TypeOK /\ PeekInv
  BY TypeInit
<1>2. AnnouncedInv
  BY DEF Init, AnnouncedInv
<1>3. Asking = {} /\ Owners = {} /\ Uncounted = {}
  BY DEF Init, Asking, Owners, Uncounted
<1>4. TokenInv
  BY <1>3, TaskSets, FS_EmptySet DEF Init, TokenInv
<1>5. OwnerInv
  BY <1>3 DEF Init, OwnerInv
<1>6. Sending = 0 /\ Held = 0 /\ Len(ctrlQueue) = 0 /\ dataQueue = 0 /\ ulTxPacketsWaiting = 0
  BY DEF Init, Sending, Held
<1>7. BalanceInv
  BY <1>3, <1>6, FS_EmptySet DEF BalanceInv, Balance
<1>8. QED
  BY <1>1, <1>2, <1>4, <1>5, <1>7 DEF Inv

\* Every step keeps the invariant.
LEMMA InvNext == Inv /\ [Next]_vars => Inv'
<1> SUFFICES ASSUME Inv, [Next]_vars PROVE Inv'
  OBVIOUS
<1> USE DEF Inv
<1>1. TokenInv' /\ tokens' \in 0..Cardinality(Contexts)
  BY TokenNext
<1>2. OwnerInv'
  BY OwnerNext
<1>3. AnnouncedInv'
  BY AnnouncedNext
<1>4. TypeOK' /\ PeekInv'
  <2>1. ASSUME NEW t \in Tasks, RequesterStep(t) PROVE TypeOK' /\ PeekInv'
    BY <1>1, <2>1, TypeRequest
  <2>2. CASE Router
    BY <2>2, TypeRouter
  <2>3. CASE Dataplane
    BY <2>3, TypeDataplane
  <2>4. CASE SendFrame \/ CountFrame \/ Module
    BY <2>4, TypeOutside
  <2>5. CASE UNCHANGED vars
    <3>1. lengths' \in BOOLEAN
      BY <2>5, Zenon DEF TypeOK, vars, spiVars
    <3>2. QED
      BY <2>5, <3>1 DEF TypeOK, PeekInv, vars, callerVars, contextVars, queueVars, spiVars, moduleVars
  <2>6. QED
    BY <2>1, <2>2, <2>3, <2>4, <2>5 DEF Next
<1>5. BalanceInv'
  BY <1>4, BalanceNext
<1>6. QED
  BY <1>1, <1>2, <1>3, <1>4, <1>5

\* The invariant holds in every reachable state.
LEMMA InvHolds == Spec => []Inv
  BY InvInit, InvNext, PTL DEF Spec

\* Every variable keeps its type; in particular the semaphore counts no more
\* than there are contexts, though nothing in xSendIPCRequest bounds it.
THEOREM TypeCorrect == Spec => []TypeOK
<1>1. Inv => TypeOK
  BY DEF Inv
<1>2. QED
  BY <1>1, InvHolds, PTL

\* A task that starts a request finds a token, one that has a token finds a
\* context that is free, and nobody else uses it.
THEOREM ContextIsFound == Spec => []RequestFindsContext
<1>1. Inv => RequestFindsContext
  <2> SUFFICES ASSUME Inv, NEW t \in Tasks
               PROVE  /\ pc[t] = "idle" => tokens > 0
                      /\ pc[t] = "find" => \E c \in Contexts : ulRequestID[c] = 0
                      /\ pc[t] \notin {"idle", "find"} =>
                           \A u \in Tasks \ {t} : pc[u] \notin {"idle", "find"} => pxRequestCtx[u] # pxRequestCtx[t]
    BY DEF RequestFindsContext
  <2>1. ASSUME pc[t] = "idle" PROVE tokens > 0
    <3>1. Asking \in SUBSET Tasks /\ t \notin Asking
      BY <2>1 DEF Asking
    <3>2. /\ Cardinality(Asking) \in Nat /\ Cardinality(Contexts) \in Nat
          /\ Cardinality(Asking) < Cardinality(Contexts)
      BY <3>1, TaskSets
    <3>3. QED
      BY <3>2 DEF Inv, TokenInv
  <2>2. ASSUME pc[t] = "find", \A c \in Contexts : ulRequestID[c] # 0 PROVE FALSE
    <3> DEFINE owner == [c \in Contexts |-> CHOOSE u \in Owners : pxRequestCtx[u] = c]
    <3>1. \A c \in Contexts : owner[c] \in Owners /\ pxRequestCtx[owner[c]] = c
      BY <2>2 DEF Inv, OwnerInv
    <3>2. owner \in [Contexts -> Owners]
      BY <3>1
    <3> HIDE DEF owner
    <3>3. Owners \in SUBSET Tasks /\ t \notin Owners
      BY <2>2 DEF Owners
    <3>4. IsFiniteSet(Owners) /\ Cardinality(Owners) < Cardinality(Contexts)
      BY <3>3, TaskSets
    <3>5. \E c, d \in Contexts : c # d /\ owner[c] = owner[d]
      BY <3>2, <3>4, FS_PigeonHole
    <3>6. QED
      BY <3>1, <3>5
  <2>3. ASSUME pc[t] \notin {"idle", "find"}, NEW u \in Tasks \ {t}, pc[u] \notin {"idle", "find"}
        PROVE  pxRequestCtx[u] # pxRequestCtx[t]
    BY <2>3 DEF Inv, OwnerInv, Owners
  <2>4. QED
    BY <2>1, <2>2, <2>3
<1>2. QED
  BY <1>1, InvHolds, PTL

\* What a context holds answers the request it was given to last.
THEOREM ResponseMatches == Spec => []AnswerMatches
<1> USE DEF callerVars, contextVars, queueVars, spiVars, moduleVars
<1>1. Init => AnswerMatches
  BY DEF Init, AnswerMatches
<1>2. Inv /\ AnswerMatches /\ [Next]_vars => AnswerMatches'
  <2> SUFFICES ASSUME TypeOK, AnswerMatches, [Next]_vars PROVE AnswerMatches'
    BY DEF Inv
  <2>1. ASSUME NEW c \in Contexts, NEW id \in NextRequestIDs,
               ulRequestID' = [ulRequestID EXCEPT ![c] = id],
               pxRxPbuf' = [pxRxPbuf EXCEPT ![c] = NoPacket]
        PROVE  AnswerMatches'
    BY <2>1 DEF AnswerMatches, TypeOK
  <2>2. ASSUME NEW t \in Tasks, ClearCtx(t) PROVE AnswerMatches'
    <3>1. /\ ulRequestID' = [ulRequestID EXCEPT ![pxRequestCtx[t]] = 0]
          /\ pxRxPbuf' = [pxRxPbuf EXCEPT ![pxRequestCtx[t]] = NoPacket]
      BY <2>2 DEF ClearCtx
    <3>2. QED
      BY <3>1 DEF AnswerMatches, TypeOK
  <2>3. CASE DeliverResponse
    <3>1. PICK c \in Awaiting(Head(respBuffer)) : pxRxPbuf' = [pxRxPbuf EXCEPT ![c] = Head(respBuffer)]
      BY <2>3 DEF DeliverResponse
    <3>2. c \in Contexts /\ ulRequestID[c] = Head(respBuffer) /\ ulRequestID' = ulRequestID
      BY <2>3 DEF DeliverResponse, Awaiting
    <3>3. QED
      BY <3>1, <3>2 DEF AnswerMatches, TypeOK
  <2>4. ASSUME ulRequestID' = ulRequestID, pxRxPbuf' = pxRxPbuf PROVE AnswerMatches'
    BY <2>4 DEF AnswerMatches
  <2>5. ASSUME NEW t \in Tasks, Between(t) \/ TakeToken(t) PROVE AnswerMatches'
    <3>1. ulRequestID' = ulRequestID /\ pxRxPbuf' = pxRxPbuf
      BY <2>5 DEF TakeToken, Between, Send, SendToDataplane, SendFails, CountPacket, Wait, WaitSucceeds,
        WaitTimesOut, StopWaiting
    <3>2. QED
      BY <2>4, <3>1
  <2>6. ASSUME NEW t \in Tasks, FindAvailableCtx(t) PROVE AnswerMatches'
    BY <2>1, <2>6 DEF FindAvailableCtx
  <2>7. CASE DropResponse \/ SendFrame \/ CountFrame \/ Module \/ UNCHANGED vars
    <3>1. ulRequestID' = ulRequestID /\ pxRxPbuf' = pxRxPbuf
      BY <2>7 DEF DropResponse, SendFrame, CountFrame, Module, ModuleAnswers, ModuleForgets,
        ModuleReports, vars
    <3>2. QED
      BY <2>4, <3>1
  <2>8. CASE Dataplane
    <3>1. ulRequestID' = ulRequestID /\ pxRxPbuf' = pxRxPbuf
      BY <2>8 DEF Dataplane, StartTransaction, PeekControl, PeekData, TestCount, ResetCount, FlowTimesOut, HeaderTransferFails, Abandon,
        ExchangeHeaders, TakeFromQueue, Transfer, TransferFails, EndTransaction
    <3>2. QED
      BY <2>4, <3>1
  <2>9. QED
    BY <2>2, <2>3, <2>5, <2>6, <2>7, <2>8 DEF Next, RequesterStep, Request, Between, Router
<1>3. QED
  BY <1>1, <1>2, InvHolds, PTL DEF Spec

\* As long as no reset has taken the count of a frame (mx_dataplane.c resets it
\* when both queues looked empty), the data plane does not skip its turn while
\* a packet is queued that its sender has counted.
THEOREM OnlyResetForgetsPackets == Spec => []OnlyResetForgets
<1>1. Inv => OnlyResetForgets
  <2> SUFFICES ASSUME Inv, ~countLost, ~Counting, ctrlQueue # <<>> \/ dataQueue > 0
               PROVE  ulTxPacketsWaiting # 0
    BY DEF OnlyResetForgets, Forgotten
  <2>1. Uncounted = {} /\ Sending = 0
    BY DEF Counting, Uncounted, Sending
  <2>2. Cardinality(Uncounted) = 0
    BY <2>1, FS_EmptySet
  <2>3. SidesTyped
    BY BalanceTypes DEF Inv
  <2>4. Len(ctrlQueue) > 0 \/ dataQueue > 0
    BY DEF Inv, TypeOK
  <2>5. QED
    BY <2>1, <2>2, <2>3, <2>4 DEF Inv, BalanceInv, Balance, SidesTyped
<1>2. QED
  BY <1>1, InvHolds, PTL
=============================================================================
