---------------------------- MODULE MQTTAgentProofs ----------------------------
(***************************************************************************)
(* Proofs about MQTTAgent for every number of commands, clients, pending   *)
(* acknowledgments and packet identifiers.  The invariant is built in      *)
(* layers: TypeInv (types and which variable is meaningful where), then    *)
(* Ownership (each command structure is in exactly one place), then        *)
(* AcksInv (what awaits an acknowledgment is what the broker will          *)
(* acknowledge).  Last, MQTTAgent implements CommandLifecycle.             *)
(***************************************************************************)
EXTENDS MQTTAgent, FiniteSetTheorems, TLAPS

Concluding == {"callback", "release", "clear"}

\* Which variable holds something where: a caller holds a command between
\* Agent_GetCommand and the queue, the agent between taking and releasing
\* one, and a return address is set while a return is due.
ControlInv ==
  /\ \A c \in Callers :
       held[c] # NoCommand <=> call[c] \in {"create", "send", "notifyFailed", "release"}
  /\ call[Self] # "idle" => apc = "resubscribe"
  /\ hand # NoCommand <=> apc \in {"execute", "callback", "release"}
  /\ ret # Nowhere <=> apc \in Concluding
  /\ cancelRet # Nowhere <=> \/ apc \in {"cancelQueue", "cancelAcks"}
                             \/ ret \in {"cancelQueue", "cancelAcks"}
  /\ slot # 0 => apc \in Concluding /\ pending[slot].id # Invalid
  /\ apc = "clear" => slot # 0
  /\ \A s \in Slots : pending[s].id # Invalid <=> pending[s].cmd # NoCommand

TypeInv == TypeOK /\ ControlInv

USE CommandsAssumption, CallersAssumption, SizesAssumption, KindsAssumption
    DEF Callers, Slots, PacketIds, Invalid

\* The initial state has the types.
LEMMA TypeInit == Init => TypeInv
<1> SUFFICES ASSUME Init PROVE TypeInv
  OBVIOUS
<1> USE DEF Init
<1>1. /\ pool \subseteq Commands /\ notify \subseteq {"M_QUEUE", "SOCKET_RECV"}
      /\ kind \in [Commands -> Kinds \cup {Nothing}]
      /\ owner \in [Commands -> Callers \cup {NoCaller}]
  OBVIOUS
<1>1b. clean \in BOOLEAN /\ sessionPresent \in BOOLEAN
  BY Zenon
<1>1c. queue \in Seq(Commands)
  OBVIOUS
<1>2. /\ call \in [Callers -> CallPC]
      /\ held \in [Callers -> Commands \cup {NoCommand}]
      /\ owed \in [Callers -> Int]
  BY DEF CallPC
<1>3. /\ apc \in AgentPC /\ hand \in Commands \cup {NoCommand}
      /\ slot \in 0..MaxOutstandingAcks
      /\ ret \in {"cancelQueue", "cancelAcks", "poll", Nowhere}
      /\ cancelRet \in {"connect", "disconnect", Nowhere}
  BY DEF AgentPC
<1>4. /\ pending \in [Slots -> [id : 0..MaxPacketId, cmd : Commands \cup {NoCommand}]]
      /\ nextId \in PacketIds
      /\ records \in [PacketIds -> {"none", "send", "ack"}]
      /\ acks \subseteq [type : Kinds, id : PacketIds]
  BY DEF EmptySlot
<1>5. TypeOK
  BY <1>1, <1>1b, <1>1c, <1>2, <1>3, <1>4 DEF TypeOK
<1>6. ControlInv
  BY DEF ControlInv, Nowhere, EmptySlot, Concluding
<1>7. QED
  BY <1>5, <1>6 DEF TypeInv

\* A queue that takes a command is a queue of commands.
LEMMA AppendType ==
  ASSUME NEW q \in Seq(Commands), NEW m \in Commands
  PROVE  Append(q, m) \in Seq(Commands)
  OBVIOUS

\* Counting a callback up or down keeps the counters' type.
LEMMA AddType ==
  ASSUME NEW f \in [Callers -> Int], NEW x
  PROVE  /\ [f EXCEPT ![x] = @ + 1] \in [Callers -> Int]
         /\ [f EXCEPT ![x] = @ - 1] \in [Callers -> Int]
<1>1. CASE x \in Callers
  BY <1>1
<1>2. CASE x \notin Callers
  BY <1>2
<1>3. QED
  BY <1>1, <1>2

Holding == {"create", "send", "notifyFailed", "release"}

\* One caller moves on, and holds a command exactly where it should.
LEMMA CallerMoves ==
  ASSUME TypeInv, NEW c \in Callers, NEW v \in CallPC, call' = [call EXCEPT ![c] = v],
         \/ held' = held /\ held[c] # NoCommand /\ v \in Holding
         \/ held' = held /\ held[c] = NoCommand /\ v \notin Holding
         \/ held' = [held EXCEPT ![c] = NoCommand] /\ v \notin Holding
  PROVE  /\ call' \in [Callers -> CallPC]
         /\ held' \in [Callers -> Commands \cup {NoCommand}]
         /\ \A d \in Callers : call'[d] = IF d = c THEN v ELSE call[d]
         /\ \A d \in Callers : held'[d] # NoCommand <=> call'[d] \in Holding
<1>1. /\ call \in [Callers -> CallPC] /\ held \in [Callers -> Commands \cup {NoCommand}]
      /\ \A d \in Callers : held[d] # NoCommand <=> call[d] \in Holding
  BY DEF TypeInv, TypeOK, ControlInv, Holding
<1>2. /\ call' \in [Callers -> CallPC]
      /\ \A d \in Callers : call'[d] = IF d = c THEN v ELSE call[d]
  BY <1>1
<1>3. CASE held' = held
  BY <1>1, <1>2, <1>3
<1>4. CASE held' = [held EXCEPT ![c] = NoCommand] /\ v \notin Holding
  BY <1>1, <1>2, <1>4
<1>5. QED
  BY <1>1, <1>2, <1>3, <1>4

\* A caller's step keeps the types.
LEMMA TypeCaller ==
  ASSUME TypeInv, NEW c \in Callers, CallerStep(c)
  PROVE  TypeInv'
<1> USE DEF TypeInv, TypeOK, ControlInv, CallPC, AgentPC, Concluding, Kinds, Nothing,
            Nowhere, callerVars, agentVars, mqttVars
<1>1. CASE GetCommand(c)
  BY <1>1 DEF GetCommand
<1>2. ASSUME NEW k \in Kinds, CreateCommand(c, k)
      PROVE  TypeInv'
  BY <1>2 DEF CreateCommand
<1>3. CASE SendToQueue(c)
  <2>1. CASE Len(queue) < QueueLength
    <3>1. held[c] \in Commands /\ queue \in Seq(Commands)
      BY <1>3 DEF SendToQueue
    <3>2. queue' \in Seq(Commands)
      <4>1. Append(queue, held[c]) \in Seq(Commands)
        BY ONLY <3>1, AppendType
      <4>2. queue' = Append(queue, held[c])
        BY <1>3, <2>1 DEF SendToQueue
      <4>3. QED
        BY <4>1, <4>2, Zenon
    <3>3. owed' \in [Callers -> Int]
      BY <1>3, <2>1, AddType DEF SendToQueue
    <3>4. /\ held' \in [Callers -> Commands \cup {NoCommand}] /\ call' \in [Callers -> CallPC]
          /\ \A d \in Callers : call'[d] = IF d = c THEN "notifySent" ELSE call[d]
          /\ \A d \in Callers : held'[d] # NoCommand <=> call'[d] \in Holding
      BY <1>3, <2>1, CallerMoves DEF SendToQueue, Holding
    <3>5. TypeOK'
      BY <1>3, <3>2, <3>3, <3>4 DEF SendToQueue
    <3>6. ControlInv'
      BY <1>3, <3>4 DEF SendToQueue, Holding
    <3>7. QED
      BY <3>5, <3>6
  <2>2. CASE ~(Len(queue) < QueueLength)
    <3>1. /\ held' \in [Callers -> Commands \cup {NoCommand}] /\ call' \in [Callers -> CallPC]
          /\ \A d \in Callers : call'[d] = IF d = c THEN "notifyFailed" ELSE call[d]
          /\ \A d \in Callers : held'[d] # NoCommand <=> call'[d] \in Holding
      BY <1>3, <2>2, CallerMoves DEF SendToQueue, Holding
    <3>2. TypeOK'
      BY <1>3, <2>2, <3>1 DEF SendToQueue
    <3>3. ControlInv'
      BY <1>3, <2>2, <3>1 DEF SendToQueue, Holding
    <3>4. QED
      BY <3>2, <3>3
  <2>3. QED
    BY <2>1, <2>2
<1>4. CASE NotifyAgent(c)
  <2>1. CASE call[c] = "notifySent"
    <3>1. /\ held' \in [Callers -> Commands \cup {NoCommand}] /\ call' \in [Callers -> CallPC]
          /\ \A d \in Callers : call'[d] = IF d = c THEN "idle" ELSE call[d]
          /\ \A d \in Callers : held'[d] # NoCommand <=> call'[d] \in Holding
      BY <1>4, <2>1, CallerMoves DEF NotifyAgent, Holding
    <3>2. TypeOK'
      BY <1>4, <2>1, <3>1 DEF NotifyAgent, Returns
    <3>3. ControlInv'
      BY <1>4, <2>1, <3>1 DEF NotifyAgent, Returns, Holding
    <3>4. QED
      BY <3>2, <3>3
  <2>2. CASE call[c] = "notifyFailed"
    <3>1. /\ held' \in [Callers -> Commands \cup {NoCommand}] /\ call' \in [Callers -> CallPC]
          /\ \A d \in Callers : call'[d] = IF d = c THEN "release" ELSE call[d]
          /\ \A d \in Callers : held'[d] # NoCommand <=> call'[d] \in Holding
      BY <1>4, <2>2, CallerMoves DEF NotifyAgent, Holding
    <3>2. TypeOK'
      BY <1>4, <2>2, <3>1 DEF NotifyAgent
    <3>3. ControlInv'
      BY <1>4, <2>2, <3>1 DEF NotifyAgent, Holding
    <3>4. QED
      BY <3>2, <3>3
  <2>3. QED
    BY <1>4, <2>1, <2>2 DEF NotifyAgent
<1>5. CASE GiveBack(c)
  <2>1. /\ held' \in [Callers -> Commands \cup {NoCommand}] /\ call' \in [Callers -> CallPC]
        /\ \A d \in Callers : call'[d] = IF d = c THEN "idle" ELSE call[d]
        /\ \A d \in Callers : held'[d] # NoCommand <=> call'[d] \in Holding
    BY <1>5, CallerMoves DEF GiveBack, Holding
  <2>2. pool' \subseteq Commands
    BY <1>5 DEF GiveBack
  <2>3. TypeOK'
    BY <1>5, <2>1, <2>2 DEF GiveBack, Returns
  <2>4. ControlInv'
    BY <1>5, <2>1 DEF GiveBack, Returns, Holding
  <2>5. QED
    BY <2>3, <2>4
<1>6. QED
  BY <1>1, <1>2, <1>3, <1>4, <1>5 DEF CallerStep

\* Receiving leaves the types alone, whoever receives.
LEMMA TypeReceive ==
  ASSUME TypeInv, ReceiveCommand \/ ReceiveNothing
  PROVE  /\ notify' \subseteq {"M_QUEUE", "SOCKET_RECV"}
         /\ queue' \in Seq(Commands)
         /\ ReceiveCommand => hand' \in Commands
         /\ ReceiveNothing => hand' = hand /\ queue' = queue
<1> USE DEF TypeInv, TypeOK
<1>1. CASE ReceiveCommand
  <2>1. queue \in Seq(Commands) /\ queue # <<>>
    BY <1>1 DEF ReceiveCommand
  <2>2. Tail(queue) \in Seq(Commands) /\ Head(queue) \in Commands
    BY <2>1
  <2>3. queue' = Tail(queue) /\ hand' = Head(queue) /\ notify' = {}
    BY <1>1 DEF ReceiveCommand
  <2>4. ~ReceiveNothing
    BY <1>1 DEF ReceiveCommand, ReceiveNothing
  <2>5. QED
    BY <2>2, <2>3, <2>4
<1>2. CASE ReceiveNothing
  <2>1. ~ReceiveCommand
    BY <1>2 DEF ReceiveCommand, ReceiveNothing
  <2>2. QED
    BY <1>2, <2>1 DEF ReceiveNothing
<1>3. QED
  BY <1>1, <1>2

\* The number of commands of a caller is an integer.
LEMMA SubsetCardinality ==
  ASSUME NEW S \in SUBSET Commands
  PROVE  IsFiniteSet(S) /\ Cardinality(S) \in Nat
  BY FS_Subset, FS_CardinalityType

\* The agent's steps that neither touch the pending list nor process a command.
LEMMA TypeAgentFlow ==
  ASSUME TypeInv,
         \/ TlsConnect \/ CancelQueued \/ CancelAcks \/ RunCallback \/ ReleaseCommand
         \/ ClearSlot \/ ConnectFails \/ GetCommandFails \/ NothingToResubscribe
         \/ LoopReceive \/ NothingReceived \/ ProcessLoopFails \/ Disconnect \/ SocketReady
  PROVE  TypeInv'
<1> USE DEF TypeInv, TypeOK, ControlInv, AgentPC, Concluding, Nowhere, callerVars,
            agentVars, mqttVars
<1>1. CASE TlsConnect           BY <1>1 DEF TlsConnect
<1>2. CASE CancelQueued
  <2>1. CASE ReceiveCommand /\ Conclude(0, "cancelQueue")
    BY <1>2, <2>1, TypeReceive DEF CancelQueued, Conclude
  <2>2. CASE ReceiveNothing /\ apc' = "cancelAcks" /\ UNCHANGED <<slot, ret>>
    BY <1>2, <2>2, TypeReceive DEF CancelQueued
  <2>3. QED
    BY <1>2, <2>1, <2>2 DEF CancelQueued
<1>3. CASE CancelAcks           BY <1>3 DEF CancelAcks, Conclude, Occupied
<1>4. CASE RunCallback
  <2>1. owed' \in [Callers -> Int]
    <3>1. owed \in [Callers -> Int]
      OBVIOUS
    <3>2. [owed EXCEPT ![owner[hand]] = @ - 1] \in [Callers -> Int]
      BY <3>1, AddType, Zenon
    <3>3. owed' = [owed EXCEPT ![owner[hand]] = @ - 1]
      BY <1>4 DEF RunCallback
    <3>4. QED
      BY <3>2, <3>3, Zenon
  <2>2. TypeOK'
    BY <1>4, <2>1 DEF RunCallback
  <2>3. ControlInv'
    BY <1>4 DEF RunCallback
  <2>4. QED
    BY <2>2, <2>3
<1>5. CASE ReleaseCommand       BY <1>5 DEF ReleaseCommand
<1>6. CASE ClearSlot            BY <1>6 DEF ClearSlot, EmptySlot
<1>7. CASE ConnectFails         BY <1>7 DEF ConnectFails, EndLoop
<1>8. CASE GetCommandFails      BY <1>8 DEF GetCommandFails
<1>9. CASE NothingToResubscribe BY <1>9 DEF NothingToResubscribe
<1>10. CASE LoopReceive
  BY <1>10, TypeReceive DEF LoopReceive
<1>11. CASE NothingReceived     BY <1>11 DEF NothingReceived
<1>12. CASE ProcessLoopFails    BY <1>12 DEF ProcessLoopFails, EndLoop
<1>13. CASE Disconnect          BY <1>13 DEF Disconnect
<1>14. CASE SocketReady         BY <1>14 DEF SocketReady
<1>15. QED
  BY <1>1, <1>2, <1>3, <1>4, <1>5, <1>6, <1>7, <1>8, <1>9, <1>10, <1>11, <1>12, <1>13, <1>14

\* Finishing a command: a return address is set, and a failure also sets
\* where CancelAll will return to.
LEMMA TypeFinish ==
  ASSUME TypeInv, apc = "execute", NEW success \in BOOLEAN, FinishCommand(success)
  PROVE  /\ apc' = "callback" /\ slot' = 0
         /\ \/ ret' = "poll" /\ cancelRet' = Nowhere
            \/ ret' = "cancelQueue" /\ cancelRet' = "disconnect"
<1>1. cancelRet = Nowhere
  BY DEF TypeInv, TypeOK, ControlInv, Concluding, Nowhere
<1>2. CASE success
  BY <1>1, <1>2 DEF FinishCommand, Conclude
<1>3. CASE ~success
  BY <1>3 DEF FinishCommand, Conclude, EndLoop
<1>4. QED
  BY <1>2, <1>3

\* addAwaitingOperation adds an acknowledgment of the right type.
LEMMA TypeAwait ==
  ASSUME TypeInv, NEW id \in PacketIds, AddAwaitingOperation(id), kind[hand] \in Kinds
  PROVE  acks' \subseteq [type : Kinds, id : PacketIds]
  BY DEF TypeInv, TypeOK, AddAwaitingOperation

\* MQTT_GetPacketId stays within the packet identifiers.
LEMMA NextIdType == ASSUME TypeOK PROVE NextPacketId \in PacketIds
  BY DEF TypeOK, NextPacketId

\* Whatever else a step changes within its type, addAwaitingOperation keeps
\* the invariant.
LEMMA AwaitKeepsTypes ==
  ASSUME TypeInv, apc = "execute", kind[hand] \in Kinds, hand \in Commands,
         NEW id \in PacketIds, AddAwaitingOperation(id),
         UNCHANGED <<pool, kind, owner, queue, notify, callerVars, clean, sessionPresent, owed>>,
         records' \in [PacketIds -> {"none", "send", "ack"}], nextId' \in PacketIds
  PROVE  TypeInv'
<1> USE DEF TypeInv, TypeOK, ControlInv, AgentPC, Concluding, Nowhere, callerVars
<1>1. acks' \subseteq [type : Kinds, id : PacketIds]
  BY TypeAwait
<1>2. CASE CanAwait(id)
  <2>1. /\ \E s \in Slots : /\ pending[s].id = Invalid
                           /\ pending' = [pending EXCEPT ![s] = [id |-> id, cmd |-> hand]]
        /\ hand' = NoCommand /\ apc' = "poll"
        /\ UNCHANGED <<slot, ret, cancelRet>>
    BY <1>2 DEF AddAwaitingOperation, Occupied
  <2>2. TypeOK'
    BY <1>1, <2>1
  <2>3. ControlInv'
    BY <2>1
  <2>4. QED
    BY <2>2, <2>3
<1>3. CASE ~CanAwait(id)
  <2>1. /\ apc' = "callback" /\ slot' = 0
        /\ ret' = "cancelQueue" /\ cancelRet' = "disconnect"
        /\ UNCHANGED <<hand, pending>>
    BY <1>3 DEF AddAwaitingOperation, FinishCommand, Conclude, EndLoop
  <2>2. QED
    BY <1>1, <2>1
<1>4. QED
  BY <1>2, <1>3

\* The steps of MQTTAgentCommand_Publish, _Subscribe and _Unsubscribe.
LEMMA TypeExecute ==
  ASSUME TypeInv, NEW sent \in BOOLEAN,
         ExecuteQoS0(sent) \/ ExecuteQoS1(sent) \/ ExecuteSubscribe(sent)
  PROVE  TypeInv'
<1>0. apc = "execute" /\ kind[hand] \in Kinds /\ hand \in Commands
  BY DEF ExecuteQoS0, ExecuteQoS1, ExecuteSubscribe, Kinds, TypeInv, ControlInv, TypeOK
<1>n. nextId \in PacketIds /\ NextPacketId \in PacketIds
  BY NextIdType DEF TypeInv, TypeOK
<1>1. CASE ExecuteQoS0(sent)
  <2>1. FinishCommand(sent)
    BY <1>1 DEF ExecuteQoS0
  <2>2. QED
    BY <1>0, <1>1, <2>1, TypeFinish
       DEF ExecuteQoS0, TypeInv, TypeOK, ControlInv, AgentPC, Concluding, Nowhere, callerVars, mqttVars
<1>2. CASE ExecuteQoS1(sent)
  <2>1. records' \in [PacketIds -> {"none", "send", "ack"}] /\ nextId' \in PacketIds
    BY <1>2, <1>n DEF ExecuteQoS1, TypeInv, TypeOK
  <2>2. CASE CanReserve(nextId) /\ sent
    <3>1. AddAwaitingOperation(nextId)
      BY <1>2, <2>2 DEF ExecuteQoS1
    <3>2. /\ UNCHANGED <<pool, kind, owner, queue, notify, callerVars, clean, sessionPresent, owed>>
          /\ records' \in [PacketIds -> {"none", "send", "ack"}] /\ nextId' \in PacketIds
      BY <1>2, <2>1 DEF ExecuteQoS1, TypeInv, TypeOK
    <3>3. QED
      BY <1>0, <1>n, <3>1, <3>2, AwaitKeepsTypes
  <2>3. CASE ~(CanReserve(nextId) /\ sent)
    <3>1. FinishCommand(FALSE) /\ UNCHANGED <<hand, pending, acks>>
      BY <1>2, <2>3 DEF ExecuteQoS1
    <3>2. QED
      BY <1>0, <1>2, <2>1, <3>1, TypeFinish
         DEF ExecuteQoS1, TypeInv, TypeOK, ControlInv, AgentPC, Concluding, Nowhere, callerVars, mqttVars
  <2>4. QED
    BY <2>2, <2>3
<1>3. CASE ExecuteSubscribe(sent)
  <2>1. nextId' \in PacketIds
    BY <1>3, <1>n DEF ExecuteSubscribe
  <2>2. CASE sent
    <3>1. AddAwaitingOperation(nextId)
      BY <1>3, <2>2 DEF ExecuteSubscribe
    <3>2. /\ UNCHANGED <<pool, kind, owner, queue, notify, callerVars, clean, sessionPresent, owed>>
          /\ records' \in [PacketIds -> {"none", "send", "ack"}] /\ nextId' \in PacketIds
      BY <1>3, <2>1 DEF ExecuteSubscribe, TypeInv, TypeOK
    <3>3. QED
      BY <1>0, <1>n, <3>1, <3>2, AwaitKeepsTypes
  <2>3. CASE ~sent
    <3>1. FinishCommand(FALSE) /\ UNCHANGED <<hand, pending, acks>>
      BY <1>3, <2>3 DEF ExecuteSubscribe
    <3>2. QED
      BY <1>0, <1>3, <2>1, <3>1, TypeFinish
         DEF ExecuteSubscribe, TypeInv, TypeOK, ControlInv, AgentPC, Concluding, Nowhere, callerVars, mqttVars
  <2>4. QED
    BY <2>2, <2>3
<1>4. QED
  BY <1>1, <1>2, <1>3

\* Connecting, resuming and receiving an acknowledgment.
LEMMA TypeSession ==
  ASSUME TypeInv,
         \/ \E p \in BOOLEAN : Connect(p)
         \/ ResumeSession
         \/ \E a \in acks : ReceiveAck(a)
  PROVE  TypeInv'
<1> USE DEF TypeInv, TypeOK, ControlInv, AgentPC, Concluding, Nowhere, callerVars
<1>1. ASSUME NEW p \in BOOLEAN, Connect(p)
      PROVE  TypeInv'
  <2>1. sessionPresent' \in BOOLEAN /\ clean' \in BOOLEAN
    BY <1>1, Zenon DEF Connect
  <2>2. records' \in [PacketIds -> {"none", "send", "ack"}]
    BY <1>1 DEF Connect
  <2>3. apc' \in {"receive", "resume"}
    BY <1>1 DEF Connect
  <2>4. UNCHANGED <<pool, kind, owner, queue, notify, call, held, hand, slot, ret,
                    cancelRet, pending, nextId, acks, owed>>
    BY <1>1 DEF Connect
  <2>5. apc = "connect"
    BY <1>1 DEF Connect
  <2>6. QED
    BY <2>1, <2>2, <2>3, <2>4, <2>5
<1>2. CASE ResumeSession
  <2> DEFINE dropped == {s \in Occupied :
                \/ ~sessionPresent
                \/ kind[pending[s].cmd] \in {"Subscribe", "Unsubscribe"}}
             cmds == {pending[s].cmd : s \in dropped}
  <2>1. cmds \in SUBSET Commands
    BY DEF Occupied
  <2>2. \A c \in Callers : Cardinality({m \in cmds : owner[m] = c}) \in Nat
    <3>1. \A c \in Callers : {m \in cmds : owner[m] = c} \in SUBSET Commands
      BY <2>1
    <3>2. QED
      BY <3>1, SubsetCardinality
  <2>3. owed' = [c \in Callers |-> owed[c] - Cardinality({m \in cmds : owner[m] = c})]
    BY <1>2 DEF ResumeSession
  <2>4. owed' \in [Callers -> Int]
    <3> HIDE DEF cmds, dropped
    <3>1. QED
      BY <2>2, <2>3
  <2>5. pool' \subseteq Commands
    BY <1>2, <2>1 DEF ResumeSession
  <2>6. /\ pending' \in [Slots -> [id : 0..MaxPacketId, cmd : Commands \cup {NoCommand}]]
        /\ \A s \in Slots : pending'[s].id # Invalid <=> pending'[s].cmd # NoCommand
    BY <1>2 DEF ResumeSession, EmptySlot
  <2>7. /\ records' \in [PacketIds -> {"none", "send", "ack"}]
        /\ acks' \subseteq [type : Kinds, id : PacketIds]
        /\ apc = "resume" /\ apc' \in {"receive", "resubscribe"}
    <3>1. CASE sessionPresent
      <4>1. /\ records' = [i \in PacketIds |-> IF i \in Resendable THEN "ack" ELSE records[i]]
            /\ acks' = acks \cup {[type |-> "QoS1", id |-> i] : i \in Resendable}
            /\ apc = "resume" /\ apc' = "receive"
        BY <1>2, <3>1 DEF ResumeSession
      <4>2. Resendable \subseteq PacketIds /\ "QoS1" \in Kinds
        BY DEF Resendable, Kinds
      <4>3. QED
        BY <4>1, <4>2
    <3>2. CASE ~sessionPresent
      BY <1>2, <3>2 DEF ResumeSession
    <3>3. QED
      BY <3>1, <3>2
  <2>8. sessionPresent' \in BOOLEAN
    BY <1>2, Zenon DEF ResumeSession
  <2>9. UNCHANGED <<kind, owner, queue, notify, call, held, hand, slot, ret, cancelRet,
                    clean, nextId>>
    BY <1>2 DEF ResumeSession
  <2>10. TypeOK'
    BY <2>4, <2>5, <2>6, <2>7, <2>8, <2>9
  <2>11. ControlInv'
    BY <2>6, <2>7, <2>9
  <2>12. QED
    BY <2>10, <2>11
<1>3. ASSUME NEW a \in acks, ReceiveAck(a)
      PROVE  TypeInv'
  <2>a. a.id \in PacketIds
    OBVIOUS
  <2>b. records' \in [PacketIds -> {"none", "send", "ack"}]
    <3>1. records' = records \/ records' = [records EXCEPT ![a.id] = "none"]
      BY <1>3 DEF ReceiveAck
    <3>2. QED
      BY <2>a, <3>1
  <2>1. /\ apc = "poll" /\ acks' \subseteq acks
        /\ UNCHANGED <<pool, kind, owner, queue, notify, call, held, pending, clean,
                       sessionPresent, nextId, owed>>
    BY <1>3 DEF ReceiveAck
  <2>2. CASE apc' = "cancelQueue" /\ cancelRet' = "disconnect" /\ UNCHANGED <<hand, slot, ret>>
    BY <2>1, <2>b, <2>2
  <2>3. CASE UNCHANGED <<apc, hand, slot, ret, cancelRet>>
    BY <2>1, <2>b, <2>3
  <2>4. CASE /\ \E s \in Occupied : hand' = pending[s].cmd /\ Conclude(s, "poll")
             /\ UNCHANGED cancelRet
    BY <2>1, <2>b, <2>4, SMTT(30) DEF Occupied, Conclude
  <2>5. QED
    BY <1>3, <2>2, <2>3, <2>4 DEF ReceiveAck, EndLoop
<1>4. QED
  BY <1>1, <1>2, <1>3

\* The types of all variables hold, and each pointer and return address is
\* set exactly where the code uses it.
LEMMA TypeInvariance == Spec => []TypeInv
<1>1. TypeInv /\ [Next]_vars => TypeInv'
  <2> SUFFICES ASSUME TypeInv, [Next]_vars PROVE TypeInv'
    OBVIOUS
  <2>1. CASE UNCHANGED vars
    BY <2>1 DEF vars, callerVars, agentVars, mqttVars, TypeInv, TypeOK, ControlInv
  <2>2. CASE Next
    BY <2>2, TypeCaller, TypeAgentFlow, TypeExecute, TypeSession DEF Next, AgentStep
  <2>3. QED
    BY <2>1, <2>2
<1>2. QED
  BY <1>1, TypeInit, PTL DEF Spec

\* Every variable keeps its type in every reachable state.
THEOREM TypeCorrect == Spec => []TypeOK
<1>1. TypeInv => TypeOK
  BY DEF TypeInv
<1>2. QED
  BY <1>1, TypeInvariance, PTL

\* A command pointer is set exactly at the places of a caller and of the agent
\* that use it, a return address exactly while a return is due, a slot of the
\* pending list exactly when it has a command (core_mqtt_agent.c takes each of
\* them without looking again).
THEOREM PointersMatchControl == Spec => []ControlInv
<1>1. TypeInv => ControlInv
  BY DEF TypeInv
<1>2. QED
  BY <1>1, TypeInvariance, PTL

-----------------------------------------------------------------------------
(* Ownership of the command structures.                                    *)

Elements(q) == {q[i] : i \in 1..Len(q)}
Distinct(q) == \A i, j \in 1..Len(q) : q[i] = q[j] => i = j

\* A command sent to the queue joins the queued ones.
LEMMA AppendElements ==
  ASSUME NEW q \in Seq(Commands), NEW m \in Commands, m \notin Elements(q), Distinct(q)
  PROVE  Elements(Append(q, m)) = Elements(q) \cup {m} /\ Distinct(Append(q, m))
<1>1. /\ Len(Append(q, m)) = Len(q) + 1
      /\ \A i \in 1..Len(q) : Append(q, m)[i] = q[i]
      /\ Append(q, m)[Len(q) + 1] = m
  OBVIOUS
<1>2. Len(q) \in Nat
  OBVIOUS
<1>3. QED
  BY <1>1, <1>2 DEF Elements, Distinct

\* A command received from the queue leaves the queued ones.
LEMMA TailElements ==
  ASSUME NEW q \in Seq(Commands), q # <<>>, Distinct(q)
  PROVE  /\ Elements(Tail(q)) = Elements(q) \ {Head(q)} /\ Distinct(Tail(q))
         /\ Head(q) \in Elements(q)
<1>1. /\ Len(q) \in Nat /\ Len(q) >= 1
      /\ Len(Tail(q)) = Len(q) - 1
      /\ \A i \in 1..Len(Tail(q)) : Tail(q)[i] = q[i + 1]
      /\ Head(q) = q[1]
  OBVIOUS
<1>2. Distinct(Tail(q))
  BY <1>1 DEF Distinct
<1>3. Head(q) \in Elements(q)
  BY <1>1 DEF Elements
<1>4. ASSUME NEW m \in Elements(Tail(q))
      PROVE  m \in Elements(q) \ {Head(q)}
  BY <1>1 DEF Elements, Distinct
<1>5. ASSUME NEW m \in Elements(q) \ {Head(q)}
      PROVE  m \in Elements(Tail(q))
  <2>1. PICK i \in 1..Len(q) : m = q[i]
    BY DEF Elements
  <2>2. i # 1
    BY <1>1, <2>1
  <2>3. i - 1 \in 1..Len(Tail(q)) /\ Tail(q)[i - 1] = m
    BY <1>1, <2>1, <2>2
  <2>4. QED
    BY <2>3 DEF Elements
<1>6. QED
  BY <1>2, <1>3, <1>4, <1>5

\* Each command is in exactly one place.
Ownership == NoCommandLost /\ NoCommandShared
Inv == TypeInv /\ Ownership

\* At first the pool has every command structure.
LEMMA OwnershipInit == Init => Ownership
  BY DEF Init, Ownership, NoCommandLost, NoCommandShared, Queued, HeldCommands, InHand,
         Awaiting, AwaitingCommands, Occupied, EmptySlot

\* What is left alone stays where it is.
LEMMA SamePlaces ==
  /\ UNCHANGED queue => Queued' = Queued
  /\ UNCHANGED held => HeldCommands' = HeldCommands
  /\ UNCHANGED hand => InHand' = InHand
  /\ UNCHANGED <<slot, pending>> => Awaiting' = Awaiting /\ AwaitingCommands' = AwaitingCommands
  BY DEF Queued, HeldCommands, InHand, Awaiting, AwaitingCommands, Occupied

\* A step that moves nothing.
LEMMA OwnershipStays ==
  ASSUME Ownership, UNCHANGED <<pool, queue, held, hand, slot, pending>>
  PROVE  Ownership'
<1>1. /\ Queued' = Queued /\ HeldCommands' = HeldCommands /\ InHand' = InHand
      /\ Awaiting' = Awaiting /\ AwaitingCommands' = AwaitingCommands
  BY SamePlaces
<1>2. QED
  BY <1>1 DEF Ownership, NoCommandLost, NoCommandShared

\* What one caller's hand does to the commands held by callers.
LEMMA HeldTake ==
  ASSUME TypeInv, Ownership, NEW c \in Callers, NEW m \in Commands, held[c] = NoCommand,
         m \notin HeldCommands, held' = [held EXCEPT ![c] = m]
  PROVE  /\ HeldCommands' = HeldCommands \cup {m}
         /\ \A b, d \in Callers : held'[b] = held'[d] => b = d \/ held'[b] = NoCommand
<1>1. \A d \in Callers : held'[d] = IF d = c THEN m ELSE held[d]
  BY DEF TypeInv, TypeOK
<1>2. QED
  BY <1>1 DEF HeldCommands, Ownership, NoCommandShared

\* What a caller no longer holds is held by no caller.
LEMMA HeldDrop ==
  ASSUME TypeInv, Ownership, NEW c \in Callers, held[c] # NoCommand,
         held' = [held EXCEPT ![c] = NoCommand]
  PROVE  /\ HeldCommands' = HeldCommands \ {held[c]}
         /\ \A b, d \in Callers : held'[b] = held'[d] => b = d \/ held'[b] = NoCommand
         /\ held[c] \in HeldCommands /\ held[c] \in Commands
<1>1. \A d \in Callers : held'[d] = IF d = c THEN NoCommand ELSE held[d]
  BY DEF TypeInv, TypeOK
<1>2. held[c] \in HeldCommands /\ held[c] \in Commands
  BY DEF HeldCommands, TypeInv, TypeOK
<1>3. \A d \in Callers : held[d] = held[c] => d = c
  BY DEF Ownership, NoCommandShared
<1>4. HeldCommands' = HeldCommands \ {held[c]}
  BY <1>1, <1>3 DEF HeldCommands
<1>5. \A b, d \in Callers : held'[b] = held'[d] => b = d \/ held'[b] = NoCommand
  BY <1>1 DEF Ownership, NoCommandShared
<1>6. QED
  BY <1>2, <1>4, <1>5

\* A caller's step keeps ownership: the command goes from the pool to the
\* caller, from there to the queue, or back.
LEMMA OwnershipCaller ==
  ASSUME Inv, NEW c \in Callers, CallerStep(c)
  PROVE  Ownership'
<1> USE DEF Inv
<1>1. CASE GetCommand(c)
  <2>1. PICK m \in pool : pool' = pool \ {m} /\ held' = [held EXCEPT ![c] = m]
    BY <1>1 DEF GetCommand
  <2>2. m \in Commands /\ held[c] = NoCommand /\ m \notin HeldCommands
    BY <1>1, <2>1 DEF GetCommand, TypeInv, TypeOK, ControlInv, Ownership, NoCommandShared
  <2>3. /\ HeldCommands' = HeldCommands \cup {m}
        /\ \A b, d \in Callers : held'[b] = held'[d] => b = d \/ held'[b] = NoCommand
    BY <2>1, <2>2, HeldTake
  <2>4. UNCHANGED <<queue, hand, slot, pending>>
    BY <1>1 DEF GetCommand, agentVars, mqttVars
  <2>5. Queued' = Queued /\ InHand' = InHand /\ Awaiting' = Awaiting /\ AwaitingCommands' = AwaitingCommands
    BY <2>4, SamePlaces
  <2>6. QED
    BY <2>1, <2>2, <2>3, <2>4, <2>5 DEF Ownership, NoCommandLost, NoCommandShared
<1>2. ASSUME NEW k \in Kinds, CreateCommand(c, k)
      PROVE  Ownership'
  BY <1>2, OwnershipStays DEF CreateCommand, agentVars, mqttVars
<1>3. CASE SendToQueue(c)
  <2>0. UNCHANGED <<pool, hand, slot, pending>>
    BY <1>3 DEF SendToQueue, agentVars, mqttVars
  <2>1. CASE Len(queue) < QueueLength
    <3>1. /\ queue' = Append(queue, held[c]) /\ held' = [held EXCEPT ![c] = NoCommand]
          /\ held[c] # NoCommand /\ queue \in Seq(Commands)
      BY <1>3, <2>1 DEF SendToQueue, TypeInv, TypeOK, ControlInv
    <3>2. /\ HeldCommands' = HeldCommands \ {held[c]}
          /\ \A b, d \in Callers : held'[b] = held'[d] => b = d \/ held'[b] = NoCommand
          /\ held[c] \in HeldCommands /\ held[c] \in Commands
      BY <3>1, HeldDrop
    <3>3. held[c] \notin Elements(queue) /\ Distinct(queue)
      BY <3>2 DEF Ownership, NoCommandShared, Queued, Elements, Distinct
    <3>4. Elements(queue') = Elements(queue) \cup {held[c]} /\ Distinct(queue')
      BY <3>1, <3>2, <3>3, AppendElements
    <3>5. Queued' = Queued \cup {held[c]}
      BY <3>4 DEF Queued, Elements
    <3>6. InHand' = InHand /\ Awaiting' = Awaiting /\ AwaitingCommands' = AwaitingCommands
      BY <2>0, SamePlaces
    <3>7. QED
      BY <2>0, <3>2, <3>4, <3>5, <3>6 DEF Ownership, NoCommandLost, NoCommandShared, Distinct
  <2>2. CASE ~(Len(queue) < QueueLength)
    BY <1>3, <2>0, <2>2, OwnershipStays DEF SendToQueue
  <2>3. QED
    BY <2>1, <2>2
<1>4. CASE NotifyAgent(c)
  BY <1>4, OwnershipStays DEF NotifyAgent, mqttVars
<1>5. CASE GiveBack(c)
  <2>1. /\ held[c] # NoCommand /\ pool' = pool \cup {held[c]}
        /\ held' = [held EXCEPT ![c] = NoCommand] /\ UNCHANGED <<queue, hand, slot, pending>>
    BY <1>5 DEF GiveBack, TypeInv, TypeOK, ControlInv, mqttVars
  <2>2. /\ HeldCommands' = HeldCommands \ {held[c]}
        /\ \A b, d \in Callers : held'[b] = held'[d] => b = d \/ held'[b] = NoCommand
        /\ held[c] \in HeldCommands /\ held[c] \in Commands
    BY <2>1, HeldDrop
  <2>3. Queued' = Queued /\ InHand' = InHand /\ Awaiting' = Awaiting /\ AwaitingCommands' = AwaitingCommands
    BY <2>1, SamePlaces
  <2>4. QED
    BY <2>1, <2>2, <2>3 DEF Ownership, NoCommandLost, NoCommandShared
<1>6. QED
  BY <1>1, <1>2, <1>3, <1>4, <1>5 DEF CallerStep

\* Receiving moves a command from the queue to the agent's hand.
LEMMA OwnershipReceive ==
  ASSUME Inv, hand = NoCommand, ReceiveCommand \/ ReceiveNothing,
         UNCHANGED <<pool, held, slot, pending>>
  PROVE  Ownership'
<1> USE DEF Inv
<1>1. CASE ReceiveNothing
  BY <1>1, OwnershipStays DEF ReceiveNothing
<1>2. CASE ReceiveCommand
  <2>1. /\ queue \in Seq(Commands) /\ queue # <<>> /\ queue' = Tail(queue)
        /\ hand' = Head(queue) /\ Distinct(queue)
    BY <1>2 DEF ReceiveCommand, TypeInv, TypeOK, Ownership, NoCommandShared, Distinct
  <2>2. /\ Elements(queue') = Elements(queue) \ {hand'} /\ Distinct(queue')
        /\ hand' \in Elements(queue)
    BY <2>1, TailElements
  <2>3. Queued' = Queued \ {hand'} /\ hand' \in Queued
    BY <2>2 DEF Queued, Elements
  <2>4. hand' \in Commands
    BY <2>1
  <2>5. InHand = {} /\ InHand' = {hand'}
    BY <2>4 DEF InHand
  <2>6. HeldCommands' = HeldCommands /\ Awaiting' = Awaiting /\ AwaitingCommands' = AwaitingCommands
    BY SamePlaces
  <2>7. QED
    BY <2>2, <2>3, <2>4, <2>5, <2>6 DEF Ownership, NoCommandLost, NoCommandShared, Distinct
<1>3. QED
  BY <1>1, <1>2

\* The agent takes the command of pending entry s to conclude it; the entry
\* is cleared later, but no longer counts.
LEMMA OwnershipConclude ==
  ASSUME Inv, hand = NoCommand, slot = 0, NEW s \in Occupied,
         hand' = pending[s].cmd, slot' = s, UNCHANGED <<pool, queue, held, pending>>
  PROVE  Ownership'
<1> USE DEF Inv
<1>1. Awaiting = Occupied /\ Awaiting' = Occupied \ {s} /\ s \in Slots
  BY DEF Awaiting, Occupied
<1>2. hand' \in Commands /\ hand' \in AwaitingCommands
  BY <1>1 DEF TypeInv, TypeOK, ControlInv, Occupied, AwaitingCommands
<1>3. AwaitingCommands' = AwaitingCommands \ {hand'}
  <2>1. \A t \in Occupied : pending[t].cmd = pending[s].cmd => t = s
    BY <1>1 DEF Ownership, NoCommandShared
  <2>2. QED
    BY <1>1, <2>1 DEF AwaitingCommands
<1>4. InHand = {} /\ InHand' = {hand'}
  BY <1>2 DEF InHand
<1>5. Queued' = Queued /\ HeldCommands' = HeldCommands
  BY SamePlaces
<1>6. \A t, u \in Awaiting' : pending'[t].cmd = pending'[u].cmd => t = u
  BY <1>1 DEF Ownership, NoCommandShared
<1>7. QED
  BY <1>2, <1>3, <1>4, <1>5, <1>6 DEF Ownership, NoCommandLost, NoCommandShared

\* The command in hand goes back to the pool.
LEMMA OwnershipRelease ==
  ASSUME Inv, ReleaseCommand
  PROVE  Ownership'
<1> USE DEF Inv
<1>1. /\ hand \in Commands /\ pool' = pool \cup {hand} /\ hand' = NoCommand
      /\ UNCHANGED <<queue, held, slot, pending>>
  BY DEF ReleaseCommand, TypeInv, TypeOK, ControlInv, callerVars, mqttVars
<1>2. InHand = {hand} /\ InHand' = {}
  BY <1>1 DEF InHand
<1>3. /\ Queued' = Queued /\ HeldCommands' = HeldCommands
      /\ Awaiting' = Awaiting /\ AwaitingCommands' = AwaitingCommands
  BY <1>1, SamePlaces
<1>4. QED
  BY <1>1, <1>2, <1>3 DEF Ownership, NoCommandLost, NoCommandShared

\* Clearing the entry that no longer counts changes no place.
LEMMA OwnershipClear ==
  ASSUME Inv, ClearSlot
  PROVE  Ownership'
<1> USE DEF Inv
<1>1. /\ slot \in Slots /\ pending' = [pending EXCEPT ![slot] = EmptySlot] /\ slot' = 0
      /\ UNCHANGED <<pool, queue, held, hand>>
  BY DEF ClearSlot, TypeInv, TypeOK, ControlInv, callerVars
<1>2. \A s \in Slots : pending'[s] = IF s = slot THEN EmptySlot ELSE pending[s]
  BY <1>1 DEF TypeInv, TypeOK
<1>3. Awaiting' = Awaiting /\ 0 \notin Slots
  BY <1>1, <1>2 DEF Awaiting, Occupied, EmptySlot
<1>4. AwaitingCommands' = AwaitingCommands
      /\ \A s \in Awaiting : s \in Slots /\ pending'[s] = pending[s]
  BY <1>1, <1>2, <1>3 DEF AwaitingCommands, Awaiting, Occupied
<1>5. Queued' = Queued /\ HeldCommands' = HeldCommands /\ InHand' = InHand
  BY <1>1, SamePlaces
<1>6. QED
  BY <1>1, <1>3, <1>4, <1>5 DEF Ownership, NoCommandLost, NoCommandShared

\* addAwaitingOperation moves the command in hand to a free entry, or leaves
\* it in hand to be concluded.
LEMMA OwnershipAwait ==
  ASSUME Inv, apc = "execute", NEW id \in PacketIds, AddAwaitingOperation(id),
         UNCHANGED <<pool, queue, held>>
  PROVE  Ownership'
<1> USE DEF Inv
<1>0. slot = 0 /\ hand \in Commands
  BY DEF TypeInv, TypeOK, ControlInv, Concluding
<1>1. CASE CanAwait(id)
  <2>1. PICK s \in Slots \ Occupied :
          pending' = [pending EXCEPT ![s] = [id |-> id, cmd |-> hand]]
    BY <1>1 DEF AddAwaitingOperation
  <2>2. hand' = NoCommand /\ slot' = 0
    BY <1>0, <1>1 DEF AddAwaitingOperation
  <2>3. \A t \in Slots : pending'[t] = IF t = s THEN [id |-> id, cmd |-> hand] ELSE pending[t]
    BY <2>1 DEF TypeInv, TypeOK
  <2>4. Awaiting' = Awaiting \cup {s} /\ s \notin Awaiting /\ Awaiting \subseteq Slots
    BY <1>0, <2>1, <2>2, <2>3 DEF Awaiting, Occupied
  <2>5. AwaitingCommands' = AwaitingCommands \cup {hand}
    BY <2>3, <2>4 DEF AwaitingCommands
  <2>6. InHand = {hand} /\ InHand' = {}
    BY <1>0, <2>2 DEF InHand
  <2>7. Queued' = Queued /\ HeldCommands' = HeldCommands
    BY SamePlaces
  <2>8. \A t, u \in Awaiting' : pending'[t].cmd = pending'[u].cmd => t = u
    <3>1. \A t \in Awaiting : pending[t].cmd # hand
      BY <2>6 DEF Ownership, NoCommandShared, AwaitingCommands
    <3>2. \A t, u \in Awaiting : pending[t].cmd = pending[u].cmd => t = u
      BY DEF Ownership, NoCommandShared
    <3>3. pending'[s].cmd = hand /\ \A t \in Awaiting : pending'[t].cmd = pending[t].cmd
      BY <2>1, <2>3, <2>4
    <3>4. QED
      BY <2>4, <3>1, <3>2, <3>3
  <2>9. QED
    BY <2>5, <2>6, <2>7, <2>8 DEF Ownership, NoCommandLost, NoCommandShared
<1>2. CASE ~CanAwait(id)
  BY <1>0, <1>2, OwnershipStays DEF AddAwaitingOperation, FinishCommand, Conclude
<1>3. QED
  BY <1>1, <1>2

\* MQTTAgent_ResumeSession moves the commands it drops to the pool.
LEMMA OwnershipResume ==
  ASSUME Inv, ResumeSession
  PROVE  Ownership'
<1> USE DEF Inv
<1> DEFINE dropped == {s \in Occupied :
                         \/ ~sessionPresent
                         \/ kind[pending[s].cmd] \in {"Subscribe", "Unsubscribe"}}
           cmds == {pending[s].cmd : s \in dropped}
<1>1. /\ slot = 0 /\ slot' = 0 /\ Awaiting = Occupied
      /\ UNCHANGED <<queue, held, hand>>
  BY DEF ResumeSession, TypeInv, TypeOK, ControlInv, Concluding, callerVars, Awaiting, Occupied
<1>2. /\ pool' = pool \cup cmds
      /\ \A s \in Slots : pending'[s] = IF s \in dropped THEN EmptySlot ELSE pending[s]
  BY DEF ResumeSession
<1>3. Awaiting' = Awaiting \ dropped /\ dropped \subseteq Awaiting /\ Awaiting \subseteq Slots
  BY <1>1, <1>2 DEF Awaiting, Occupied, EmptySlot
<1>4. \A s, t \in Awaiting : pending[s].cmd = pending[t].cmd => s = t
  BY DEF Ownership, NoCommandShared
<1>5. cmds \subseteq AwaitingCommands /\ AwaitingCommands' = AwaitingCommands \ cmds
  <2> HIDE DEF dropped
  <2>1. \A s \in Awaiting' : pending'[s] = pending[s]
    BY <1>2, <1>3
  <2>2. cmds \subseteq AwaitingCommands
    BY <1>3 DEF AwaitingCommands
  <2>3. AwaitingCommands' = {pending[s].cmd : s \in Awaiting'}
    BY <2>1 DEF AwaitingCommands
  <2>4. ASSUME NEW s \in Awaiting'
        PROVE  pending[s].cmd \in AwaitingCommands \ cmds
    BY <1>3, <1>4 DEF AwaitingCommands
  <2>5. ASSUME NEW s \in Awaiting, pending[s].cmd \notin cmds
        PROVE  s \in Awaiting'
    BY <1>3, <2>5
  <2>6. AwaitingCommands \ cmds \subseteq {pending[s].cmd : s \in Awaiting'}
    BY <2>5 DEF AwaitingCommands
  <2>7. QED
    BY <2>2, <2>3, <2>4, <2>6
<1>6. \A s, t \in Awaiting' : pending'[s].cmd = pending'[t].cmd => s = t
  <2> HIDE DEF dropped
  <2>1. QED
    BY <1>2, <1>3, <1>4
<1>7. Queued' = Queued /\ HeldCommands' = HeldCommands /\ InHand' = InHand
  BY <1>1, SamePlaces
<1>8. QED
  <2> HIDE DEF cmds, dropped
  <2>1. QED
    BY <1>1, <1>2, <1>5, <1>6, <1>7 DEF Ownership, NoCommandLost, NoCommandShared

\* An agent's step keeps ownership.
LEMMA OwnershipAgent ==
  ASSUME Inv, AgentStep
  PROVE  Ownership'
<1> USE DEF Inv
<1>1. CASE TlsConnect \/ RunCallback \/ ConnectFails \/ GetCommandFails \/ NothingToResubscribe
           \/ NothingReceived \/ ProcessLoopFails \/ Disconnect
  BY <1>1, OwnershipStays DEF TlsConnect, RunCallback, ConnectFails, GetCommandFails,
     NothingToResubscribe, NothingReceived, ProcessLoopFails, Disconnect, callerVars, mqttVars
<1>2. CASE CancelQueued
  <2>1. hand = NoCommand /\ slot = 0
    BY <1>2 DEF CancelQueued, TypeInv, TypeOK, ControlInv, Concluding
  <2>2. UNCHANGED <<pool, held, slot, pending>>
    BY <1>2, <2>1 DEF CancelQueued, Conclude, callerVars, mqttVars
  <2>3. ReceiveCommand \/ ReceiveNothing
    BY <1>2 DEF CancelQueued
  <2>4. QED
    BY <2>1, <2>2, <2>3, OwnershipReceive
<1>3. CASE CancelAcks
  <2>1. hand = NoCommand /\ slot = 0 /\ UNCHANGED <<pool, queue, held, pending>>
    BY <1>3 DEF CancelAcks, TypeInv, TypeOK, ControlInv, Concluding, callerVars, mqttVars
  <2>2. CASE Occupied = {}
    BY <1>3, <2>1, <2>2, OwnershipStays DEF CancelAcks
  <2>3. CASE Occupied # {}
    BY <1>3, <2>1, <2>3, OwnershipConclude DEF CancelAcks, Conclude
  <2>4. QED
    BY <2>2, <2>3
<1>4. CASE ReleaseCommand
  BY <1>4, OwnershipRelease
<1>5. CASE ClearSlot
  BY <1>5, OwnershipClear
<1>6. CASE \E p \in BOOLEAN : Connect(p)
  BY <1>6, OwnershipStays DEF Connect, callerVars
<1>7. CASE ResumeSession
  BY <1>7, OwnershipResume
<1>8. CASE LoopReceive
  BY <1>8, OwnershipReceive DEF LoopReceive, TypeInv, ControlInv, callerVars, mqttVars
<1>9. ASSUME NEW sent \in BOOLEAN, ExecuteQoS0(sent) \/ ExecuteQoS1(sent) \/ ExecuteSubscribe(sent)
      PROVE  Ownership'
  <2>1. /\ apc = "execute" /\ nextId \in PacketIds /\ slot = 0
        /\ UNCHANGED <<pool, queue, held>>
    BY <1>9 DEF ExecuteQoS0, ExecuteQoS1, ExecuteSubscribe, TypeInv, TypeOK, ControlInv,
                Concluding, callerVars
  <2>2. CASE AddAwaitingOperation(nextId)
    BY <2>1, <2>2, OwnershipAwait
  <2>3. CASE \E success \in BOOLEAN : FinishCommand(success) /\ UNCHANGED <<hand, pending>>
    BY <2>1, <2>3, OwnershipStays DEF FinishCommand, Conclude
  <2>4. QED
    <3>1. CASE ExecuteQoS0(sent)
      BY <2>3, <3>1 DEF ExecuteQoS0, mqttVars
    <3>2. CASE ExecuteQoS1(sent)
      BY <2>2, <2>3, <3>2 DEF ExecuteQoS1
    <3>3. CASE ExecuteSubscribe(sent)
      BY <2>2, <2>3, <3>3 DEF ExecuteSubscribe
    <3>4. QED
      BY <1>9, <3>1, <3>2, <3>3
<1>10. ASSUME NEW a \in acks, ReceiveAck(a)
       PROVE  Ownership'
  <2>1. hand = NoCommand /\ slot = 0 /\ UNCHANGED <<pool, queue, held, pending>>
    BY <1>10 DEF ReceiveAck, TypeInv, TypeOK, ControlInv, Concluding, callerVars
  <2>2. CASE UNCHANGED <<hand, slot>>
    BY <2>1, <2>2, OwnershipStays
  <2>3. CASE \E s \in Occupied : hand' = pending[s].cmd /\ Conclude(s, "poll")
    BY <2>1, <2>3, OwnershipConclude DEF Conclude
  <2>4. QED
    BY <1>10, <2>2, <2>3 DEF ReceiveAck
<1>11. QED
  BY <1>1, <1>2, <1>3, <1>4, <1>5, <1>6, <1>7, <1>8, <1>9, <1>10 DEF AgentStep

\* The inductive invariant of ownership.
LEMMA InvInductive == Spec => []Inv
<1>1. Init => Inv
  BY TypeInit, OwnershipInit DEF Inv
<1>2. TypeInv /\ TypeInv' /\ Inv /\ [Next]_vars => Inv'
  <2> SUFFICES ASSUME TypeInv', Inv, [Next]_vars PROVE Ownership'
    BY DEF Inv
  <2>1. CASE UNCHANGED vars
    BY <2>1, OwnershipStays DEF vars, callerVars, agentVars, mqttVars, Inv
  <2>2. CASE SocketReady
    BY <2>2, OwnershipStays DEF SocketReady, callerVars, agentVars, mqttVars, Inv
  <2>3. QED
    BY <2>1, <2>2, OwnershipCaller, OwnershipAgent DEF Next
<1>3. QED
  BY <1>1, <1>2, TypeInvariance, PTL DEF Spec

\* No error path, cancellation or acknowledgment loses a command structure:
\* each is in the pool, the queue, the pending list or in one task's hands.
THEOREM CommandsAreNotLost == Spec => []NoCommandLost
<1>1. Inv => NoCommandLost
  BY DEF Inv, Ownership
<1>2. QED
  BY <1>1, InvInductive, PTL

\* No command structure ever has two owners.
THEOREM CommandsAreNotShared == Spec => []NoCommandShared
<1>1. Inv => NoCommandShared
  BY DEF Inv, Ownership
<1>2. QED
  BY <1>1, InvInductive, PTL

-----------------------------------------------------------------------------
(* What follows from ownership.                                            *)

\* Each submitted command is queued, awaited or in the agent's hand.
LEMMA SubmittedPlaces ==
  ASSUME Inv
  PROVE  Submitted \subseteq Queued \cup AwaitingCommands \cup InHand
<1>1. apc \in {"execute", "callback"} => hand \in InHand
  BY DEF Inv, TypeInv, ControlInv, InHand
<1>2. QED
  BY <1>1 DEF Submitted

\* createCommand clears and refills a whole structure, but never one that
\* the agent still has to conclude.
THEOREM SubmittedIsNotRewritten == Spec => SubmittedIsImmutable
<1> DEFINE Same == \A m \in Submitted : kind'[m] = kind[m] /\ owner'[m] = owner[m]
<1>1. ASSUME Inv, [Next]_vars
      PROVE  Same \/ UNCHANGED vars
  <2>1. ASSUME UNCHANGED <<kind, owner>>
        PROVE  Same
    BY <2>1
  <2>2. ASSUME NEW c \in Callers, NEW k \in Kinds, CreateCommand(c, k)
        PROVE  Same
    <3>1. held[c] \in HeldCommands
      BY <1>1, <2>2 DEF CreateCommand, HeldCommands, Inv, TypeInv, ControlInv
    <3>2. held[c] \notin Submitted
      BY <1>1, <3>1, SubmittedPlaces DEF Inv, Ownership, NoCommandShared
    <3>3. \A m \in Submitted : m # held[c]
      BY <3>2
    <3>4. /\ kind \in [Commands -> Kinds \cup {Nothing}]
          /\ owner \in [Commands -> Callers \cup {NoCaller}]
      BY <1>1 DEF Inv, TypeInv, TypeOK
    <3>5. \A m \in Submitted : m \in Commands
      BY <1>1, SubmittedPlaces DEF Inv, Ownership, NoCommandLost
    <3>6. QED
      BY <2>2, <3>3, <3>4, <3>5 DEF CreateCommand
  <2>3. ASSUME NEW c \in Callers, CallerStep(c)
        PROVE  Same
    BY <2>1, <2>2, <2>3
       DEF CallerStep, GetCommand, SendToQueue, NotifyAgent, GiveBack
  <2>4. ASSUME AgentStep
        PROVE  Same
    BY <2>1, <2>4
       DEF AgentStep, TlsConnect, CancelQueued, CancelAcks, RunCallback, ReleaseCommand,
           ClearSlot, Connect, ConnectFails, ResumeSession, GetCommandFails,
           NothingToResubscribe, LoopReceive, ExecuteQoS0, ExecuteQoS1, ExecuteSubscribe,
           ReceiveAck, NothingReceived, ProcessLoopFails, Disconnect
  <2>5. QED
    BY <1>1, <2>1, <2>3, <2>4 DEF Next, SocketReady
<1>2. Inv /\ [Next]_vars => [Same]_vars
  BY <1>1
<1>3. QED
  BY <1>2, InvInductive, PTL DEF Spec, SubmittedIsImmutable

\* A queue without duplicates is as long as its set of elements is large.
LEMMA DistinctLength ==
  ASSUME NEW S, NEW q \in Seq(S), Distinct(q)
  PROVE  IsFiniteSet(Elements(q)) /\ Cardinality(Elements(q)) = Len(q)
<1> DEFINE f == [i \in 1..Len(q) |-> q[i]]
<1>1. Len(q) \in Nat
  OBVIOUS
<1>2. f \in Bijection(1..Len(q), Elements(q))
  <2>1. f \in Injection(1..Len(q), Elements(q))
    BY <1>1 DEF Injection, Elements, Distinct, IsInjective
  <2>2. f \in Surjection(1..Len(q), Elements(q))
    BY <1>1 DEF Surjection, Elements
  <2>3. QED
    BY <2>1, <2>2, Zenon DEF Bijection
<1>3. ExistsBijection(1..Len(q), Elements(q))
  BY <1>2 DEF ExistsBijection
<1>4. IsFiniteSet(1..Len(q)) /\ Cardinality(1..Len(q)) = Len(q)
  <2>1. Cardinality(1..Len(q)) = IF 1 > Len(q) THEN 0 ELSE Len(q) - 1 + 1
    BY <1>1, FS_Interval
  <2>2. (IF 1 > Len(q) THEN 0 ELSE Len(q) - 1 + 1) = Len(q)
    BY <1>1
  <2>3. IsFiniteSet(1..Len(q))
    BY <1>1, FS_Interval
  <2>4. QED
    BY <2>1, <2>2, <2>3
<1>5. QED
  BY <1>3, <1>4, FS_Bijection, ZenonT(30)

\* A queue as long as the pool always has room for a command that a caller
\* holds, so addCommandToQueue never reports MQTTSendFailed.
THEOREM SendingNeverFails == Spec => []SendNeverFails
<1>1. ASSUME Inv
      PROVE  SendNeverFails
  <2> SUFFICES ASSUME Cardinality(Commands) <= QueueLength, NEW c \in Callers, call[c] = "send"
               PROVE  Len(queue) < QueueLength
    BY DEF SendNeverFails
  <2>1. held[c] \in HeldCommands
    BY <1>1 DEF Inv, TypeInv, ControlInv, HeldCommands
  <2>2. queue \in Seq(Commands) /\ Distinct(queue) /\ Queued = Elements(queue)
    BY <1>1 DEF Inv, TypeInv, TypeOK, Ownership, NoCommandShared, Distinct, Queued, Elements
  <2>3. held[c] \in Commands /\ held[c] \notin Queued /\ Queued \subseteq Commands
    BY <1>1, <2>1 DEF Inv, Ownership, NoCommandLost, NoCommandShared
  <2>4. IsFiniteSet(Queued) /\ Cardinality(Queued) = Len(queue)
    BY <2>2, DistinctLength
  <2>5. Cardinality(Queued \cup {held[c]}) = Len(queue) + 1
    BY <2>3, <2>4, FS_AddElement
  <2>6. Cardinality(Queued \cup {held[c]}) <= Cardinality(Commands)
    BY <2>3, FS_Subset
  <2>7. Len(queue) \in Nat /\ Cardinality(Commands) \in Nat
    BY <2>2, FS_CardinalityType
  <2>8. QED
    BY <2>5, <2>6, <2>7
<1>2. QED
  BY <1>1, InvInductive, PTL

-----------------------------------------------------------------------------
(***************************************************************************)
(* What awaits an acknowledgment is what the broker will acknowledge.  The *)
(* invariant says what is left of a connection when it ends: no pending    *)
(* entry once MQTTAgent_CancelAll is through, no acknowledgment once the   *)
(* transport is closed.                                                    *)
(***************************************************************************)

\* Before and during the set-up of a connection nothing has been sent on it
\* that the broker could acknowledge.
Unconnected ==
  apc \in {"offline", "connect", "resume", "resubscribe"} \/ cancelRet = "connect"
QuietInv == Unconnected => acks = {}

\* The acknowledgments to come and the operations awaiting them correspond.
Pairing ==
  /\ acks = {[type |-> kind[pending[s].cmd], id |-> pending[s].id] : s \in Awaiting}
  /\ \A a \in acks : a.type = "QoS1" => records[a.id] = "ack"
  /\ \A s, t \in Awaiting : pending[s].id = pending[t].id => s = t

AcksInv == QuietInv /\ NothingAwaitsAcrossConnections /\ AcksMatchOperations

\* AcksMatchOperations is Pairing while the loop runs.
LEMMA MatchIsPairing == AcksMatchOperations <=> (LoopRunning => Pairing)
  BY Zenon DEF AcksMatchOperations, Pairing

\* Nothing sent and nothing pending correspond.
LEMMA EmptyPairs == ASSUME acks = {}, Awaiting = {} PROVE Pairing
  BY DEF Pairing

\* Steps that leave what corresponds alone.
LEMMA PairingStays ==
  ASSUME Pairing, UNCHANGED <<acks, records>>, Awaiting' = Awaiting,
         \A s \in Awaiting : pending'[s] = pending[s] /\ kind'[pending[s].cmd] = kind[pending[s].cmd]
  PROVE  Pairing'
  BY DEF Pairing

\* Unless it is concluding a command, the agent owes nobody a return and
\* every occupied entry awaits its acknowledgment.
LEMMA NotConcluding ==
  ASSUME Inv, apc \notin Concluding
  PROVE  /\ slot = 0 /\ ret = Nowhere /\ Awaiting = Occupied
         /\ apc \notin {"cancelQueue", "cancelAcks"} => cancelRet = Nowhere
<1>1. ret = Nowhere
  BY DEF Inv, TypeInv, ControlInv
<1>2. slot = 0
  BY DEF Inv, TypeInv, ControlInv
<1>3. apc \notin {"cancelQueue", "cancelAcks"} => cancelRet = Nowhere
  BY <1>1 DEF Inv, TypeInv, ControlInv, Nowhere
<1>4. Awaiting = Occupied
  BY <1>2 DEF Awaiting, Occupied
<1>5. QED
  BY <1>1, <1>2, <1>3, <1>4

\* The pending list is left alone and no entry is given up or taken back.
LEMMA PairingUntouched ==
  ASSUME Pairing, UNCHANGED <<acks, records, pending, slot, kind>>
  PROVE  Pairing'
<1>1. Awaiting' = Awaiting
  BY SamePlaces
<1>2. QED
  BY <1>1, PairingStays

\* A caller's step; the agent itself, when it resubscribes, enters the loop
\* on a fresh connection.
LEMMA AcksCaller ==
  ASSUME Inv, AcksInv, NEW c \in Callers, CallerStep(c)
  PROVE  AcksInv'
<1>1. UNCHANGED <<hand, slot, ret, mqttVars>>
  BY DEF CallerStep, GetCommand, CreateCommand, SendToQueue, NotifyAgent, GiveBack, agentVars
<1>2. \/ UNCHANGED <<apc, cancelRet>>
      \/ apc = "resubscribe" /\ apc' = "receive" /\ UNCHANGED cancelRet
      \/ apc = "resubscribe" /\ apc' = "cancelQueue" /\ cancelRet' = "disconnect"
  <2>1. call[Self] # "idle" => apc = "resubscribe"
    BY DEF Inv, TypeInv, ControlInv
  <2>2. QED
    BY <2>1 DEF CallerStep, GetCommand, CreateCommand, SendToQueue, NotifyAgent, GiveBack,
                Returns, agentVars
<1>3. Awaiting' = Awaiting /\ Occupied' = Occupied
  BY <1>1, SamePlaces DEF mqttVars, Occupied
<1>4. \A s \in Awaiting : kind'[pending[s].cmd] = kind[pending[s].cmd]
  <2>1. \A s \in Awaiting : pending[s].cmd \in AwaitingCommands
    BY DEF AwaitingCommands
  <2>2. ASSUME NEW k \in Kinds, CreateCommand(c, k)
        PROVE  held[c] \notin AwaitingCommands
    BY <2>2 DEF CreateCommand, HeldCommands, Inv, TypeInv, ControlInv, Ownership, NoCommandShared
  <2>3. kind \in [Commands -> Kinds \cup {Nothing}] /\ AwaitingCommands \subseteq Commands
    BY DEF Inv, TypeInv, TypeOK, Ownership, NoCommandLost
  <2>4. CASE UNCHANGED kind
    BY <2>4
  <2>5. CASE \E k \in Kinds : CreateCommand(c, k)
    BY <2>1, <2>2, <2>3, <2>5 DEF CreateCommand
  <2>6. QED
    BY <2>4, <2>5 DEF CallerStep, GetCommand, SendToQueue, NotifyAgent, GiveBack
<1>5. NothingAwaitsAcrossConnections' /\ QuietInv'
  BY <1>1, <1>2, <1>3 DEF AcksInv, NothingAwaitsAcrossConnections, QuietInv, Unconnected, mqttVars
<1>6. CASE LoopRunning
  <2>1. Pairing
    BY <1>6, MatchIsPairing DEF AcksInv
  <2>2. Pairing'
    BY <1>1, <1>3, <1>4, <2>1, PairingStays DEF mqttVars
  <2>3. QED
    BY <1>5, <2>2 DEF AcksInv, AcksMatchOperations, Pairing
<1>7. CASE ~LoopRunning /\ LoopRunning'
  <2>1. apc = "resubscribe"
    BY <1>1, <1>2, <1>7 DEF LoopRunning
  <2>2. acks' = {} /\ Awaiting' = {}
    BY <1>1, <1>3, <2>1
       DEF AcksInv, NothingAwaitsAcrossConnections, QuietInv, Unconnected, mqttVars, Awaiting
  <2>3. QED
    BY <1>5, <2>2 DEF AcksInv, AcksMatchOperations
<1>8. QED
  BY <1>5, <1>6, <1>7 DEF AcksInv, AcksMatchOperations

\* The agent's steps that change neither the acknowledgments nor the list.
LEMMA AcksFlow ==
  ASSUME Inv, AcksInv,
         \/ TlsConnect \/ CancelQueued \/ CancelAcks \/ RunCallback \/ ReleaseCommand
         \/ ConnectFails \/ GetCommandFails \/ NothingToResubscribe \/ LoopReceive
         \/ NothingReceived \/ ProcessLoopFails
         \/ \E sent \in BOOLEAN : ExecuteQoS0(sent)
  PROVE  AcksInv'
<1> USE DEF Inv, TypeInv, ControlInv, Concluding, Nowhere
<1>1. UNCHANGED <<pending, acks, records, kind>>
  BY DEF TlsConnect, CancelQueued, CancelAcks, RunCallback, ReleaseCommand, ConnectFails,
         GetCommandFails, NothingToResubscribe, LoopReceive, NothingReceived,
         ProcessLoopFails, ExecuteQoS0, mqttVars
<1>2. Occupied' = Occupied
  BY <1>1 DEF Occupied
<1>3. NothingAwaitsAcrossConnections'
  <2>1. CASE CancelAcks
    BY <1>2, <2>1 DEF CancelAcks, Conclude, AcksInv, NothingAwaitsAcrossConnections
  <2>2. CASE ReleaseCommand
    <3>1. ret \in {"cancelQueue", "cancelAcks", "poll"}
      BY <2>2 DEF ReleaseCommand, TypeOK
    <3>2. QED
      BY <2>2, <3>1 DEF ReleaseCommand, NothingAwaitsAcrossConnections
  <2>3. CASE ConnectFails \/ NothingToResubscribe \/ GetCommandFails \/ TlsConnect
    BY <1>2, <2>3 DEF ConnectFails, NothingToResubscribe, GetCommandFails, TlsConnect,
                NothingAwaitsAcrossConnections
  <2>4. CASE CancelQueued \/ RunCallback \/ LoopReceive
    BY <2>4 DEF CancelQueued, Conclude, RunCallback, LoopReceive, NothingAwaitsAcrossConnections
  <2>5. CASE NothingReceived \/ ProcessLoopFails \/ \E sent \in BOOLEAN : ExecuteQoS0(sent)
    BY <2>5 DEF NothingReceived, ProcessLoopFails, ExecuteQoS0, FinishCommand, Conclude,
                NothingAwaitsAcrossConnections
  <2>6. QED
    BY <2>1, <2>2, <2>3, <2>4, <2>5
<1>4. QuietInv'
  <2>1. Unconnected' => Unconnected
    <3>1. CASE CancelAcks
      BY <3>1 DEF CancelAcks, Conclude, Unconnected, TypeOK
    <3>2. CASE ReleaseCommand
      <4>1. ret \in {"cancelQueue", "cancelAcks", "poll"}
        BY <3>2 DEF ReleaseCommand, TypeOK
      <4>2. QED
        BY <3>2, <4>1 DEF ReleaseCommand, Unconnected
    <3>3. CASE ConnectFails \/ NothingToResubscribe \/ GetCommandFails \/ TlsConnect
      BY <3>3 DEF ConnectFails, NothingToResubscribe, GetCommandFails, TlsConnect,
                  EndLoop, Unconnected
    <3>4. CASE CancelQueued \/ RunCallback \/ LoopReceive
      BY <3>4 DEF CancelQueued, Conclude, RunCallback, LoopReceive, Unconnected
    <3>5. CASE NothingReceived \/ ProcessLoopFails \/ \E sent \in BOOLEAN : ExecuteQoS0(sent)
      BY <3>5 DEF NothingReceived, ProcessLoopFails, ExecuteQoS0, FinishCommand, Conclude,
                  EndLoop, Unconnected
    <3>6. QED
      BY <3>1, <3>2, <3>3, <3>4, <3>5
  <2>2. QED
    BY <1>1, <2>1 DEF AcksInv, QuietInv
<1>5. ASSUME LoopRunning'
      PROVE  Pairing'
  <2>1. CASE NothingToResubscribe
    <3>1. acks' = {} /\ Awaiting' = {}
      BY <1>1, <1>2, <2>1 DEF NothingToResubscribe, AcksInv, QuietInv, Unconnected,
                       NothingAwaitsAcrossConnections, Awaiting
    <3>2. QED
      BY <3>1 DEF Pairing
  <2>2. CASE ~NothingToResubscribe
    <3>1. LoopRunning /\ UNCHANGED slot
      <4>1. CASE CancelAcks \/ TlsConnect \/ ConnectFails \/ GetCommandFails \/ ProcessLoopFails
        BY <1>5, <4>1 DEF CancelAcks, TlsConnect, ConnectFails, GetCommandFails,
                          ProcessLoopFails, Conclude, LoopRunning, TypeOK
      <4>2. CASE CancelQueued \/ RunCallback \/ LoopReceive \/ NothingReceived
        BY <1>5, <4>2 DEF CancelQueued, RunCallback, LoopReceive, NothingReceived, Conclude,
                          LoopRunning
      <4>3. CASE ReleaseCommand
        BY <1>5, <4>3 DEF ReleaseCommand, LoopRunning, TypeOK
      <4>4. CASE \E sent \in BOOLEAN : ExecuteQoS0(sent)
        BY <1>5, <4>4 DEF ExecuteQoS0, FinishCommand, Conclude, LoopRunning
      <4>5. QED
        BY <2>2, <4>1, <4>2, <4>3, <4>4
    <3>2. Pairing
      BY <3>1, MatchIsPairing DEF AcksInv
    <3>3. QED
      BY <1>1, <3>1, <3>2, PairingUntouched
  <2>3. QED
    BY <2>1, <2>2
<1>6. QED
  BY <1>3, <1>4, <1>5 DEF AcksInv, AcksMatchOperations, Pairing

\* Clearing an entry already concluded changes nothing that corresponds.
LEMMA AcksClear ==
  ASSUME Inv, AcksInv, ClearSlot
  PROVE  AcksInv'
<1>1. /\ slot \in Slots /\ pending' = [pending EXCEPT ![slot] = EmptySlot] /\ slot' = 0
      /\ apc = "clear" /\ apc' = ret /\ ret \in {"cancelQueue", "cancelAcks", "poll"}
      /\ UNCHANGED <<cancelRet, acks, records, kind>>
  BY DEF ClearSlot, Inv, TypeInv, TypeOK, ControlInv, Concluding
<1>2. \A s \in Slots : pending'[s] = IF s = slot THEN EmptySlot ELSE pending[s]
  BY <1>1 DEF Inv, TypeInv, TypeOK
<1>3. /\ Awaiting' = Awaiting
      /\ \A s \in Awaiting : pending'[s] = pending[s]
  BY <1>1, <1>2 DEF Awaiting, Occupied, EmptySlot
<1>4. NothingAwaitsAcrossConnections' /\ QuietInv'
  BY <1>1 DEF NothingAwaitsAcrossConnections, AcksInv, QuietInv, Unconnected
<1>5. ASSUME LoopRunning'
      PROVE  Pairing'
  <2>1. LoopRunning
    BY <1>1, <1>5 DEF LoopRunning
  <2>2. Pairing
    BY <2>1, MatchIsPairing DEF AcksInv
  <2>3. QED
    BY <1>1, <1>3, <2>2, PairingStays
<1>6. QED
  BY <1>4, <1>5 DEF AcksInv, AcksMatchOperations, Pairing

\* Connecting and resuming: the list is empty, so nothing is dropped or sent
\* again, and disconnecting forgets what the broker had not acknowledged.
LEMMA AcksSession ==
  ASSUME Inv, AcksInv, ResumeSession \/ Disconnect \/ \E p \in BOOLEAN : Connect(p)
  PROVE  AcksInv'
<1>1. /\ Occupied = {} /\ slot = 0 /\ slot' = slot /\ ret' = ret /\ ret = Nowhere
      /\ cancelRet' = cancelRet /\ cancelRet # "connect"
  BY DEF ResumeSession, Disconnect, Connect, AcksInv, NothingAwaitsAcrossConnections,
         Inv, TypeInv, ControlInv, Concluding, Nowhere
<1>2. pending' = pending
  <2>1. CASE ResumeSession
    <3> DEFINE dropped == {s \in Occupied :
                 ~sessionPresent \/ kind[pending[s].cmd] \in {"Subscribe", "Unsubscribe"}}
    <3>1. dropped = {}
      BY <1>1
    <3>2. pending' = [s \in Slots |-> IF s \in dropped THEN EmptySlot ELSE pending[s]]
      BY <2>1 DEF ResumeSession
    <3>3. pending' = [s \in Slots |-> pending[s]]
      BY <3>1, <3>2
    <3>4. QED
      BY <3>3 DEF Inv, TypeInv, TypeOK
  <2>2. QED
    BY <2>1 DEF Disconnect, Connect
<1>3. Occupied' = {} /\ Awaiting' = {}
  BY <1>1, <1>2 DEF Occupied, Awaiting
<1>4. acks' = {}
  <2>1. CASE ResumeSession
    <3>1. acks = {} /\ Resendable = {}
      BY <1>1, <2>1 DEF ResumeSession, AcksInv, QuietInv, Unconnected, Resendable
    <3>2. QED
      BY <2>1, <3>1 DEF ResumeSession
  <2>2. CASE \E p \in BOOLEAN : Connect(p)
    BY <2>2 DEF Connect, AcksInv, QuietInv, Unconnected
  <2>3. CASE Disconnect
    BY <2>3 DEF Disconnect
  <2>4. QED
    BY <2>1, <2>2, <2>3
<1>5. Pairing'
  BY <1>3, <1>4 DEF Pairing
<1>6. QED
  BY <1>3, <1>4, <1>5 DEF AcksInv, AcksMatchOperations, NothingAwaitsAcrossConnections,
                        QuietInv, Pairing

\* addAwaitingOperation gives the acknowledgment to come an entry of its own,
\* or the loop ends.
LEMMA AcksAwait ==
  ASSUME Inv, AcksInv, apc = "execute", NEW id \in PacketIds, AddAwaitingOperation(id),
         kind' = kind,
         \A i \in PacketIds : i # id => records'[i] = records[i],
         \/ kind[hand] = "QoS1" /\ records[id] = "none" /\ records'[id] = "ack"
         \/ kind[hand] # "QoS1" /\ records' = records
  PROVE  AcksInv'
<1>0. /\ slot = 0 /\ ret = Nowhere /\ cancelRet = Nowhere
      /\ hand \in Commands /\ LoopRunning /\ Pairing
  <2>1. LoopRunning
    BY DEF LoopRunning
  <2>2. Pairing
    BY <2>1, MatchIsPairing DEF AcksInv
  <2>3. hand \in Commands
    BY DEF Inv, TypeInv, TypeOK, ControlInv
  <2>4. QED
    BY <2>1, <2>2, <2>3, NotConcluding DEF Concluding
<1>1. CASE CanAwait(id)
  <2>1. PICK s \in Slots \ Occupied :
          pending' = [pending EXCEPT ![s] = [id |-> id, cmd |-> hand]]
    BY <1>1 DEF AddAwaitingOperation
  <2>2. /\ apc' = "poll" /\ slot' = 0 /\ ret' = Nowhere /\ cancelRet' = Nowhere
        /\ acks' = acks \cup {[type |-> kind[hand], id |-> id]}
    BY <1>0, <1>1 DEF AddAwaitingOperation
  <2>3. \A t \in Slots : pending'[t] = IF t = s THEN [id |-> id, cmd |-> hand] ELSE pending[t]
    BY <2>1 DEF Inv, TypeInv, TypeOK
  <2>4. Awaiting' = Awaiting \cup {s} /\ s \notin Awaiting /\ Awaiting \subseteq Slots
    BY <1>0, <2>1, <2>2, <2>3 DEF Awaiting, Occupied
  <2>5. /\ pending'[s] = [id |-> id, cmd |-> hand]
        /\ \A t \in Awaiting : pending'[t] = pending[t] /\ pending[t].id # id
    BY <1>1, <2>1, <2>3, <2>4 DEF CanAwait
  <2>6. acks' = {[type |-> kind'[pending'[t].cmd], id |-> pending'[t].id] : t \in Awaiting'}
    <3> DEFINE Ack(t) == [type |-> kind[pending[t].cmd], id |-> pending[t].id]
               AckNext(t) == [type |-> kind'[pending'[t].cmd], id |-> pending'[t].id]
    <3>1. \A t \in Awaiting : AckNext(t) = Ack(t)
      BY <2>5
    <3>2. AckNext(s) = [type |-> kind[hand], id |-> id]
      BY <2>5
    <3>3. acks = {Ack(t) : t \in Awaiting}
      BY <1>0 DEF Pairing
    <3> HIDE DEF Ack, AckNext
    <3>4. {AckNext(t) : t \in Awaiting \cup {s}} = acks \cup {[type |-> kind[hand], id |-> id]}
      BY <3>1, <3>2, <3>3
    <3>5. acks' = {AckNext(t) : t \in Awaiting'}
      BY <2>2, <2>4, <3>4
    <3>6. QED
      BY <3>5 DEF AckNext
  <2>7. \A a \in acks' : a.type = "QoS1" => records'[a.id] = "ack"
    <3>1. \A a \in acks : a.type = "QoS1" => records[a.id] = "ack" /\ a.id \in PacketIds
      BY <1>0 DEF Pairing, Inv, TypeInv, TypeOK
    <3>2. \A a \in acks : a.type = "QoS1" => records'[a.id] = "ack"
      BY <3>1
    <3>3. kind[hand] = "QoS1" => records'[id] = "ack"
      OBVIOUS
    <3>4. QED
      BY <2>2, <3>2, <3>3
  <2>8. \A t, u \in Awaiting' : pending'[t].id = pending'[u].id => t = u
    <3>1. \A t, u \in Awaiting : pending[t].id = pending[u].id => t = u
      BY <1>0 DEF Pairing
    <3>2. \A t \in Awaiting : pending'[t].id = pending[t].id /\ pending'[t].id # id
      BY <2>5
    <3>3. pending'[s].id = id
      BY <2>5
    <3>4. \A t, u \in Awaiting \cup {s} : pending'[t].id = pending'[u].id => t = u
      BY <3>1, <3>2, <3>3
    <3>5. QED
      BY <2>4, <3>4, Zenon
  <2>9. Pairing'
    BY <2>6, <2>7, <2>8 DEF Pairing
  <2>10. QED
    BY <2>2, <2>9 DEF AcksInv, AcksMatchOperations, Pairing, NothingAwaitsAcrossConnections,
                      QuietInv, Unconnected, Nowhere
<1>2. CASE ~CanAwait(id)
  <2>1. apc' = "callback" /\ ret' = "cancelQueue" /\ cancelRet' = "disconnect"
    BY <1>2 DEF AddAwaitingOperation, FinishCommand, Conclude, EndLoop
  <2>2. QED
    BY <2>1 DEF AcksInv, AcksMatchOperations, LoopRunning, NothingAwaitsAcrossConnections,
                QuietInv, Unconnected
<1>3. QED
  BY <1>1, <1>2

\* A publish, subscribe or unsubscribe is sent, or fails and ends the loop.
LEMMA AcksExecute ==
  ASSUME Inv, AcksInv, NEW sent \in BOOLEAN, ExecuteQoS1(sent) \/ ExecuteSubscribe(sent)
  PROVE  AcksInv'
<1>0. nextId \in PacketIds /\ records \in [PacketIds -> {"none", "send", "ack"}]
  BY DEF Inv, TypeInv, TypeOK
<1>1. CASE FinishCommand(FALSE)
  <2>1. apc' = "callback" /\ ret' = "cancelQueue" /\ cancelRet' = "disconnect"
    BY <1>1 DEF FinishCommand, Conclude, EndLoop
  <2>2. QED
    BY <2>1 DEF AcksInv, AcksMatchOperations, LoopRunning, NothingAwaitsAcrossConnections,
                QuietInv, Unconnected
<1>2. CASE ~FinishCommand(FALSE) /\ ExecuteQoS1(sent)
  <2>1. /\ apc = "execute" /\ kind[hand] = "QoS1" /\ CanReserve(nextId)
        /\ records' = [records EXCEPT ![nextId] = "ack"]
        /\ AddAwaitingOperation(nextId) /\ kind' = kind
    BY <1>2 DEF ExecuteQoS1
  <2>2. /\ records[nextId] = "none" /\ records'[nextId] = "ack"
        /\ \A i \in PacketIds : i # nextId => records'[i] = records[i]
    BY <1>0, <2>1 DEF CanReserve
  <2>3. QED
    BY <1>0, <2>1, <2>2, AcksAwait
<1>3. CASE ~FinishCommand(FALSE) /\ ExecuteSubscribe(sent)
  <2>1. /\ apc = "execute" /\ kind[hand] # "QoS1" /\ records' = records
        /\ AddAwaitingOperation(nextId) /\ kind' = kind
    BY <1>3 DEF ExecuteSubscribe
  <2>2. QED
    BY <1>0, <2>1, AcksAwait
<1>4. QED
  BY <1>1, <1>2, <1>3

\* An acknowledgment takes the entry that awaits it off the list, and that
\* is the only entry with its packet identifier.
LEMMA AcksReceive ==
  ASSUME Inv, AcksInv, NEW a \in acks, ReceiveAck(a)
  PROVE  AcksInv'
<1>0. /\ slot = 0 /\ ret = Nowhere /\ cancelRet = Nowhere /\ Awaiting = Occupied
      /\ apc = "poll" /\ Pairing /\ UNCHANGED <<pending, kind>> /\ acks' = acks \ {a}
  <2>1. apc = "poll" /\ LoopRunning
    BY DEF ReceiveAck, LoopRunning
  <2>2. Pairing
    BY <2>1, MatchIsPairing DEF AcksInv
  <2>3. QED
    BY <2>1, <2>2, NotConcluding DEF ReceiveAck, Concluding
<1>1. PICK s \in Awaiting : a = [type |-> kind[pending[s].cmd], id |-> pending[s].id]
  BY <1>0 DEF Pairing
<1>2. /\ \A t \in Awaiting : pending[t].id = a.id => t = s
      /\ a.type = "QoS1" => records[a.id] = "ack"
      /\ s \in Occupied /\ pending[s].id = a.id
  BY <1>0, <1>1 DEF Pairing
<1>3. /\ slot' = s /\ apc' = "callback" /\ ret' = "poll" /\ cancelRet' = Nowhere
      /\ records' = IF a.type = "QoS1" THEN [records EXCEPT ![a.id] = "none"] ELSE records
  BY <1>0, <1>2 DEF ReceiveAck, Conclude
<1>4. Awaiting' = Awaiting \ {s}
  BY <1>0, <1>3 DEF Awaiting, Occupied
<1>5. acks' = {[type |-> kind'[pending'[t].cmd], id |-> pending'[t].id] : t \in Awaiting'}
  <2>1. \A t \in Awaiting \ {s} :
          [type |-> kind[pending[t].cmd], id |-> pending[t].id] # a
    BY <1>2
  <2>2. acks = {[type |-> kind[pending[t].cmd], id |-> pending[t].id] : t \in Awaiting}
    BY <1>0 DEF Pairing
  <2>3. acks' = {[type |-> kind[pending[t].cmd], id |-> pending[t].id] : t \in Awaiting \ {s}}
    BY <1>0, <1>1, <2>1, <2>2
  <2>4. QED
    BY <1>0, <1>4, <2>3
<1>6. \A b \in acks' : b.type = "QoS1" => records'[b.id] = "ack"
  <2>1. \A b \in acks' : b \in acks /\ b.id # a.id
    BY <1>0, <1>2, <1>4, <1>5 DEF Pairing
  <2>2. records \in [PacketIds -> {"none", "send", "ack"}]
    BY DEF Inv, TypeInv, TypeOK
  <2>3. acks \subseteq [type : Kinds, id : PacketIds]
    BY DEF Inv, TypeInv, TypeOK
  <2>4. QED
    BY <1>0, <1>3, <2>1, <2>2, <2>3 DEF Pairing
<1>7. \A t, u \in Awaiting' : pending'[t].id = pending'[u].id => t = u
  BY <1>0, <1>4 DEF Pairing
<1>8. QED
  BY <1>3, <1>5, <1>6, <1>7 DEF AcksInv, AcksMatchOperations, Pairing,
       NothingAwaitsAcrossConnections, QuietInv, Unconnected, Nowhere

\* The invariant of acknowledgments holds in every reachable state.
LEMMA AcksInvariance == Spec => []AcksInv
<1>1. Init => AcksInv
  BY DEF Init, AcksInv, QuietInv, NothingAwaitsAcrossConnections, AcksMatchOperations,
         LoopRunning, Occupied, EmptySlot
<1>2. ASSUME Inv, AcksInv, [Next]_vars
      PROVE  AcksInv'
  <2>1. CASE UNCHANGED vars
    <3>1. UNCHANGED <<Awaiting, Occupied, LoopRunning, Pairing>>
      BY <2>1 DEF vars, callerVars, agentVars, mqttVars, Awaiting, Occupied, LoopRunning, Pairing
    <3>2. QED
      BY <1>2, <2>1, <3>1 DEF vars, agentVars, mqttVars, AcksInv, QuietInv, Unconnected,
           NothingAwaitsAcrossConnections, AcksMatchOperations, Pairing
  <2>2. CASE SocketReady
    <3>1. UNCHANGED <<Awaiting, Occupied, LoopRunning, Pairing>>
      BY <2>2 DEF SocketReady, agentVars, mqttVars, Awaiting, Occupied, LoopRunning, Pairing
    <3>2. QED
      BY <1>2, <2>2, <3>1 DEF SocketReady, agentVars, mqttVars, AcksInv, QuietInv, Unconnected,
           NothingAwaitsAcrossConnections, AcksMatchOperations, Pairing
  <2>3. CASE \E c \in Callers : CallerStep(c)
    BY <1>2, <2>3, AcksCaller
  <2>4. CASE AgentStep
    BY <1>2, <2>4, AcksFlow, AcksClear, AcksSession, AcksExecute, AcksReceive DEF AgentStep
  <2>5. QED
    BY <1>2, <2>1, <2>2, <2>3, <2>4 DEF Next
<1>3. QED
  BY <1>1, <1>2, InvInductive, PTL DEF Spec

\* No acknowledgment concludes an operation it is not for: while the loop
\* runs, the pending list is exactly what the broker still acknowledges.
THEOREM AcknowledgmentsMatch == Spec => []AcksMatchOperations
<1>1. AcksInv => AcksMatchOperations
  BY DEF AcksInv
<1>2. QED
  BY <1>1, AcksInvariance, PTL

\* MQTTAgent_CancelAll leaves no pending entry for the next connection, so
\* MQTTAgent_ResumeSession never has one to drop or to send again.
THEOREM PendingEndsWithConnection == Spec => []NothingAwaitsAcrossConnections
<1>1. AcksInv => NothingAwaitsAcrossConnections
  BY DEF AcksInv
<1>2. QED
  BY <1>1, AcksInvariance, PTL

-----------------------------------------------------------------------------
(***************************************************************************)
(* MQTTAgent implements CommandLifecycle.  By ownership each structure is  *)
(* free, held by a caller, submitted, or the one whose callback has just   *)
(* run; so which of these it is (Stage) is known from the pool, the        *)
(* callers' hands and the agent's hand alone.                              *)
(***************************************************************************)

\* The structure between its callback and Agent_ReleaseCommand.
Called == IF apc = "release" THEN {hand} ELSE {}

\* A structure about to be queued names the caller that queues it.
OwnerInv == \A c \in Callers : call[c] = "send" => owner[held[c]] = c

\* Every structure is in one of the four stages.
LEMMA Places ==
  ASSUME Inv
  PROVE  /\ Commands = pool \cup HeldCommands \cup Submitted \cup Called
         /\ pool \cap (HeldCommands \cup Submitted \cup Called) = {}
         /\ HeldCommands \cap (Submitted \cup Called) = {}
         /\ Submitted \cap Called = {}
<1> DEFINE working == IF apc \in {"execute", "callback"} THEN {hand} ELSE {}
<1>1. InHand = working \cup Called /\ working \cap Called = {}
  BY DEF Inv, TypeInv, ControlInv, InHand, Called
<1>2. Submitted = Queued \cup AwaitingCommands \cup working
  BY DEF Submitted
<1> HIDE DEF working
<1>3. QED
  BY <1>1, <1>2 DEF Inv, Ownership, NoCommandLost, NoCommandShared

\* Stage without its impossible case.
Places4 == [m \in Commands |-> IF m \in pool THEN "free"
                               ELSE IF m \in HeldCommands THEN "building"
                               ELSE IF m \in Called THEN "called" ELSE "submitted"]

StageIsPlaces4 == Stage = Places4

\* The stage of each structure.
LEMMA StageIs == Inv => StageIsPlaces4
<1> SUFFICES ASSUME Inv PROVE Stage = Places4
  BY DEF StageIsPlaces4
<1> SUFFICES ASSUME NEW m \in Commands
             PROVE  (CASE m \in pool -> "free"
                       [] m \in HeldCommands -> "building"
                       [] m \in Submitted -> "submitted"
                       [] m = hand /\ apc = "release" -> "called"
                       [] OTHER -> "lost")
                    = IF m \in pool THEN "free"
                      ELSE IF m \in HeldCommands THEN "building"
                      ELSE IF m \in Called THEN "called" ELSE "submitted"
  BY DEF Stage, Places4
<1>1. m \in Called <=> m = hand /\ apc = "release"
  BY DEF Called
<1>2. CASE m \in pool
  BY <1>1, <1>2, Places
<1>3. CASE m \in HeldCommands
  BY <1>1, <1>3, Places
<1>4. CASE m \in Submitted
  BY <1>1, <1>4, Places
<1>5. CASE m \in Called
  BY <1>1, <1>5, Places
<1>6. QED
  BY <1>2, <1>3, <1>4, <1>5, Places

\* The stage of each structure, now and after a step.
LEMMA StageOf ==
  /\ Inv => \A m \in Commands :
       Stage[m] = IF m \in pool THEN "free" ELSE IF m \in HeldCommands THEN "building"
                  ELSE IF m \in Called THEN "called" ELSE "submitted"
  /\ Inv => Stage = Places4
  /\ Inv' => Stage' = Places4'
<1>1. Inv' => StageIsPlaces4'
  BY StageIs, PTL
<1>2. QED
  BY <1>1, StageIs DEF StageIsPlaces4, Places4

\* A step that moves no structure from one stage to another.
LEMMA StageStays ==
  ASSUME Inv, Inv', UNCHANGED <<pool, held>>, Called' = Called
  PROVE  Stage' = Stage
<1>1. HeldCommands' = HeldCommands
  BY SamePlaces
<1>2. Places4' = Places4
  BY <1>1 DEF Places4
<1>3. QED
  BY <1>2, StageOf

\* A step that moves one structure.
LEMMA StageMoves ==
  ASSUME Inv, Inv', NEW m \in Commands, NEW to,
         pool' \ {m} = pool \ {m}, HeldCommands' \ {m} = HeldCommands \ {m},
         Called' \ {m} = Called \ {m},
         to = IF m \in pool' THEN "free" ELSE IF m \in HeldCommands' THEN "building"
              ELSE IF m \in Called' THEN "called" ELSE "submitted"
  PROVE  Stage' = [Stage EXCEPT ![m] = to]
<1> DEFINE S == [n \in Commands |-> IF n \in pool THEN "free"
                     ELSE IF n \in HeldCommands THEN "building"
                     ELSE IF n \in Called THEN "called" ELSE "submitted"]
           T == [n \in Commands |-> IF n \in pool' THEN "free"
                     ELSE IF n \in HeldCommands' THEN "building"
                     ELSE IF n \in Called' THEN "called" ELSE "submitted"]
<1>1. Stage = S /\ Stage' = T
  BY StageOf DEF Places4
<1>2. \A n \in Commands \ {m} : T[n] = S[n]
  OBVIOUS
<1>3. T[m] = to
  OBVIOUS
<1>4. T = [n \in Commands |-> IF n = m THEN to ELSE S[n]]
  BY <1>2, <1>3
<1>5. QED
  BY <1>1, <1>4

\* Every caller's step is a step of the life cycle.
LEMMA RefineCaller ==
  ASSUME Inv, Inv', OwnerInv, NEW c \in Callers, CallerStep(c)
  PROVE  [Lifecycle!Next]_(Lifecycle!vars)
<1>1. ASSUME GetCommand(c)
      PROVE  \E m \in Commands : Lifecycle!Take(m)
  <2>1. PICK m \in pool : pool' = pool \ {m} /\ held' = [held EXCEPT ![c] = m]
    BY <1>1 DEF GetCommand
  <2>2. m \in Commands /\ m \notin HeldCommands /\ m \notin Called /\ held[c] = NoCommand
    BY <1>1, Places DEF GetCommand, Inv, TypeInv, TypeOK, ControlInv
  <2>3. HeldCommands' = HeldCommands \cup {m} /\ Called' = Called
    BY <1>1, <2>1, <2>2, HeldTake DEF Inv, GetCommand, agentVars, Called
  <2>4. Stage' = [Stage EXCEPT ![m] = "building"]
    BY <2>1, <2>2, <2>3, StageMoves
  <2>5. Stage[m] = "free"
    BY <2>1, <2>2, StageOf
  <2>6. QED
    BY <1>1, <2>2, <2>4, <2>5 DEF GetCommand, Lifecycle!Take, Lifecycle!Move
<1>2. ASSUME NEW k \in Kinds, CreateCommand(c, k)
      PROVE  \E m \in Commands : \E d \in Callers \cup {NoCaller} : Lifecycle!Fill(m, d)
  <2>1. held[c] \in HeldCommands /\ held[c] \in Commands
    BY <1>2 DEF CreateCommand, HeldCommands, Inv, TypeInv, TypeOK, ControlInv
  <2>2. Stage[held[c]] = "building"
    BY <2>1, StageOf, Places
  <2>3. Stage' = Stage
    BY <1>2, StageStays DEF CreateCommand, agentVars, Called
  <2>4. PICK d \in Callers \cup {NoCaller} : owner' = [owner EXCEPT ![held[c]] = d]
    BY <1>2 DEF CreateCommand
  <2>5. QED
    BY <1>2, <2>1, <2>2, <2>3, <2>4 DEF CreateCommand, Lifecycle!Fill
<1>3. ASSUME SendToQueue(c)
      PROVE  (\E m \in Commands : Lifecycle!Submit(m)) \/ UNCHANGED Lifecycle!vars
  <2>1. CASE Len(queue) < QueueLength
    <3>1. held' = [held EXCEPT ![c] = NoCommand] /\ held[c] # NoCommand /\ Called' = Called
      BY <1>3, <2>1 DEF SendToQueue, Inv, TypeInv, ControlInv, agentVars, Called
    <3>2. /\ HeldCommands' = HeldCommands \ {held[c]}
          /\ held[c] \in HeldCommands /\ held[c] \in Commands
      BY <3>1, HeldDrop DEF Inv
    <3>3. held[c] \notin pool /\ held[c] \notin Called /\ Stage[held[c]] = "building"
      BY <3>2, StageOf, Places
    <3>4. Stage' = [Stage EXCEPT ![held[c]] = "submitted"]
      BY <1>3, <3>1, <3>2, <3>3, StageMoves DEF SendToQueue
    <3>5. owner[held[c]] = c
      BY <1>3 DEF OwnerInv, SendToQueue
    <3>6. QED
      BY <1>3, <2>1, <3>2, <3>3, <3>4, <3>5
         DEF SendToQueue, Lifecycle!Submit, Lifecycle!Move
  <2>2. CASE ~(Len(queue) < QueueLength)
    <3>1. Stage' = Stage
      BY <1>3, <2>2, StageStays DEF SendToQueue, agentVars, Called
    <3>2. QED
      BY <1>3, <2>2, <3>1 DEF SendToQueue, Lifecycle!vars
  <2>3. QED
    BY <2>1, <2>2
<1>4. ASSUME NotifyAgent(c)
      PROVE  UNCHANGED Lifecycle!vars
  <2>1. (apc # "release" /\ apc' # "release") \/ (apc' = apc /\ hand' = hand)
    BY <1>4 DEF NotifyAgent, Returns, Inv, TypeInv, ControlInv
  <2>2. Stage' = Stage
    BY <1>4, <2>1, StageStays DEF NotifyAgent, Called
  <2>3. QED
    BY <1>4, <2>2 DEF NotifyAgent, Lifecycle!vars
<1>5. ASSUME GiveBack(c)
      PROVE  \E m \in Commands : Lifecycle!Abandon(m)
  <2>1. held' = [held EXCEPT ![c] = NoCommand] /\ held[c] # NoCommand
    BY <1>5 DEF GiveBack, Inv, TypeInv, ControlInv
  <2>2. (apc # "release" /\ apc' # "release") \/ (apc' = apc /\ hand' = hand)
    BY <1>5 DEF GiveBack, Returns, Inv, TypeInv, ControlInv
  <2>3. Called' = Called
    BY <2>2 DEF Called
  <2>4. /\ HeldCommands' = HeldCommands \ {held[c]}
        /\ held[c] \in HeldCommands /\ held[c] \in Commands
    BY <2>1, HeldDrop DEF Inv
  <2>5. held[c] \notin Called /\ Stage[held[c]] = "building"
    BY <2>4, StageOf, Places
  <2>6. Stage' = [Stage EXCEPT ![held[c]] = "free"]
    BY <1>5, <2>3, <2>4, StageMoves DEF GiveBack
  <2>7. QED
    BY <1>5, <2>4, <2>5, <2>6 DEF GiveBack, Lifecycle!Abandon, Lifecycle!Move
<1>6. QED
  BY <1>1, <1>2, <1>3, <1>4, <1>5 DEF CallerStep, Lifecycle!Next

\* The agent's steps that neither run a callback nor release a structure.
LEMMA RefineFlow ==
  ASSUME Inv, Inv', AcksInv, AgentStep, ~RunCallback, ~ReleaseCommand
  PROVE  UNCHANGED Lifecycle!vars
<1>1. UNCHANGED <<pool, owner, owed>>
  <2>1. CASE ResumeSession
    <3> DEFINE dropped == {s \in Occupied :
                 ~sessionPresent \/ kind[pending[s].cmd] \in {"Subscribe", "Unsubscribe"}}
               cmds == {pending[s].cmd : s \in dropped}
    <3>1. cmds = {}
      BY <2>1 DEF ResumeSession, AcksInv, NothingAwaitsAcrossConnections
    <3>2. /\ pool' = pool \cup cmds /\ owner' = owner
          /\ owed' = [c \in Callers |-> owed[c] - Cardinality({m \in cmds : owner[m] = c})]
      BY <2>1 DEF ResumeSession
    <3>3. \A c \in Callers : {m \in cmds : owner[m] = c} = {}
      BY <3>1
    <3> HIDE DEF cmds
    <3>4. owed' = [c \in Callers |-> owed[c] - 0]
      BY <3>2, <3>3, FS_EmptySet
    <3>5. owed' = owed
      <4>1. owed \in [Callers -> Int]
        BY DEF Inv, TypeInv, TypeOK
      <4>2. QED
        BY ONLY <3>4, <4>1
    <3>6. QED
      BY <3>1, <3>2, <3>5
  <2>2. QED
    BY <2>1 DEF AgentStep, TlsConnect, CancelQueued, CancelAcks, ClearSlot, Connect,
         ConnectFails, GetCommandFails, NothingToResubscribe, LoopReceive, ExecuteQoS0,
         ExecuteQoS1, ExecuteSubscribe, ReceiveAck, NothingReceived, ProcessLoopFails, Disconnect
<1>2. UNCHANGED held
  BY DEF AgentStep, TlsConnect, CancelQueued, CancelAcks, ClearSlot, Connect, ConnectFails,
         GetCommandFails, NothingToResubscribe, LoopReceive, ExecuteQoS0, ExecuteQoS1,
         ExecuteSubscribe, ReceiveAck, NothingReceived, ProcessLoopFails, Disconnect,
         ResumeSession, callerVars
<1>3. apc # "release" /\ apc' # "release"
  <2>1. apc # "release"
    BY DEF AgentStep, TlsConnect, CancelQueued, CancelAcks, ClearSlot, Connect, ConnectFails,
           GetCommandFails, NothingToResubscribe, LoopReceive, ExecuteQoS0, ExecuteQoS1,
           ExecuteSubscribe, ReceiveAck, NothingReceived, ProcessLoopFails, Disconnect,
           ResumeSession
  <2>2. ASSUME ClearSlot \/ CancelAcks
        PROVE  apc' # "release"
    BY <2>2 DEF ClearSlot, CancelAcks, Conclude, Inv, TypeInv, TypeOK, ControlInv, Nowhere
  <2>3. ASSUME NEW sent \in BOOLEAN,
               ExecuteQoS0(sent) \/ ExecuteQoS1(sent) \/ ExecuteSubscribe(sent)
        PROVE  apc' # "release"
    BY <2>3 DEF ExecuteQoS0, ExecuteQoS1, ExecuteSubscribe, AddAwaitingOperation,
                FinishCommand, Conclude
  <2>4. ASSUME NEW a \in acks, ReceiveAck(a)
        PROVE  apc' # "release"
    BY <2>1, <2>4 DEF ReceiveAck, Conclude
  <2>5. ASSUME \/ TlsConnect \/ CancelQueued \/ ConnectFails \/ ResumeSession
               \/ GetCommandFails \/ NothingToResubscribe \/ LoopReceive
               \/ NothingReceived \/ ProcessLoopFails \/ Disconnect
               \/ \E p \in BOOLEAN : Connect(p)
        PROVE  apc' # "release"
    BY <2>5 DEF TlsConnect, CancelQueued, Conclude, Connect, ConnectFails, GetCommandFails,
                NothingToResubscribe, LoopReceive, NothingReceived, ProcessLoopFails,
                Disconnect, ResumeSession
  <2>6. QED
    BY <2>1, <2>2, <2>3, <2>4, <2>5 DEF AgentStep
<1>4. Stage' = Stage
  BY <1>1, <1>2, <1>3, StageStays DEF Called
<1>5. QED
  BY <1>1, <1>4 DEF Lifecycle!vars

\* concludeCommand: the callback and the release are the two steps that end
\* the life cycle.
LEMMA RefineConclude ==
  ASSUME Inv, Inv', RunCallback \/ ReleaseCommand
  PROVE  Lifecycle!Next
<1>1. hand \in Commands /\ hand \in InHand /\ hand \notin pool /\ hand \notin HeldCommands
  BY DEF RunCallback, ReleaseCommand, Inv, TypeInv, TypeOK, ControlInv, InHand, Ownership,
         NoCommandShared
<1>2. CASE RunCallback
  <2>1. Called = {} /\ Called' = {hand} /\ UNCHANGED <<pool, held, owner>>
    BY <1>2 DEF RunCallback, Called, callerVars
  <2>2. HeldCommands' = HeldCommands
    BY <2>1, SamePlaces
  <2>3. Stage' = [Stage EXCEPT ![hand] = "called"] /\ Stage[hand] = "submitted"
    BY <1>1, <2>1, <2>2, StageMoves, StageOf
  <2>4. QED
    BY <1>1, <1>2, <2>1, <2>3
       DEF RunCallback, Lifecycle!Next, Lifecycle!CallBack, Lifecycle!Move
<1>3. CASE ReleaseCommand
  <2>1. /\ Called = {hand} /\ pool' = pool \cup {hand}
        /\ UNCHANGED <<held, owner, owed>>
    BY <1>3 DEF ReleaseCommand, Called, callerVars
  <2>2. Called' = {}
    BY <1>3 DEF ReleaseCommand, Called, Inv, TypeInv, TypeOK, ControlInv
  <2>3. HeldCommands' = HeldCommands
    BY <2>1, SamePlaces
  <2>4. Stage' = [Stage EXCEPT ![hand] = "free"] /\ Stage[hand] = "called"
    BY <1>1, <2>1, <2>2, <2>3, StageMoves, StageOf
  <2>5. QED
    BY <1>1, <2>1, <2>4 DEF Lifecycle!Next, Lifecycle!Return, Lifecycle!Move
<1>4. QED
  BY <1>2, <1>3

\* Only the caller that holds a structure writes its owner.
LEMMA OwnerStays ==
  ASSUME Inv, OwnerInv, [Next]_vars
  PROVE  OwnerInv'
<1>0. /\ owner \in [Commands -> Callers \cup {NoCaller}] /\ call \in [Callers -> CallPC]
      /\ held \in [Callers -> Commands \cup {NoCommand}]
      /\ \A c \in Callers : call[c] \in Holding => held[c] # NoCommand
      /\ \A c, d \in Callers : held[c] = held[d] => c = d \/ held[c] = NoCommand
  BY DEF Inv, TypeInv, TypeOK, ControlInv, Holding, Ownership, NoCommandShared
<1>1. CASE UNCHANGED <<call, held, owner>>
  BY <1>1 DEF OwnerInv
<1>2. ASSUME NEW c \in Callers, NEW k \in Kinds, CreateCommand(c, k)
      PROVE  OwnerInv'
  <2> SUFFICES ASSUME NEW d \in Callers, call'[d] = "send" PROVE owner'[held'[d]] = d
    BY DEF OwnerInv
  <2>1. CASE d = c
    BY <1>0, <1>2, <2>1 DEF CreateCommand, Holding
  <2>2. CASE d # c
    <3>1. call[d] = "send" /\ held[d] # held[c] /\ held' = held
      BY <1>0, <1>2, <2>2 DEF CreateCommand, Holding
    <3>2. owner'[held[d]] = owner[held[d]]
      BY <1>0, <1>2, <3>1 DEF CreateCommand
    <3>3. QED
      BY <3>1, <3>2 DEF OwnerInv
  <2>3. QED
    BY <2>1, <2>2
<1>3. ASSUME NEW c \in Callers,
             GetCommand(c) \/ SendToQueue(c) \/ NotifyAgent(c) \/ GiveBack(c)
      PROVE  OwnerInv'
  <2> SUFFICES ASSUME NEW d \in Callers, call'[d] = "send" PROVE owner'[held'[d]] = d
    BY DEF OwnerInv
  <2>1. owner' = owner /\ d # c
    BY <1>0, <1>3 DEF GetCommand, SendToQueue, NotifyAgent, GiveBack
  <2>2. call'[d] = call[d] /\ held'[d] = held[d]
    BY <1>0, <1>3, <2>1 DEF GetCommand, SendToQueue, NotifyAgent, GiveBack
  <2>3. QED
    BY <2>1, <2>2 DEF OwnerInv
<1>4. CASE AgentStep
  BY <1>1, <1>4
     DEF AgentStep, TlsConnect, CancelQueued, CancelAcks, RunCallback, ReleaseCommand,
         ClearSlot, Connect, ConnectFails, GetCommandFails, NothingToResubscribe, LoopReceive,
         ExecuteQoS0, ExecuteQoS1, ExecuteSubscribe, ReceiveAck, NothingReceived,
         ProcessLoopFails, Disconnect, ResumeSession, callerVars
<1>5. QED
  BY <1>1, <1>2, <1>3, <1>4 DEF CallerStep, Next, SocketReady, vars, callerVars

\* The agent implements the life cycle of its command structures: the
\* callback of an accepted call runs exactly once, before the structure is
\* used again.
THEOREM AgentImplementsLifecycle == Spec => ImplementsLifecycle
<1>1. Init => Lifecycle!Init
  <2> SUFFICES ASSUME Init PROVE Lifecycle!Init
    OBVIOUS
  <2>1. Stage = [m \in Commands |-> "free"]
    <3>1. Inv
      BY TypeInit, OwnershipInit DEF Inv
    <3>2. pool = Commands
      BY DEF Init
    <3>3. Stage = [m \in Commands |-> "free"]
      BY <3>1, <3>2, StageOf DEF Places4
    <3>4. QED
      BY <3>3
  <2>2. /\ owner \in [Commands -> Callers \cup {NoCaller}]
        /\ owed = [c \in Callers |-> 0]
    BY DEF Init
  <2>3. QED
    BY <2>1, <2>2 DEF Lifecycle!Init
<1>2. Init => OwnerInv
  BY DEF Init, OwnerInv
<1>3. Inv /\ OwnerInv /\ [Next]_vars => OwnerInv'
  BY OwnerStays
<1>4. ASSUME Inv, Inv', AcksInv, OwnerInv, [Next]_vars
      PROVE  [Lifecycle!Next]_(Lifecycle!vars)
  <2>1. CASE UNCHANGED vars
    <3>1. Stage' = Stage
      BY <1>4, <2>1, StageStays DEF vars, callerVars, agentVars, Called
    <3>2. QED
      BY <2>1, <3>1 DEF vars, Lifecycle!vars
  <2>2. CASE SocketReady
    <3>1. Stage' = Stage
      BY <1>4, <2>2, StageStays DEF SocketReady, callerVars, agentVars, Called
    <3>2. QED
      BY <2>2, <3>1 DEF SocketReady, Lifecycle!vars
  <2>3. CASE \E c \in Callers : CallerStep(c)
    BY <1>4, <2>3, RefineCaller
  <2>4. CASE AgentStep
    BY <1>4, <2>4, RefineFlow, RefineConclude
  <2>5. QED
    BY <1>4, <2>1, <2>2, <2>3, <2>4 DEF Next
<1>5. QED
  BY <1>1, <1>2, <1>3, <1>4, InvInductive, AcksInvariance, PTL
     DEF Spec, ImplementsLifecycle, Lifecycle!Spec

-----------------------------------------------------------------------------
(* The life cycle keeps its promise, for any finite set of structures.     *)

\* The steps other than the acceptance and the callback of a command.
OtherStep(m) ==
  \/ Lifecycle!Take(m) \/ Lifecycle!Abandon(m) \/ Lifecycle!Return(m)
  \/ \E c \in Callers \cup {NoCaller} : Lifecycle!Fill(m, c)

\* What it promises, counted by this module's Cardinality.
Owes == \A c \in Callers : owed[c] = Cardinality(Lifecycle!SubmittedFor(c))

\* It is the same count.
LEMMA SameCount == Owes <=> Lifecycle!OwedIsSubmitted
BY DEF Owes, Lifecycle!OwedIsSubmitted, Lifecycle!Cardinality, Cardinality

\* The life cycle keeps its types.
LEMMA LifecycleTypes == Lifecycle!Spec => []Lifecycle!TypeOK
<1>1. Lifecycle!Init => Lifecycle!TypeOK
  BY DEF Lifecycle!Init, Lifecycle!TypeOK, Lifecycle!Stages
<1>2. Lifecycle!TypeOK /\ [Lifecycle!Next]_(Lifecycle!vars) => Lifecycle!TypeOK'
  <2> SUFFICES ASSUME Lifecycle!TypeOK, [Lifecycle!Next]_(Lifecycle!vars) PROVE Lifecycle!TypeOK'
    OBVIOUS
  <2>1. CASE UNCHANGED Lifecycle!vars
    BY <2>1 DEF Lifecycle!vars, Lifecycle!TypeOK
  <2>2. ASSUME NEW m \in Commands, NEW x
        PROVE  /\ [owed EXCEPT ![x] = @ + 1] \in [Callers -> Int]
               /\ [owed EXCEPT ![x] = @ - 1] \in [Callers -> Int]
    <3>1. CASE x \in Callers
      BY <3>1 DEF Lifecycle!TypeOK
    <3>2. CASE x \notin Callers
      BY <3>2 DEF Lifecycle!TypeOK
    <3>3. QED
      BY <3>1, <3>2
  <2>3. ASSUME NEW m \in Commands, Lifecycle!Submit(m)
        PROVE  Lifecycle!TypeOK'
    <3>1. owed' = [owed EXCEPT ![owner[m]] = @ + 1]
      BY <2>3 DEF Lifecycle!Submit
    <3>2. owed' \in [Callers -> Int]
      BY <2>2, <3>1, Zenon
    <3>3. QED
      BY <2>3, <3>2 DEF Lifecycle!Submit, Lifecycle!Move, Lifecycle!TypeOK, Lifecycle!Stages
  <2>4. ASSUME NEW m \in Commands, Lifecycle!CallBack(m)
        PROVE  Lifecycle!TypeOK'
    <3>1. owed' = [owed EXCEPT ![owner[m]] = @ - 1]
      BY <2>4 DEF Lifecycle!CallBack
    <3>2. owed' \in [Callers -> Int]
      BY <2>2, <3>1, Zenon
    <3>3. QED
      BY <2>4, <3>2 DEF Lifecycle!CallBack, Lifecycle!Move, Lifecycle!TypeOK, Lifecycle!Stages
  <2>5. ASSUME NEW m \in Commands, OtherStep(m)
        PROVE  Lifecycle!TypeOK'
    BY <2>5 DEF OtherStep, Lifecycle!Take, Lifecycle!Abandon, Lifecycle!Return, Lifecycle!Fill,
       Lifecycle!Move, Lifecycle!TypeOK, Lifecycle!Stages
  <2>6. QED
    BY <2>1, <2>3, <2>4, <2>5 DEF Lifecycle!Next, OtherStep
<1>3. QED
  BY <1>1, <1>2, PTL DEF Lifecycle!Spec

\* A step other than the acceptance and the callback of a command owes
\* nobody more or less.
LEMMA OtherSteps ==
  ASSUME IsFiniteSet(Commands), Lifecycle!TypeOK, Owes, NEW m \in Commands,
         OtherStep(m)
  PROVE  Owes'
<1>1. \A c \in Callers : Lifecycle!SubmittedFor(c)' = Lifecycle!SubmittedFor(c)
  BY DEF OtherStep, Lifecycle!SubmittedFor, Lifecycle!Take, Lifecycle!Abandon, Lifecycle!Return,
     Lifecycle!Fill, Lifecycle!Move, Lifecycle!TypeOK
<1>2. owed' = owed
  BY DEF OtherStep, Lifecycle!Take, Lifecycle!Abandon, Lifecycle!Return, Lifecycle!Fill
<1>3. QED
  BY <1>1, <1>2 DEF Owes

\* In the life cycle, each caller is owed one callback per command that is
\* accepted from it and not concluded.
LEMMA OwedInvariant ==
  ASSUME IsFiniteSet(Commands)
  PROVE  Lifecycle!Spec => []Owes
<1>1. Lifecycle!Init => Owes
  <2> SUFFICES ASSUME Lifecycle!Init, NEW c \in Callers
               PROVE  owed[c] = Cardinality(Lifecycle!SubmittedFor(c))
    BY DEF Owes
  <2>1. Lifecycle!SubmittedFor(c) = {}
    BY DEF Lifecycle!Init, Lifecycle!SubmittedFor
  <2>2. QED
    BY <2>1, FS_EmptySet DEF Lifecycle!Init
<1>2. Lifecycle!TypeOK /\ Owes /\ [Lifecycle!Next]_(Lifecycle!vars) => Owes'
  <2> SUFFICES ASSUME Lifecycle!TypeOK, Owes, [Lifecycle!Next]_(Lifecycle!vars) PROVE Owes'
    OBVIOUS
  <2>0. ASSUME NEW c \in Callers
        PROVE  /\ IsFiniteSet(Lifecycle!SubmittedFor(c))
               /\ Cardinality(Lifecycle!SubmittedFor(c)) \in Nat
    <3>1. Lifecycle!SubmittedFor(c) \subseteq Commands
      BY DEF Lifecycle!SubmittedFor
    <3>2. QED
      BY <3>1, FS_Subset, FS_CardinalityType
  <2>1. CASE UNCHANGED Lifecycle!vars
    BY <2>1 DEF Lifecycle!vars, Owes, Lifecycle!SubmittedFor
  <2>2. ASSUME NEW m \in Commands, Lifecycle!Submit(m), NEW c \in Callers
        PROVE  owed'[c] = Cardinality(Lifecycle!SubmittedFor(c)')
    <3>1. CASE owner[m] = c
      <4>1. /\ Lifecycle!SubmittedFor(c)' = Lifecycle!SubmittedFor(c) \cup {m}
            /\ m \notin Lifecycle!SubmittedFor(c)
        BY <2>2, <3>1 DEF Lifecycle!Submit, Lifecycle!Move, Lifecycle!SubmittedFor,
           Lifecycle!TypeOK
      <4>2. owed'[c] = owed[c] + 1
        BY <2>2, <3>1 DEF Lifecycle!Submit, Lifecycle!TypeOK
      <4>3. Cardinality(Lifecycle!SubmittedFor(c) \cup {m}) =
              Cardinality(Lifecycle!SubmittedFor(c)) + 1
        BY <2>0, <4>1, FS_AddElement, Zenon
      <4>4. owed[c] = Cardinality(Lifecycle!SubmittedFor(c))
        BY DEF Owes
      <4>5. QED
        BY ONLY <4>1, <4>2, <4>3, <4>4
    <3>2. CASE owner[m] # c
      <4>1. Lifecycle!SubmittedFor(c)' = Lifecycle!SubmittedFor(c)
        BY <2>2, <3>2 DEF Lifecycle!Submit, Lifecycle!Move, Lifecycle!SubmittedFor,
           Lifecycle!TypeOK
      <4>2. owed'[c] = owed[c]
        BY <2>2, <3>2 DEF Lifecycle!Submit, Lifecycle!TypeOK
      <4>3. QED
        BY <4>1, <4>2 DEF Owes
    <3>3. QED
      BY <3>1, <3>2
  <2>3. ASSUME NEW m \in Commands, Lifecycle!CallBack(m), NEW c \in Callers
        PROVE  owed'[c] = Cardinality(Lifecycle!SubmittedFor(c)')
    <3>1. CASE owner[m] = c
      <4>1. /\ Lifecycle!SubmittedFor(c)' = Lifecycle!SubmittedFor(c) \ {m}
            /\ m \in Lifecycle!SubmittedFor(c)
        BY <2>3, <3>1 DEF Lifecycle!CallBack, Lifecycle!Move, Lifecycle!SubmittedFor,
           Lifecycle!TypeOK
      <4>2. owed'[c] = owed[c] - 1
        BY <2>3, <3>1 DEF Lifecycle!CallBack, Lifecycle!TypeOK
      <4>3. Cardinality(Lifecycle!SubmittedFor(c) \ {m}) =
              Cardinality(Lifecycle!SubmittedFor(c)) - 1
        BY <2>0, <4>1, FS_RemoveElement, Zenon
      <4>4. owed[c] = Cardinality(Lifecycle!SubmittedFor(c))
        BY DEF Owes
      <4>5. QED
        BY ONLY <4>1, <4>2, <4>3, <4>4
    <3>2. CASE owner[m] # c
      <4>1. Lifecycle!SubmittedFor(c)' = Lifecycle!SubmittedFor(c)
        BY <2>3, <3>2 DEF Lifecycle!CallBack, Lifecycle!Move, Lifecycle!SubmittedFor,
           Lifecycle!TypeOK
      <4>2. owed'[c] = owed[c]
        BY <2>3, <3>2 DEF Lifecycle!CallBack, Lifecycle!TypeOK
      <4>3. QED
        BY <4>1, <4>2 DEF Owes
    <3>3. QED
      BY <3>1, <3>2
  <2>4. QED
    BY <2>1, <2>2, <2>3, OtherSteps DEF Lifecycle!Next, OtherStep, Owes
<1>3. QED
  BY <1>1, <1>2, LifecycleTypes, PTL DEF Lifecycle!Spec

\* Each caller is owed exactly one callback per command the agent has
\* accepted from it and not yet concluded.
THEOREM CallbacksAreOwed == Spec => []OwedIsSubmitted
<1>1. IsFiniteSet(Commands)
  BY CommandsAssumption
<1>2. Lifecycle!Spec => []Owes
  BY <1>1, OwedInvariant
<1>3. Owes => OwedIsSubmitted
  BY SameCount DEF OwedIsSubmitted
<1>4. QED
  BY <1>2, <1>3, AgentImplementsLifecycle, PTL DEF ImplementsLifecycle
=============================================================================
