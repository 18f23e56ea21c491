------------------------------- MODULE MQTTAgent -------------------------------
(***************************************************************************)
(* The MQTT agent: the tasks that call MQTTAgent_Publish / _Subscribe /    *)
(* _Unsubscribe, the pool of command structures, the command queue with    *)
(* its task notification, and the agent task with its command loop, its    *)
(* list of operations awaiting an acknowledgment, MQTTAgent_CancelAll and  *)
(* the reconnect loop of vMQTTAgentTask.                                   *)
(*                                                                         *)
(* A command structure is a member of Commands; the code passes pointers   *)
(* to them through the pool, the queue and the list of pending             *)
(* acknowledgments.  A step of this module is one operation on a structure *)
(* that two tasks share (pool, queue, notification value, pending list).   *)
(***************************************************************************)
EXTENDS Integers, FiniteSets, Sequences

CONSTANTS
  Commands,      \* commandStructurePool, MQTT_COMMAND_CONTEXTS_POOL_SIZE of them
  Clients,       \* the application tasks that call the agent
  Self,          \* the agent task when it calls its own API (prvHandleResubscribe)
  NoCommand,     \* the NULL command pointer
  NoCaller,      \* the NULL context of a cleared command structure
  QueueLength,   \* MQTT_AGENT_COMMAND_QUEUE_LENGTH
  MaxOutstandingAcks,  \* MQTT_AGENT_MAX_OUTSTANDING_ACKS
  MaxPacketId,   \* UINT16_MAX: packet identifiers are 1..MaxPacketId
  ClientKinds    \* the operations the application tasks ask for

Kinds == {"QoS0", "QoS1", "Subscribe", "Unsubscribe"}
Nothing == "NONE"   \* the command type of a cleared structure
Callers == Clients \cup {Self}
Slots == 1..MaxOutstandingAcks
PacketIds == 1..MaxPacketId
Invalid == 0     \* MQTT_PACKET_ID_INVALID

ASSUME CommandsAssumption == IsFiniteSet(Commands) /\ NoCommand \notin Commands
ASSUME CallersAssumption == Self \notin Clients /\ NoCaller \notin Clients \cup {Self}
ASSUME SizesAssumption == /\ QueueLength \in Nat \ {0}
                          /\ MaxOutstandingAcks \in Nat \ {0}
                          /\ MaxPacketId \in Nat \ {0}
ASSUME KindsAssumption == ClientKinds \subseteq Kinds

VARIABLES
  \* shared between the tasks
  pool,      \* the commands in xCommandPoolQueue
  kind,      \* commandType (and QoS) written into each command structure
  owner,     \* pCmdContext of each command: the caller whose callback it names
  queue,     \* the agent's message queue
  notify,    \* the bits of the agent's task notification value
  \* of each caller inside createAndAddCommand
  call,      \* where the caller is
  held,      \* the command it got from the pool and has not queued yet
  \* of the agent task
  apc,       \* where the agent is
  hand,      \* the command it is processing or concluding
  slot,      \* the pending entry it will clear after concluding, 0 if none
  ret,       \* where it continues after concluding
  cancelRet, \* where it continues after MQTTAgent_CancelAll
  pending,   \* pPendingAcks: packet identifier and command of each slot
  clean,     \* xConnectInfo.cleanSession
  sessionPresent,  \* xSessionPresent, a local of one turn of the reconnect loop
  nextId,    \* nextPacketId of the MQTT context
  records,   \* outgoingPublishRecords: state of the record of each packet id
  acks,      \* acknowledgments the broker may still send on this connection
  \* history: accepted calls whose callback has not run yet, per caller
  owed

callerVars == <<call, held>>
agentVars  == <<apc, hand, slot, ret, cancelRet>>
mqttVars   == <<pending, clean, sessionPresent, nextId, records, acks>>
vars == <<pool, kind, owner, queue, notify, callerVars, agentVars, mqttVars, owed>>

EmptySlot == [id |-> Invalid, cmd |-> NoCommand]
Occupied == {s \in Slots : pending[s].id # Invalid}
Queued == {queue[i] : i \in 1..Len(queue)}

CallPC == {"idle", "create", "send", "notifySent", "notifyFailed", "release"}
AgentPC == {"offline", "cancelQueue", "cancelAcks", "connect", "resume",
            "resubscribe", "receive", "execute", "poll",
            "callback", "release", "clear", "disconnect"}

Nowhere == "nowhere"   \* no return is due

Init ==
  /\ pool = Commands
  /\ kind = [m \in Commands |-> Nothing]
  /\ owner = [m \in Commands |-> NoCaller]
  /\ queue = <<>>
  /\ notify = {}
  /\ call = [c \in Callers |-> "idle"]
  /\ held = [c \in Callers |-> NoCommand]
  /\ apc = "offline" /\ hand = NoCommand /\ slot = 0
  /\ ret = Nowhere /\ cancelRet = Nowhere
  /\ pending = [s \in Slots |-> EmptySlot]
  /\ clean = TRUE
  /\ sessionPresent = FALSE
  /\ nextId = 1
  /\ records = [i \in PacketIds |-> "none"]
  /\ acks = {}
  /\ owed = [c \in Callers |-> 0]

-----------------------------------------------------------------------------
(* The callers: createAndAddCommand.                                       *)

\* What the call returns matters only to the agent itself: a failed
\* resubscribe makes it drop the connection (vMQTTAgentTask).
Returns(c, success) ==
  IF c = Self
  THEN IF success
       THEN apc' = "receive" /\ UNCHANGED cancelRet
       ELSE apc' = "cancelQueue" /\ cancelRet' = "disconnect"
  ELSE UNCHANGED <<apc, cancelRet>>

\* Faulty variant of GetCommand: it peeks at the pool instead of receiving.
GetCommandPeeks(c) ==
  /\ call[c] = "idle"
  /\ c = Self => apc = "resubscribe"
  /\ \E m \in pool : held' = [held EXCEPT ![c] = m]
  /\ call' = [call EXCEPT ![c] = "create"]
  /\ UNCHANGED <<pool, kind, owner, queue, notify, agentVars, mqttVars, owed>>

\* Agent_GetCommand.  When the pool is empty the call returns MQTTNoMemory,
\* which changes nothing for a client (GetCommandFails for the agent).
GetCommand(c) ==
  /\ call[c] = "idle"
  /\ c = Self => apc = "resubscribe"
  /\ \E m \in pool :
       /\ pool' = pool \ {m}
       /\ held' = [held EXCEPT ![c] = m]
  /\ call' = [call EXCEPT ![c] = "create"]
  /\ UNCHANGED <<kind, owner, queue, notify, agentVars, mqttVars, owed>>

GetCommandFails ==
  /\ call[Self] = "idle" /\ apc = "resubscribe"
  /\ pool = {}
  /\ apc' = "cancelQueue" /\ cancelRet' = "disconnect"
  /\ UNCHANGED <<pool, kind, owner, queue, notify, callerVars, hand, slot, ret,
                 mqttVars, owed>>

\* createCommand clears the structure and fills it in.  An operation that
\* awaits an acknowledgment needs a free entry in the pending list at this
\* moment; the list belongs to the agent task and may be full again when the
\* agent gets to the command.
CreateCommand(c, k) ==
  /\ call[c] = "create"
  /\ k \in IF c = Self THEN {"Subscribe"} ELSE ClientKinds
  /\ LET isValid == k = "QoS0" \/ Occupied # Slots
     IN  /\ kind' = [kind EXCEPT ![held[c]] = IF isValid THEN k ELSE Nothing]
         /\ owner' = [owner EXCEPT ![held[c]] = IF isValid THEN c ELSE NoCaller]
         /\ call' = [call EXCEPT ![c] = IF isValid THEN "send" ELSE "release"]
  /\ UNCHANGED <<pool, queue, notify, held, agentVars, mqttVars, owed>>

\* Faulty variant of SendToQueue: it reports failure for a command it queued.
SendToQueueMisreports(c) ==
  /\ call[c] = "send"
  /\ queue' = Append(queue, held[c])
  /\ call' = [call EXCEPT ![c] = "notifyFailed"]
  /\ UNCHANGED <<pool, kind, owner, notify, held, agentVars, mqttVars, owed>>

\* prvAgentMessageSend, its xQueueSendToBack.  From here on the command is
\* the agent's and the caller's callback is owed to it.
SendToQueue(c) ==
  /\ call[c] = "send"
  /\ IF Len(queue) < QueueLength
     THEN /\ queue' = Append(queue, held[c])
          /\ held' = [held EXCEPT ![c] = NoCommand]
          /\ owed' = [owed EXCEPT ![c] = @ + 1]
          /\ call' = [call EXCEPT ![c] = "notifySent"]
     ELSE /\ call' = [call EXCEPT ![c] = "notifyFailed"]
          /\ UNCHANGED <<queue, held, owed>>
  /\ UNCHANGED <<pool, kind, owner, notify, agentVars, mqttVars>>

\* prvAgentMessageSend, its xTaskNotifyIndexed: made whether or not the
\* queue took the command.
NotifyAgent(c) ==
  /\ call[c] \in {"notifySent", "notifyFailed"}
  /\ notify' = notify \cup {"M_QUEUE"}
  /\ IF call[c] = "notifySent"
     THEN call' = [call EXCEPT ![c] = "idle"] /\ Returns(c, TRUE)
     ELSE call' = [call EXCEPT ![c] = "release"] /\ UNCHANGED <<apc, cancelRet>>
  /\ UNCHANGED <<pool, kind, owner, queue, held, hand, slot, ret, mqttVars, owed>>

\* Faulty variant of GiveBack: the failed call forgets to release.
GiveBackForgets(c) ==
  /\ call[c] = "release"
  /\ held' = [held EXCEPT ![c] = NoCommand]
  /\ call' = [call EXCEPT ![c] = "idle"]
  /\ Returns(c, FALSE)
  /\ UNCHANGED <<pool, kind, owner, queue, notify, hand, slot, ret, mqttVars, owed>>

\* createAndAddCommand gives the command back after a failure.
GiveBack(c) ==
  /\ call[c] = "release"
  /\ pool' = pool \cup {held[c]}
  /\ held' = [held EXCEPT ![c] = NoCommand]
  /\ call' = [call EXCEPT ![c] = "idle"]
  /\ Returns(c, FALSE)
  /\ UNCHANGED <<kind, owner, queue, notify, hand, slot, ret, mqttVars, owed>>

CallerStep(c) ==
  \/ GetCommand(c)
  \/ \E k \in Kinds : CreateCommand(c, k)
  \/ SendToQueue(c)
  \/ NotifyAgent(c)
  \/ GiveBack(c)

-----------------------------------------------------------------------------
(* The agent task.                                                         *)

\* prvSocketRecvReadyCallback: the socket thread runs while a TLS connection
\* is open.
SocketReady ==
  /\ apc # "offline"
  /\ notify' = notify \cup {"SOCKET_RECV"}
  /\ UNCHANGED <<pool, kind, owner, queue, callerVars, agentVars, mqttVars, owed>>

\* prvAgentMessageReceive takes the whole notification value; it looks at
\* the queue only when the value is not empty and lacks SOCKET_RECV, and
\* then takes one command.
QueueIsRead == notify # {} /\ "SOCKET_RECV" \notin notify

ReceiveCommand ==
  /\ QueueIsRead /\ queue # <<>>
  /\ notify' = {}
  /\ hand' = Head(queue)
  /\ queue' = Tail(queue)

ReceiveNothing ==
  /\ ~QueueIsRead \/ queue = <<>>
  /\ notify' = {}
  /\ UNCHANGED <<hand, queue>>

\* concludeCommand will run the callback of the command in hand and release
\* it, then the agent continues at r.
Conclude(s, r) ==
  /\ apc' = "callback"
  /\ slot' = s
  /\ ret' = r

\* The command loop ends and vMQTTAgentTask cancels and disconnects.
EndLoop == cancelRet' = "disconnect"

\* mbedtls_transport_connect succeeds; vMQTTAgentTask first cancels what is
\* left from the previous connection.
TlsConnect ==
  /\ apc = "offline"
  /\ apc' = "cancelQueue" /\ cancelRet' = "connect"
  /\ UNCHANGED <<pool, kind, owner, queue, notify, callerVars, hand, slot, ret,
                 mqttVars, owed>>

\* MQTTAgent_CancelAll, its first loop.
CancelQueued ==
  /\ apc = "cancelQueue"
  /\ \/ ReceiveCommand /\ Conclude(0, "cancelQueue")
     \/ ReceiveNothing /\ apc' = "cancelAcks" /\ UNCHANGED <<slot, ret>>
  /\ UNCHANGED <<pool, kind, owner, callerVars, cancelRet, mqttVars, owed>>

\* Faulty variants of CancelAcks: one leaves the entries alone, the other
\* clears an entry without concluding its command.
CancelAcksSkipped ==
  /\ apc = "cancelAcks"
  /\ apc' = cancelRet /\ cancelRet' = Nowhere
  /\ UNCHANGED <<pool, kind, owner, queue, notify, callerVars, hand, slot, ret, mqttVars, owed>>

CancelAcksSilently ==
  /\ apc = "cancelAcks"
  /\ apc' = cancelRet /\ cancelRet' = Nowhere
  /\ pending' = [s \in Slots |-> EmptySlot]
  /\ UNCHANGED <<pool, kind, owner, queue, notify, callerVars, hand, slot, ret,
                 clean, sessionPresent, nextId, records, acks, owed>>

\* MQTTAgent_CancelAll, its second loop.
CancelAcks ==
  /\ apc = "cancelAcks"
  /\ IF Occupied = {}
     THEN apc' = cancelRet /\ cancelRet' = Nowhere /\ UNCHANGED <<hand, slot, ret>>
     ELSE \E s \in Occupied :
            /\ \A t \in Occupied : s <= t
            /\ hand' = pending[s].cmd
            /\ Conclude(s, "cancelAcks")
            /\ UNCHANGED cancelRet
  /\ UNCHANGED <<pool, kind, owner, queue, notify, callerVars, mqttVars, owed>>

\* concludeCommand: the callback ...
RunCallback ==
  /\ apc = "callback"
  /\ owed' = [owed EXCEPT ![owner[hand]] = @ - 1]
  /\ apc' = "release"
  /\ UNCHANGED <<pool, kind, owner, queue, notify, callerVars, hand, slot, ret,
                 cancelRet, mqttVars>>

\* ... then Agent_ReleaseCommand: from here on a caller may reuse the
\* command although a pending entry still points to it ...
ReleaseCommand ==
  /\ apc = "release"
  /\ pool' = pool \cup {hand}
  /\ hand' = NoCommand
  /\ IF slot = 0
     THEN apc' = ret /\ ret' = Nowhere
     ELSE apc' = "clear" /\ UNCHANGED ret
  /\ UNCHANGED <<kind, owner, queue, notify, callerVars, slot, cancelRet, mqttVars, owed>>

\* ... until the memset that follows concludeCommand in handleAcks and
\* MQTTAgent_CancelAll.
ClearSlot ==
  /\ apc = "clear"
  /\ pending' = [pending EXCEPT ![slot] = EmptySlot]
  /\ slot' = 0
  /\ apc' = ret /\ ret' = Nowhere
  /\ UNCHANGED <<pool, kind, owner, queue, notify, callerVars, hand, cancelRet,
                 clean, sessionPresent, nextId, records, acks, owed>>

\* MQTT_Connect and the choice vMQTTAgentTask makes on its result; a session
\* that is not present clears the publish records (handleSessionResumption).
Connect(present) ==
  /\ apc = "connect"
  /\ clean => ~present
  /\ records' = IF present THEN records ELSE [i \in PacketIds |-> "none"]
  /\ sessionPresent' = present
  /\ clean' = FALSE
  /\ apc' = IF clean THEN "receive" ELSE "resume"
  /\ UNCHANGED <<pool, kind, owner, queue, notify, callerVars, hand, slot, ret,
                 cancelRet, pending, nextId, acks, owed>>

ConnectFails ==
  /\ apc = "connect"
  /\ apc' = "cancelQueue" /\ EndLoop
  /\ UNCHANGED <<pool, kind, owner, queue, notify, callerVars, hand, slot, ret,
                 mqttVars, owed>>

\* The publishes resendPublishes sends again: those MQTT_PublishToResend
\* reports and getAwaitingOperation still finds in the pending list.
Resendable ==
  {i \in PacketIds : records[i] # "none" /\ \E s \in Occupied : pending[s].id = i}

\* MQTTAgent_ResumeSession.  Entries it drops are concluded at once here.
\* xSessionPresent is not read after it.
ResumeSession ==
  /\ apc = "resume"
  /\ LET dropped == {s \in Occupied :
                       ~sessionPresent \/ kind[pending[s].cmd] \in {"Subscribe", "Unsubscribe"}}
         cmds == {pending[s].cmd : s \in dropped}
     IN  /\ pending' = [s \in Slots |-> IF s \in dropped THEN EmptySlot ELSE pending[s]]
         /\ pool' = pool \cup cmds
         /\ owed' = [c \in Callers |-> owed[c] - Cardinality({m \in cmds : owner[m] = c})]
  /\ IF sessionPresent
     THEN /\ records' = [i \in PacketIds |-> IF i \in Resendable THEN "ack" ELSE records[i]]
          /\ acks' = acks \cup {[type |-> "QoS1", id |-> i] : i \in Resendable}
          /\ apc' = "receive"
     ELSE /\ apc' = "resubscribe"
          /\ UNCHANGED <<records, acks>>
  /\ sessionPresent' = FALSE
  /\ UNCHANGED <<kind, owner, queue, notify, callerVars, hand, slot, ret, cancelRet,
                 clean, nextId>>

\* prvHandleResubscribe when the subscription list is empty; otherwise the
\* agent goes through createAndAddCommand as caller Self.
NothingToResubscribe ==
  /\ apc = "resubscribe" /\ call[Self] = "idle"
  /\ apc' = "receive"
  /\ UNCHANGED <<pool, kind, owner, queue, notify, callerVars, hand, slot, ret,
                 cancelRet, mqttVars, owed>>

\* One turn of MQTTAgent_CommandLoop up to processCommand.
LoopReceive ==
  /\ apc = "receive"
  /\ \/ ReceiveCommand /\ apc' = "execute"
     \/ ReceiveNothing /\ apc' = "poll"
  /\ UNCHANGED <<pool, kind, owner, callerVars, slot, ret, cancelRet, mqttVars, owed>>

\* Faulty variant of FinishCommand: a failed operation is not concluded.
FinishCommandOnlyOnSuccess(success) ==
  IF success
  THEN Conclude(0, "poll") /\ UNCHANGED cancelRet
  ELSE apc' = "cancelQueue" /\ EndLoop /\ UNCHANGED <<slot, ret>>

\* processCommand for a command that awaits no acknowledgment, or whose
\* operation failed: conclude it, and on failure leave the loop.
FinishCommand(success) ==
  IF success
  THEN Conclude(0, "poll") /\ UNCHANGED cancelRet
  ELSE Conclude(0, "cancelQueue") /\ EndLoop

ExecuteQoS0(sent) ==
  /\ apc = "execute" /\ kind[hand] = "QoS0"
  /\ FinishCommand(sent)
  /\ UNCHANGED <<pool, kind, owner, queue, notify, callerVars, hand, mqttVars, owed>>

\* Faulty variant of CanAwait: no search for a duplicate packet identifier.
CanAwaitDuplicate(id) == Occupied # Slots

\* addAwaitingOperation for the command in hand, already sent with packet
\* identifier id.
CanAwait(id) == Occupied # Slots /\ \A s \in Slots : pending[s].id # id

\* Faulty variant of AddAwaitingOperation: the command is concluded as well.
AddAwaitingAndConclude(id) ==
  /\ acks' = acks \cup {[type |-> kind[hand], id |-> id]}
  /\ IF CanAwait(id)
     THEN /\ \E s \in Slots \ Occupied :
               pending' = [pending EXCEPT ![s] = [id |-> id, cmd |-> hand]]
          /\ Conclude(0, "poll")
          /\ UNCHANGED <<hand, cancelRet>>
     ELSE FinishCommand(FALSE) /\ UNCHANGED <<hand, pending>>

AddAwaitingOperation(id) ==
  /\ acks' = acks \cup {[type |-> kind[hand], id |-> id]}
  /\ IF CanAwait(id)
     THEN /\ \E s \in Slots \ Occupied :
               /\ \A t \in Slots \ Occupied : s <= t
               /\ pending' = [pending EXCEPT ![s] = [id |-> id, cmd |-> hand]]
          /\ hand' = NoCommand
          /\ apc' = "poll"
          /\ UNCHANGED <<slot, ret, cancelRet>>
     ELSE FinishCommand(FALSE) /\ UNCHANGED <<hand, pending>>

\* Faulty variant of NextPacketId: no wrap.
NextPacketIdUnbounded == nextId + 1

\* MQTT_GetPacketId
NextPacketId == IF nextId = MaxPacketId THEN 1 ELSE nextId + 1

\* MQTT_ReserveState, which refuses a packet identifier that still has a
\* record and a full record table (it has MQTT_AGENT_MAX_OUTSTANDING_ACKS
\* entries, like the pending list).
CanReserve(id) ==
  /\ records[id] = "none"
  /\ Cardinality({i \in PacketIds : records[i] # "none"}) < MaxOutstandingAcks

\* MQTTAgentCommand_Publish with QoS 1.
ExecuteQoS1(sent) ==
  /\ apc = "execute" /\ kind[hand] = "QoS1"
  /\ nextId' = NextPacketId
  /\ IF CanReserve(nextId)
     THEN IF sent
          THEN /\ records' = [records EXCEPT ![nextId] = "ack"]
               /\ AddAwaitingOperation(nextId)
          ELSE /\ records' = [records EXCEPT ![nextId] = "send"]
               /\ FinishCommand(FALSE)
               /\ UNCHANGED <<hand, pending, acks>>
     ELSE FinishCommand(FALSE) /\ UNCHANGED <<hand, pending, records, acks>>
  /\ UNCHANGED <<pool, kind, owner, queue, notify, callerVars, clean, sessionPresent, owed>>

\* MQTTAgentCommand_Subscribe and MQTTAgentCommand_Unsubscribe.
ExecuteSubscribe(sent) ==
  /\ apc = "execute" /\ kind[hand] \in {"Subscribe", "Unsubscribe"}
  /\ nextId' = NextPacketId
  /\ IF sent
     THEN AddAwaitingOperation(nextId)
     ELSE FinishCommand(FALSE) /\ UNCHANGED <<hand, pending, acks>>
  /\ UNCHANGED <<pool, kind, owner, queue, notify, callerVars, clean, sessionPresent,
                 records, owed>>

\* Faulty variant of ReceiveAck: the operation awaiting it is not looked up.
ReceiveAckUnmatched(a) ==
  /\ apc = "poll" /\ a \in acks
  /\ acks' = acks \ {a}
  /\ UNCHANGED <<pool, kind, owner, queue, notify, callerVars, agentVars, pending, clean,
                 sessionPresent, nextId, records, owed>>

\* MQTT_ProcessLoop reads an acknowledgment.  handlePublishAcks wants a
\* publish record that awaits it, or the process loop fails; then
\* mqttEventCallback concludes the operation awaiting it, if there is one.
ReceiveAck(a) ==
  /\ apc = "poll" /\ a \in acks
  /\ acks' = acks \ {a}
  /\ IF a.type = "QoS1" /\ records[a.id] # "ack"
     THEN /\ apc' = "cancelQueue" /\ EndLoop
          /\ UNCHANGED <<hand, slot, ret, records>>
     ELSE /\ records' = IF a.type = "QoS1" THEN [records EXCEPT ![a.id] = "none"] ELSE records
          /\ UNCHANGED cancelRet
          /\ IF \E s \in Occupied : pending[s].id = a.id
             THEN \E s \in Occupied :
                    /\ pending[s].id = a.id
                    /\ hand' = pending[s].cmd
                    /\ Conclude(s, "poll")
             ELSE UNCHANGED <<apc, hand, slot, ret>>
  /\ UNCHANGED <<pool, kind, owner, queue, notify, callerVars, pending, clean,
                 sessionPresent, nextId, owed>>

\* MQTT_ProcessLoop finds no packet: back to waiting for a command.
NothingReceived ==
  /\ apc = "poll"
  /\ apc' = "receive"
  /\ UNCHANGED <<pool, kind, owner, queue, notify, callerVars, hand, slot, ret,
                 cancelRet, mqttVars, owed>>

\* MQTT_ProcessLoop fails: a receive error, or a missing ping response.
ProcessLoopFails ==
  /\ apc = "poll"
  /\ apc' = "cancelQueue" /\ EndLoop
  /\ UNCHANGED <<pool, kind, owner, queue, notify, callerVars, hand, slot, ret,
                 mqttVars, owed>>

\* mbedtls_transport_disconnect; what the broker had not delivered is gone.
Disconnect ==
  /\ apc = "disconnect"
  /\ apc' = "offline"
  /\ acks' = {}
  /\ UNCHANGED <<pool, kind, owner, queue, notify, callerVars, hand, slot, ret,
                 cancelRet, pending, clean, sessionPresent, nextId, records, owed>>

\* The steps the agent task takes by itself, without the outside world
\* having to do anything but answer or fail.
AgentStep ==
  \/ TlsConnect
  \/ CancelQueued
  \/ CancelAcks
  \/ RunCallback
  \/ ReleaseCommand
  \/ ClearSlot
  \/ \E p \in BOOLEAN : Connect(p)
  \/ ConnectFails
  \/ ResumeSession
  \/ GetCommandFails
  \/ NothingToResubscribe
  \/ LoopReceive
  \/ \E sent \in BOOLEAN : ExecuteQoS0(sent)
  \/ \E sent \in BOOLEAN : ExecuteQoS1(sent)
  \/ \E sent \in BOOLEAN : ExecuteSubscribe(sent)
  \/ \E a \in acks : ReceiveAck(a)
  \/ NothingReceived
  \/ ProcessLoopFails
  \/ Disconnect

Next ==
  \/ \E c \in Callers : CallerStep(c)
  \/ SocketReady
  \/ AgentStep

Spec == Init /\ [][Next]_vars

-----------------------------------------------------------------------------
(* Where a command is.                                                     *)

\* Entries of the pending list whose command is still theirs: not the entry
\* whose command the agent has in hand, or has just released.
Awaiting == Occupied \ {slot}
AwaitingCommands == {pending[s].cmd : s \in Awaiting}

\* Handed to the agent, callback not yet run.
Submitted ==
  Queued \cup AwaitingCommands
    \cup (IF apc \in {"execute", "callback"} THEN {hand} ELSE {})

-----------------------------------------------------------------------------
(* Properties.                                                             *)

\* The type of every variable.
TypeOK ==
  /\ pool \subseteq Commands
  /\ kind \in [Commands -> Kinds \cup {Nothing}]
  /\ owner \in [Commands -> Callers \cup {NoCaller}]
  /\ queue \in Seq(Commands)
  /\ notify \subseteq {"M_QUEUE", "SOCKET_RECV"}
  /\ call \in [Callers -> CallPC]
  /\ held \in [Callers -> Commands \cup {NoCommand}]
  /\ apc \in AgentPC
  /\ hand \in Commands \cup {NoCommand}
  /\ slot \in 0..MaxOutstandingAcks
  /\ ret \in {"cancelQueue", "cancelAcks", "poll", Nowhere}
  /\ cancelRet \in {"connect", "disconnect", Nowhere}
  /\ pending \in [Slots -> [id : 0..MaxPacketId, cmd : Commands \cup {NoCommand}]]
  /\ clean \in BOOLEAN
  /\ sessionPresent \in BOOLEAN
  /\ nextId \in PacketIds
  /\ records \in [PacketIds -> {"none", "send", "ack"}]
  /\ acks \subseteq [type : Kinds, id : PacketIds]
  /\ owed \in [Callers -> Int]

HeldCommands == {held[c] : c \in Callers} \ {NoCommand}
InHand == {hand} \ {NoCommand}

\* No command structure leaks: each is in the pool, the queue, the pending
\* list, or in the hands of one task (Agent_GetCommand is never short of a
\* structure because one was forgotten on an error path).
NoCommandLost ==
  Commands = pool \cup Queued \cup HeldCommands \cup InHand \cup AwaitingCommands

\* No command structure has two owners: none is released twice, queued twice
\* or awaits two acknowledgments, so no task writes a structure that another
\* one reads.
NoCommandShared ==
  /\ \A i, j \in 1..Len(queue) : queue[i] = queue[j] => i = j
  /\ \A c, d \in Callers : held[c] = held[d] => c = d \/ held[c] = NoCommand
  /\ \A s, t \in Awaiting : pending[s].cmd = pending[t].cmd => s = t
  /\ pool \cap (Queued \cup HeldCommands \cup InHand \cup AwaitingCommands) = {}
  /\ Queued \cap (HeldCommands \cup InHand \cup AwaitingCommands) = {}
  /\ HeldCommands \cap (InHand \cup AwaitingCommands) = {}
  /\ InHand \cap AwaitingCommands = {}

\* The queue is as long as the pool (MQTT_AGENT_COMMAND_QUEUE_LENGTH), so
\* addCommandToQueue never fails: a caller that got a structure has room.
SendNeverFails ==
  Cardinality(Commands) <= QueueLength =>
    \A c \in Callers : call[c] = "send" => Len(queue) < QueueLength

\* The command loop is running on an open connection.
LoopRunning ==
  \/ apc \in {"receive", "execute", "poll"}
  \/ apc \in {"callback", "release", "clear"} /\ ret = "poll"

\* While the loop runs, what awaits an acknowledgment and what the broker
\* still has to acknowledge are the same, with the same packet identifier
\* and the same kind of operation: no PUBACK can conclude a subscribe, no
\* acknowledgment finds nobody waiting (getAwaitingOperation in
\* mqttEventCallback) and handlePublishAcks always finds its record.
AcksMatchOperations ==
  LoopRunning =>
    /\ acks = {[type |-> kind[pending[s].cmd], id |-> pending[s].id] : s \in Awaiting}
    /\ \A a \in acks : a.type = "QoS1" => records[a.id] = "ack"
    /\ \A s, t \in Awaiting : pending[s].id = pending[t].id => s = t

\* Nothing that awaited an acknowledgment on one connection is still
\* awaiting it when the next one is set up.
NothingAwaitsAcrossConnections ==
  apc \in {"disconnect", "offline", "connect", "resume", "resubscribe"} => Occupied = {}

\* A structure the agent has accepted is not rewritten by anybody until its
\* callback has run (createCommand clears and refills the whole structure).
SubmittedIsImmutable ==
  [][\A m \in Submitted : kind'[m] = kind[m] /\ owner'[m] = owner[m]]_vars

\* The refinement: where the structures of this module put each command in
\* its life cycle.
Stage == [m \in Commands |->
  CASE m \in pool -> "free"
    [] m \in HeldCommands -> "building"
    [] m \in Submitted -> "submitted"
    [] m = hand /\ apc = "release" -> "called"
    [] OTHER -> "lost"]

Lifecycle == INSTANCE CommandLifecycle WITH stage <- Stage

\* The agent implements the life cycle: every accepted call gets its
\* callback exactly once, before its structure is used again.
ImplementsLifecycle == Lifecycle!Spec
OwedIsSubmitted == Lifecycle!OwedIsSubmitted

-----------------------------------------------------------------------------
(* Liveness.  The agent task is never blocked for ever by another task, so *)
(* AgentStep is weakly fair; so is each caller once it is inside           *)
(* createAndAddCommand.  For an acknowledgment we assume what keep-alive   *)
(* and the broker provide: it arrives if the loop goes on long enough.     *)

Fairness ==
  /\ WF_vars(AgentStep)
  /\ \A c \in Clients : WF_vars(CallerStep(c) /\ call[c] # "idle")
  /\ WF_vars(CallerStep(Self))
  /\ \A a \in [type : Kinds, id : PacketIds] : SF_vars(ReceiveAck(a))

FairSpec == Spec /\ Fairness

\* If the clients eventually stop calling, whatever awaits an acknowledgment
\* is concluded in the end, by its acknowledgment or by MQTTAgent_CancelAll.
AwaitingIsConcluded ==
  <>[](\A c \in Clients : call[c] = "idle") =>
    \A m \in Commands : m \in AwaitingCommands ~> m \notin AwaitingCommands

-----------------------------------------------------------------------------
(* What the comments say and the code does not do.                         *)

\* core_mqtt_agent.h on MQTTAgent_ResumeSession: "Resume a session by
\* resending publishes if a session is present in the broker".  Every
\* publish that has a record is sent again.
ResumeResendsPublishes ==
  [][apc = "resume" /\ sessionPresent /\ apc' # "resume" =>
       \A i \in PacketIds : records[i] # "none" => [type |-> "QoS1", id |-> i] \in acks']_vars

\* prvAgentMessageSend: "Notify the agent that a message is waiting".  A
\* waiting message is received.
QueuedIsReceived == \A m \in Commands : m \in Queued ~> m \notin Queued
=============================================================================
