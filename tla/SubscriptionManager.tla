-------------------------- MODULE SubscriptionManager --------------------------
(***************************************************************************)
(* MqttAgent_SubscribeSync and MqttAgent_UnSubscribeSync over the tables   *)
(* of the subscription manager, and what the agent task does to the same   *)
(* tables when it loses the connection, reconnects and resubscribes.       *)
(*                                                                         *)
(* A section under the mutex is one step of the task that runs it: no      *)
(* task blocks inside one.  So the mutex is free, or the agent holds it,   *)
(* which it does over many steps.  How the agent takes, executes and       *)
(* concludes a command is MQTTAgent; here a command is queued, or sent to  *)
(* the broker, and concluded by its acknowledgment or by a cancellation,   *)
(* which may leave commands in the queue: it stops where a wake-up is lost *)
(* or comes together with that of the socket.                              *)
(***************************************************************************)
EXTENDS Integers, FiniteSets, Sequences

CONSTANTS
  Tasks,         \* the tasks that subscribe; one with several filters counts several times
  Topics, TopicOf,  \* topic filters; the one each task subscribes to
  QoS0Topics,    \* the filters that are asked for with QoS 0, the rest with QoS 1
  MaxSubs,       \* MQTT_AGENT_MAX_SUBSCRIPTIONS
  MaxCallbacks,  \* MQTT_AGENT_MAX_CALLBACKS
  MaxCbCount,    \* bound of the model on pulSubCbCount
  Own,           \* the agent task's own SUBSCRIBE commands
  NoTopic,
  Refused,       \* filters the broker does not let the device subscribe to
  EarlyPublish   \* the broker publishes on a filter before its SUBACK

ASSUME TablesAssumption ==
  /\ TopicOf \in [Tasks -> Topics] /\ {QoS0Topics, Refused} \subseteq SUBSET Topics
  /\ MaxSubs \in Nat \ {0} /\ MaxCallbacks \in Nat \ {0}
  /\ MaxCbCount \in Nat \ {0}
  /\ Own \cap Tasks = {} /\ NoTopic \notin Topics
  /\ EarlyPublish \in BOOLEAN

Slots == 1..MaxSubs
NoSlot == 0
Senders == Tasks \cup Own

VARIABLES
  \* SubMgrCtx_t
  filter,     \* pxSubscriptions: the filter in each slot
  subAck,     \* pxSubAckStatus: "failure" (0x80) or "granted"
  cbCount,    \* pulSubCbCount
  callbacks,  \* pxCallbacks: the slot and the task of each entry
  asked,      \* xInitialSubscribeArgs.numSubscriptions
  locked,     \* the agent holds xMutex
  \* the agent task
  phase,      \* where vMQTTAgentTask is
  clean,      \* xConnectInfo.cleanSession
  queue,      \* senders whose command is in the command queue
  sent,       \* "no", or whether the broker has answered the command sent
  \* the callers
  pc,         \* where each task is in its call
  slot,       \* uxTargetSubIdx
  count,      \* ulCallbackCount
  note,       \* the notification the command's callback sends
  \* the broker's session, and the calls that have succeeded
  known,      \* the filters of the session
  subscribed, \* tasks whose call has returned MQTTSuccess
  misplaced,  \* history: tasks whose last call found a slot without a filter
  left        \* history: the last disconnection left a SUBSCRIBE of the agent's

tables == <<filter, subAck, cbCount, callbacks>>
agent == <<phase, clean, asked>>
commands == <<queue, sent>>
callers == <<pc, slot, count, note>>
history == <<misplaced, left>>
vars == <<tables, locked, agent, commands, callers, known, subscribed, history>>

Phases == {"offline", "connecting", "up", "closing", "locking", "blocked", "halted"}
PCs == {"idle", "subSend", "subWait", "unsubSend", "unsubWait", "unsubRemove"}
Notes == {"none", "granted", "refused", "lost"}

\* prvSubscriptionManagerCtxInit creates the mutex and takes it.
Init ==
  /\ filter = [i \in Slots |-> NoTopic] /\ subAck = [i \in Slots |-> "failure"]
  /\ cbCount = [i \in Slots |-> 0] /\ callbacks = {}
  /\ locked = TRUE
  /\ phase = "offline" /\ clean = TRUE /\ asked = 0
  /\ queue = <<>> /\ sent = [c \in Senders |-> "no"]
  /\ pc = [t \in Tasks |-> "idle"] /\ slot = [t \in Tasks |-> NoSlot]
  /\ count = [t \in Tasks |-> 0] /\ note = [t \in Tasks |-> "none"]
  /\ known = {} /\ subscribed = {} /\ misplaced = {} /\ left = FALSE

First(slots) == CHOOSE i \in slots : \A j \in slots : i <= j
FirstOrNone(slots) == IF slots = {} THEN NoSlot ELSE First(slots)

Enqueue(c) == queue' = Append(queue, c)

-----------------------------------------------------------------------------
(* MqttAgent_SubscribeSync.                                                *)

\* The slot the search ends at.  An empty slot that is not the first one
\* compares equal to any filter, since it compares zero characters.
Empty == {i \in Slots : filter[i] = NoTopic}
Matches(topic) == {i \in Slots : filter[i] = topic \/ (i \in Empty /\ i # First(Empty))}
Target(topic) ==
  IF Matches(topic) # {} THEN First(Matches(topic)) ELSE FirstOrNone(Empty)

\* The status is reset for the first empty slot it passes, and for a match
\* whose QoS differs: empty slots have QoS 0.
ResetAck(topic) ==
  [i \in Slots |->
     IF \/ i = FirstOrNone(Empty) /\ i <= Target(topic)
        \/ i = Target(topic) /\ i \in Empty /\ topic \notin QoS0Topics
     THEN "failure" ELSE subAck[i]]

\* The section under the mutex.  No slot, no room for a callback or no memory
\* for the filter: the call fails.
SubscribeSync(t) ==
  LET topic == TopicOf[t]
      s == Target(topic)
      entry == [sub |-> s, task |-> t]
      ack == ResetAck(topic)
      fits == s # NoSlot /\ (entry \in callbacks \/ Cardinality(callbacks) < MaxCallbacks)
      copies == fits /\ ack[s] = "failure" /\ filter[s] = NoTopic
  IN  /\ pc[t] = "idle" /\ ~locked
      /\ fits /\ entry \notin callbacks => cbCount[s] < MaxCbCount
      /\ subAck' = ack
      /\ \/ /\ ~fits \/ copies
            /\ UNCHANGED <<filter, cbCount, callbacks, pc, slot, misplaced>>
         \/ /\ fits
            /\ filter' = IF copies THEN [filter EXCEPT ![s] = topic] ELSE filter
            /\ callbacks' = callbacks \cup {entry}
            /\ cbCount' = IF entry \in callbacks THEN cbCount
                                                 ELSE [cbCount EXCEPT ![s] = @ + 1]
            /\ pc' = [pc EXCEPT ![t] = "subSend"] /\ slot' = [slot EXCEPT ![t] = s]
            /\ misplaced' = IF filter'[s] = NoTopic THEN misplaced \cup {t} ELSE misplaced \ {t}
      /\ UNCHANGED <<locked, agent, commands, count, note, known, subscribed, left>>

Return(t) == pc' = [pc EXCEPT ![t] = "idle"] /\ slot' = [slot EXCEPT ![t] = NoSlot]

\* Outside the mutex: prvSendSubRequest, unless the filter is subscribed.
SendSubRequest(t) ==
  /\ pc[t] = "subSend"
  /\ \/ /\ subAck[slot[t]] = "failure"
        /\ Enqueue(t) /\ pc' = [pc EXCEPT ![t] = "subWait"] /\ UNCHANGED <<slot, subscribed>>
     \/ /\ subAck[slot[t]] = "failure"  \* no command structure
        /\ Return(t) /\ UNCHANGED <<queue, subscribed>>
     \/ /\ subAck[slot[t]] = "granted"
        /\ Return(t) /\ subscribed' = subscribed \cup {t} /\ UNCHANGED queue
  /\ UNCHANGED <<tables, locked, agent, sent, count, note, known, history>>

\* The notification carries the SUBACK code.  It is 0, a grant, for a command
\* that was concluded without a SUBACK; then the call reports an error.
SubRequestDone(t) ==
  /\ pc[t] = "subWait" /\ note[t] # "none"
  /\ subAck' = [subAck EXCEPT ![slot[t]] = IF note[t] = "refused" THEN "failure" ELSE "granted"]
  /\ subscribed' = IF note[t] = "granted" THEN subscribed \cup {t} ELSE subscribed
  /\ note' = [note EXCEPT ![t] = "none"]
  /\ Return(t)
  /\ UNCHANGED <<filter, cbCount, callbacks, locked, agent, commands, count, known, history>>

-----------------------------------------------------------------------------
(* MqttAgent_UnSubscribeSync.                                              *)

\* Faulty variant of UnSubscribeSync: the count is not compared with 0.
UnSubscribeSyncUnchecked(t) ==
  LET s == FirstOrNone({i \in Slots : filter[i] = TopicOf[t]})
  IN  /\ pc[t] = "idle" /\ ~locked /\ s # NoSlot
      /\ count' = [count EXCEPT ![t] = cbCount[s]]
      /\ cbCount' = [cbCount EXCEPT ![s] = @ - 1]
      /\ pc' = [pc EXCEPT ![t] = IF cbCount[s] = 1 THEN "unsubSend" ELSE "unsubRemove"]
      /\ subscribed' = subscribed \ {t}
      /\ UNCHANGED <<filter, subAck, callbacks, locked, agent, commands, slot, note, known, history>>

\* The first section under the mutex.
UnSubscribeSync(t) ==
  LET s == FirstOrNone({i \in Slots : filter[i] = TopicOf[t]})
      n == IF s = NoSlot THEN 0 ELSE cbCount[s]
  IN  /\ pc[t] = "idle" /\ ~locked
      /\ count' = [count EXCEPT ![t] = n]
      /\ cbCount' = IF n > 0 THEN [cbCount EXCEPT ![s] = n - 1] ELSE cbCount
      /\ pc' = [pc EXCEPT ![t] = IF n = 1 THEN "unsubSend" ELSE "unsubRemove"]
      /\ subscribed' = subscribed \ {t}
      /\ UNCHANGED <<filter, subAck, callbacks, locked, agent, commands, slot, note, known, history>>

\* prvSendUnsubRequest; it fails when there is no command structure.
SendUnsubRequest(t) ==
  /\ pc[t] = "unsubSend"
  /\ \/ Enqueue(t) /\ pc' = [pc EXCEPT ![t] = "unsubWait"]
     \/ pc' = [pc EXCEPT ![t] = "unsubRemove"] /\ UNCHANGED queue
  /\ UNCHANGED <<tables, locked, agent, sent, slot, count, note, known, subscribed, history>>

UnsubRequestDone(t) ==
  /\ pc[t] = "unsubWait" /\ note[t] # "none"
  /\ note' = [note EXCEPT ![t] = "none"]
  /\ pc' = [pc EXCEPT ![t] = "unsubRemove"]
  /\ UNCHANGED <<tables, locked, agent, commands, slot, count, known, subscribed, history>>

\* The second section under the mutex: the callback goes, and with the last
\* one the filter, if the slot that holds it has a count of 0 by now.
RemoveCallback(t) ==
  LET s == FirstOrNone({i \in Slots : cbCount[i] = 0 /\ filter[i] = TopicOf[t]})
      entry == [sub |-> s, task |-> t]
      last == entry \in callbacks /\ count[t] = 1
  IN  /\ pc[t] = "unsubRemove" /\ ~locked
      /\ callbacks' = callbacks \ {entry}
      /\ filter' = IF last THEN [filter EXCEPT ![s] = NoTopic] ELSE filter
      /\ subAck' = IF last THEN [subAck EXCEPT ![s] = "failure"] ELSE subAck
      /\ count' = [count EXCEPT ![t] = 0]
      /\ Return(t)
      /\ UNCHANGED <<cbCount, locked, agent, commands, note, known, subscribed, history>>

-----------------------------------------------------------------------------
(* The agent task.                                                         *)

\* prvCompressSubscriptionList: the filters move to the front, and the
\* callbacks follow them; pulSubCbCount and pxSubAckStatus do not.
Used == {i \in Slots : filter[i] # NoTopic}
Rank(i) == Cardinality({j \in Used : j <= i})

\* Faulty variant of CompressSubscriptionList: the callbacks stay behind.
CompressForgetsCallbacks ==
  /\ filter' = [i \in Slots |-> IF i <= Cardinality(Used)
                                THEN filter[CHOOSE j \in Used : Rank(j) = i] ELSE NoTopic]
  /\ UNCHANGED <<callbacks, cbCount, subAck>>

CompressSubscriptionList ==
  /\ filter' = [i \in Slots |-> IF i <= Cardinality(Used)
                                THEN filter[CHOOSE j \in Used : Rank(j) = i] ELSE NoTopic]
  /\ callbacks' = {[sub |-> IF e.sub \in Used THEN Rank(e.sub) ELSE e.sub, task |-> e.task] :
                     e \in callbacks}
  /\ UNCHANGED <<cbCount, subAck>>

\* prvResubscribeCommandCallback stores a code for each of the first
\* uxSubscriptionCount slots, and gives the mutex.
Active == 1..Cardinality(Used)
ResubscribeCallback(codes) ==
  /\ subAck' = [i \in Slots |-> IF i \in Active THEN codes[i] ELSE subAck[i]]
  /\ locked' = FALSE

\* Its assertion on MUTEX_IS_OWNED holds whenever the commands in C are concluded.
MutexIsOwned(C) == C \cap Own # {} => locked /\ \A a, b \in C \cap Own : a = b

\* The callbacks of the commands of the senders in C, without an answer.  The
\* agent's own then reads its codes through a null pointer: any values.
ConcludeAll(C) ==
  /\ MutexIsOwned(C)
  /\ note' = [t \in Tasks |-> IF t \in C THEN "lost" ELSE note[t]]
  /\ IF C \cap Own # {}
     THEN \E codes \in [Active -> {"failure", "granted"}] : ResubscribeCallback(codes)
     ELSE UNCHANGED <<subAck, locked>>

\* The n commands at the head of the queue, and those that await an acknowledgment.
FromQueue(n) == {queue[i] : i \in 1..n}
Waiting == {c \in Senders : sent[c] # "no"}


\* MQTTAgent_CancelAll stops at the first receive that returns no command.
CancelAll ==
  \E n \in 0..Len(queue) :
    /\ queue' = SubSeq(queue, n + 1, Len(queue))
    /\ sent' = [c \in Senders |-> "no"]
    /\ ConcludeAll(FromQueue(n) \cup Waiting)

\* The TLS connection is made.
StartConnect ==
  /\ phase = "offline"
  /\ phase' = "connecting"
  /\ CancelAll
  /\ UNCHANGED <<filter, cbCount, callbacks, clean, asked, pc, slot, count, known, subscribed, history>>

\* The broker may have begun a new session all the same.
ConnectFails ==
  /\ phase = "connecting"
  /\ phase' = "closing"
  /\ known' \in {known, {}}
  /\ UNCHANGED <<tables, locked, clean, asked, commands, callers, subscribed, history>>

-----------------------------------------------------------------------------
(* The connection.                                                         *)

\* prvHandleResubscribe, which asserts MUTEX_IS_OWNED too; the callback of its
\* SUBSCRIBE gives the mutex.
Queued == {queue[i] : i \in 1..Len(queue)}
Pending == Own \cap (Queued \cup Waiting)

HandleResubscribe ==
  /\ locked
  /\ CompressSubscriptionList
  /\ IF Used = {}
     THEN locked' = FALSE /\ phase' = "up" /\ UNCHANGED <<queue, asked>>
     ELSE /\ UNCHANGED locked /\ asked' = Cardinality(Used)
          /\ \/ Own \ Pending # {} /\ Enqueue(CHOOSE c \in Own \ Pending : TRUE) /\ phase' = "up"
             \/ phase' = "closing" /\ UNCHANGED queue  \* no command structure

\* MQTT_Connect succeeds on a clean session, resumes the one the broker has,
\* or begins one without clean-up.
ConnectClean ==
  /\ phase = "connecting" /\ clean
  /\ known' = {}
  /\ filter' = [i \in Slots |-> NoTopic] /\ subAck' = [i \in Slots |-> "failure"]
  /\ cbCount' = [i \in Slots |-> 0] /\ callbacks' = {} /\ asked' = 0
  /\ locked' = FALSE /\ phase' = "up" /\ clean' = FALSE
  /\ UNCHANGED <<commands, callers, subscribed, history>>

ConnectPresent ==
  /\ phase = "connecting" /\ ~clean
  /\ locked' = FALSE /\ phase' = "up"
  /\ UNCHANGED <<tables, clean, asked, commands, callers, known, subscribed, history>>

ConnectNew ==
  /\ phase = "connecting" /\ ~clean
  /\ known' = {}
  /\ HandleResubscribe
  /\ UNCHANGED <<clean, sent, callers, subscribed, history>>

\* The loop sends the command at the head of the queue; the broker gets it
\* and answers, or the connection breaks first.
Granted(topics) == topics \ Refused
Subscribes(c) ==
  CASE c \in Own -> {filter[i] : i \in 1..asked}
    [] c \in Tasks /\ pc[c] = "subWait" -> {filter[slot[c]]}
    [] OTHER -> {}
Unsubscribes(c) == IF c \in Tasks /\ pc[c] = "unsubWait" THEN {TopicOf[c]} ELSE {}

ExecuteCommand ==
  LET c == Head(queue)
  IN  /\ phase = "up" /\ queue # <<>> /\ NoTopic \notin Subscribes(c)
      /\ queue' = Tail(queue)
      /\ \/ /\ sent' = [sent EXCEPT ![c] = "answered"]
            /\ known' = (known \cup Granted(Subscribes(c))) \ Unsubscribes(c)
         \/ sent' = [sent EXCEPT ![c] = "unanswered"] /\ UNCHANGED known
      /\ UNCHANGED <<tables, locked, agent, callers, subscribed, history>>

\* The command cannot be sent; that ends the loop.
ExecuteFails ==
  /\ phase = "up" /\ queue # <<>>
  /\ queue' = Tail(queue)
  /\ phase' = "closing"
  /\ ConcludeAll({Head(queue)})
  /\ UNCHANGED <<filter, cbCount, callbacks, clean, asked, sent, pc, slot, count, known, subscribed,
                 history>>

ReceiveAck(c) ==
  /\ phase = "up" /\ sent[c] = "answered"
  /\ sent' = [sent EXCEPT ![c] = "no"]
  /\ MutexIsOwned({c})
  /\ IF c \in Own
     THEN /\ ResubscribeCallback([i \in Active |-> IF filter[i] \in Refused THEN "failure"
                                                                        ELSE "granted"])
          /\ UNCHANGED note
     ELSE /\ note' = [note EXCEPT ![c] = IF Granted(Subscribes(c)) = Subscribes(c)
                                         THEN "granted" ELSE "refused"]
          /\ UNCHANGED <<subAck, locked>>
  /\ UNCHANGED <<filter, cbCount, callbacks, agent, queue, pc, slot, count, known, subscribed, history>>

\* An assertion on MUTEX_IS_OWNED fails, in the callback of an own SUBSCRIBE that
\* is concluded or in prvHandleResubscribe: the device stops.
AssertionFails ==
  /\ \/ /\ phase \in {"offline", "closing"}
        /\ \E n \in 0..Len(queue) : ~MutexIsOwned(FromQueue(n) \cup Waiting)
     \/ phase = "connecting" /\ ~clean /\ ~locked
     \/ phase = "up" /\ queue # <<>> /\ ~MutexIsOwned({Head(queue)})
     \/ phase = "up" /\ \E c \in Own : sent[c] = "answered" /\ ~MutexIsOwned({c})
  /\ phase' = "halted"
  /\ UNCHANGED <<tables, locked, clean, asked, commands, callers, known, subscribed, history>>

\* prvIncomingPublishCallback takes the mutex to look for the callbacks: an
\* agent that holds it already waits for itself for ever.
IncomingPublish ==
  /\ phase = "up" /\ known # {}
  /\ locked => EarlyPublish
  /\ phase' = IF locked THEN "blocked" ELSE phase
  /\ UNCHANGED <<tables, locked, clean, asked, commands, callers, known, subscribed, history>>

LoopEnds ==
  /\ phase = "up"
  /\ phase' = "closing"
  /\ UNCHANGED <<tables, locked, clean, asked, commands, callers, known, subscribed, history>>

Close ==
  /\ phase = "closing"
  /\ phase' = "locking"
  /\ CancelAll
  /\ left' = \E c \in Own, i \in DOMAIN queue' : queue'[i] = c
  /\ UNCHANGED <<filter, cbCount, callbacks, clean, asked, pc, slot, count, known, subscribed, misplaced>>

\* Faulty variant of LockTables: the mutex is not taken again.
LockTablesNot ==
  /\ phase = "locking"
  /\ phase' = "offline"
  /\ subAck' = [i \in Slots |-> "failure"]
  /\ UNCHANGED <<filter, cbCount, callbacks, locked, clean, asked, commands, callers, known, subscribed,
                 history>>

LockTables ==
  /\ phase = "locking"
  /\ locked' = TRUE
  /\ phase' = "offline"
  /\ subAck' = [i \in Slots |-> "failure"]
  /\ UNCHANGED <<filter, cbCount, callbacks, clean, asked, commands, callers, known, subscribed, history>>

Alive == phase # "halted"

CallStep(t) ==
  /\ Alive
  /\ SendSubRequest(t) \/ SubRequestDone(t) \/ SendUnsubRequest(t) \/ UnsubRequestDone(t)

TaskStep(t) ==
  \/ CallStep(t)
  \/ Alive /\ (SubscribeSync(t) \/ UnSubscribeSync(t) \/ RemoveCallback(t))

ConnectMade == ConnectClean \/ ConnectPresent \/ ConnectNew
Execute == ExecuteCommand \/ ExecuteFails
AgentStep ==
  StartConnect \/ ConnectMade \/ Execute \/ Close \/ LockTables
  \/ \E c \in Senders : ReceiveAck(c)

Next ==
  \/ \E t \in Tasks : TaskStep(t)
  \/ AgentStep
  \/ ConnectFails \/ IncomingPublish \/ LoopEnds
  \/ AssertionFails
  \/ ~Alive /\ UNCHANGED vars

Spec == Init /\ [][Next]_vars

-----------------------------------------------------------------------------
(* Properties.                                                             *)

\* The type of every variable.
TypeOK ==
  /\ filter \in [Slots -> Topics \cup {NoTopic}]
  /\ subAck \in [Slots -> {"failure", "granted"}]
  /\ cbCount \in [Slots -> Nat]
  /\ callbacks \subseteq [sub : Slots, task : Tasks]
  /\ Cardinality(callbacks) <= MaxCallbacks
  /\ locked \in BOOLEAN /\ phase \in Phases /\ clean \in BOOLEAN /\ asked \in 0..MaxSubs
  /\ queue \in Seq(Senders) /\ sent \in [Senders -> {"no", "unanswered", "answered"}]
  /\ pc \in [Tasks -> PCs] /\ slot \in [Tasks -> Slots \cup {NoSlot}]
  /\ count \in [Tasks -> Nat] /\ note \in [Tasks -> Notes]
  /\ known \subseteq Topics /\ subscribed \subseteq Tasks
  /\ misplaced \subseteq Tasks /\ left \in BOOLEAN

\* What the assertions on MUTEX_IS_OWNED of vMQTTAgentTask and of
\* prvResubscribeCommandCallback say: no task changes the tables from a
\* disconnection until the resubscription is acknowledged.  So it is, and no
\* assertion fails, unless a SUBSCRIBE of the agent's outlives its connection.
AgentHoldsTables ==
  ~left => /\ phase \in {"offline", "connecting"} \/ Pending # {} => locked
           /\ phase # "halted"

\* Once MqttAgent_SubscribeSync has returned MQTTSuccess, and until the task
\* unsubscribes, its callback is reached through its filter, wherever
\* reconnections and other tasks' calls have moved them, if no other task uses
\* the filter and the call did not pair the callback with an empty slot.
Exclusive(t) == \A u \in Tasks \ {t} : TopicOf[u] # TopicOf[t]
Routed(t) == \E e \in callbacks : e.task = t /\ filter[e.sub] = TopicOf[t]

SubscribedIsRouted == \A t \in subscribed \ misplaced : Exclusive(t) => Routed(t)

\* The agent task runs, and connections are made again and again, of which some
\* last until the next command is taken; the broker answers what it has got,
\* and a connection that lost a command is given up.
Fairness ==
  /\ WF_vars(StartConnect) /\ SF_vars(ConnectMade /\ phase' = "up") /\ SF_vars(Execute \/ AssertionFails)
  /\ WF_vars(Close) /\ WF_vars(LockTables)
  /\ \A c \in Senders : WF_vars(ReceiveAck(c))
  /\ WF_vars(LoopEnds /\ \E c \in Senders : sent[c] = "unanswered")
  /\ \A t \in Tasks : WF_vars(CallStep(t)) /\ SF_vars(Alive /\ RemoveCallback(t))
FairSpec == Spec /\ Fairness


-----------------------------------------------------------------------------
(* What the comments say and the code does not do.                         *)

\* configASSERT( MUTEX_IS_OWNED( pxCtx->xMutex ) ) in prvResubscribeCommandCallback.
CallbackOwnsMutex == phase # "halted"

\* "@return `MQTTSuccess` if the subscription was added successfully."
SuccessIsAdded == \A t \in subscribed : Exclusive(t) => Routed(t)

\* "This implementation allows multiple tasks to subscribe to the same topic", and
\* unsubscribing unsubscribes from the topic "is no other callback exist for the
\* same filter".
LastOneUnsubscribes == \A t \in subscribed \ misplaced : Routed(t)

\* A connection that finds a session present: the comment in vMQTTAgentTask says
\* "No need to resubscribe as a session is present and the broker is aware of
\* the previous subscriptions".
BrokerIsAware == [][ConnectPresent => \A t \in subscribed : TopicOf[t] \in known]_vars
=============================================================================
