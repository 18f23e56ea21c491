------------------------------ MODULE SockNotify ------------------------------
(***************************************************************************)
(* The TLS transport as the MQTT agent uses it (mbedtls_transport.c): one  *)
(* connection after another, each with a thread of idle priority that      *)
(* waits in select for its socket to be readable, calls the agent back     *)
(* (prvSocketRecvReadyCallback) and then waits for the agent's next        *)
(* successful receive before it selects again.  The agent stops the thread *)
(* through the same notification value, and must before it closes the      *)
(* socket: thread, stack and task block are used again.                    *)
(*                                                                         *)
(* What arrives is a sequence of pieces: Record completes application      *)
(* data, Part does not (half a record, or a post-handshake message), Alert *)
(* is the peer's close-notify.  The TLS handshake and the MQTT session     *)
(* over the connection are left out.                                       *)
(***************************************************************************)
EXTENDS Integers, Sequences

CONSTANT MaxUnread  \* bound: pieces the peer has sent and nobody has read

ASSUME MaxUnreadAssumption == MaxUnread \in Nat \ {0}

Record == "record"
Part   == "part"
Alert  == "alert"
Pieces == {Record, Part, Alert}

VARIABLES
  \* the agent task
  apc,         \* where it is
  connected,   \* xConnectionState = STATE_CONNECTED
  open,        \* xSockHandle >= 0
  handle,      \* xTaskHandle # NULL
  recvReady,   \* MQTT_AGENT_NOTIFY_FLAG_SOCKET_RECV is set
  \* the notify thread
  tpc,         \* where it is, "none" when it has been deleted
  xExitFlag,
  tnote,       \* its pending notification: "none", "rearm" (0) or "stop" (0xFFFFFFFF)
  \* the socket and the peer
  unread,
  fin,         \* the peer has closed its direction
  err,         \* the connection was reset or given up by TCP
  closing,     \* one side has sent its close-notify
  \* history: the thread's socket has not been closed; the last data received
  \* since the last success was of no use
  watched, fruitless

agent  == <<apc, connected, open, handle, recvReady>>
thread == <<tpc, xExitFlag, tnote>>
socket == <<unread, fin, err, closing>>
history == <<watched, fruitless>>
vars == <<agent, thread, socket, history>>

Init ==
  /\ apc = "connect" /\ connected = FALSE /\ open = FALSE /\ handle = FALSE
  /\ recvReady = FALSE
  /\ tpc = "none" /\ xExitFlag = FALSE /\ tnote = "none"
  /\ unread = <<>> /\ fin = FALSE /\ err = FALSE /\ closing = FALSE
  /\ watched = FALSE /\ fruitless = FALSE

-----------------------------------------------------------------------------
(* vSocketNotifyThread.                                                    *)

\* It forgets a notification that came before it ran.
Start ==
  /\ tpc = "start"
  /\ tnote' = "none" /\ xExitFlag' = FALSE
  /\ tpc' = "loop"
  /\ UNCHANGED <<agent, socket, history>>

Loop ==
  /\ tpc = "loop"
  /\ tpc' = IF xExitFlag THEN "leave" ELSE "select"
  /\ handle' = IF xExitFlag THEN FALSE ELSE handle
  /\ UNCHANGED <<apc, connected, open, recvReady, xExitFlag, tnote, socket, history>>

Readable == unread # <<>> \/ fin
Failed   == err \/ ~watched

\* What sock_select reports is what its last scan of the socket finds.  On an
\* error, or when there is nothing, the thread leaves once it has been
\* notified, and does not call the agent back.
SelectReturns ==
  /\ xExitFlag' = (Failed \/ ~Readable)
  /\ tpc' = IF Failed \/ ~Readable THEN "wait" ELSE "callback"

\* It is called without a timeout: if there is nothing to report it waits for
\* an event of the socket (Signal).
Select ==
  /\ tpc = "select"
  /\ IF Readable \/ Failed THEN SelectReturns ELSE tpc' = "blocked" /\ UNCHANGED xExitFlag
  /\ UNCHANGED <<agent, tnote, socket, history>>

\* The thread has the lowest priority: between the event and the scan the
\* agent may have read what came.
SelectWakes ==
  /\ tpc = "woken"
  /\ SelectReturns
  /\ UNCHANGED <<agent, tnote, socket, history>>

\* prvSocketRecvReadyCallback
RecvReadyCallback ==
  /\ tpc = "callback"
  /\ recvReady' = TRUE
  /\ tpc' = "wait"
  /\ UNCHANGED <<apc, connected, open, handle, xExitFlag, tnote, socket, history>>

\* Faulty variant of NotifyWait: any notification lets it select again.
NotifyWaitIgnoresStop ==
  /\ tpc = "wait" /\ tnote # "none"
  /\ tnote' = "none" /\ UNCHANGED xExitFlag
  /\ tpc' = "loop"
  /\ UNCHANGED <<agent, socket, history>>

NotifyWait ==
  /\ tpc = "wait" /\ tnote # "none"
  /\ xExitFlag' = (xExitFlag \/ tnote = "stop")
  /\ tnote' = "none"
  /\ tpc' = "loop"
  /\ UNCHANGED <<agent, socket, history>>

\* vTaskDelete(NULL)
Delete ==
  /\ tpc = "leave"
  /\ tpc' = "none" /\ tnote' = "none"
  /\ UNCHANGED <<agent, xExitFlag, socket, history>>

Thread ==
  Start \/ Loop \/ Select \/ SelectWakes \/ RecvReadyCallback \/ NotifyWait \/ Delete

-----------------------------------------------------------------------------
(* The agent task: connect and disconnect.                                 *)

\* The places of vStopSocketNotifyTask, and what follows each of them.
Stopping == {"create", "recvStop", "stop"}
AfterStop(p) ==
  CASE p = "create" -> "spawn" [] p = "recvStop" -> "recvClose" [] p = "stop" -> "close"

\* mbedtls_transport_connect up to the end of the handshake.  A socket of a
\* connection that fails is closed.
Connect(succeeds) ==
  /\ apc = "connect"
  /\ open' = succeeds
  /\ apc' = IF succeeds THEN "create" ELSE "connect"
  /\ unread' = <<>> /\ fin' = FALSE /\ err' = FALSE /\ closing' = FALSE
  /\ fruitless' = FALSE
  /\ UNCHANGED <<connected, handle, recvReady, thread, watched>>

\* vStopSocketNotifyTask notifies the thread at each tick until it is gone.
NotifyStop ==
  /\ apc \in Stopping /\ handle
  /\ tnote' = "stop"
  /\ UNCHANGED <<agent, tpc, xExitFlag, socket, history>>

\* Faulty variant of Stopped: it notifies once and does not wait.
StoppedAtOnce ==
  /\ apc \in Stopping
  /\ ~handle \/ tnote = "stop"
  /\ apc' = AfterStop(apc)
  /\ UNCHANGED <<connected, open, handle, recvReady, thread, socket, history>>

Stopped ==
  /\ apc \in Stopping /\ ~handle
  /\ apc' = AfterStop(apc)
  /\ UNCHANGED <<connected, open, handle, recvReady, thread, socket, history>>

\* vCreateSocketNotifyTask: a new task in the same task block.  Nothing looks
\* whether a thread that has left its loop has deleted itself (tpc = "leave").
Spawn ==
  /\ apc = "spawn"
  /\ handle' = TRUE /\ tpc' = "start" /\ tnote' = "none" /\ xExitFlag' = FALSE
  /\ watched' = TRUE
  /\ connected' = TRUE
  /\ apc' = "idle"
  /\ UNCHANGED <<open, recvReady, socket, fruitless>>

\* Faulty variant of Disconnect: the thread is left to end by itself.
DisconnectUnstopped ==
  /\ apc = "disconnect"
  /\ closing' = (closing \/ connected)
  /\ connected' = FALSE
  /\ apc' = "close"
  /\ UNCHANGED <<open, handle, recvReady, thread, unread, fin, err, history>>

\* mbedtls_transport_disconnect: close-notify, then the thread is stopped.
Disconnect ==
  /\ apc = "disconnect"
  /\ closing' = (closing \/ connected)
  /\ connected' = FALSE
  /\ apc' = "stop"
  /\ UNCHANGED <<open, handle, recvReady, thread, unread, fin, err, history>>

\* sock_close, in mbedtls_transport_disconnect and for a connection that the
\* peer has closed; the agent then calls the former for the latter too.
Close ==
  /\ apc \in {"close", "recvClose"}
  /\ open' = FALSE /\ watched' = FALSE
  /\ apc' = IF apc = "close" THEN "connect" ELSE "disconnect"
  /\ UNCHANGED <<connected, handle, recvReady, thread, socket, fruitless>>

-----------------------------------------------------------------------------
(* The agent task: receive and send.                                       *)

\* prvAgentMessageReceive returns on the notification of the thread, or on a
\* command or the time that it waits (Poll); the agent then receives.
Wake ==
  /\ apc = "idle" /\ recvReady
  /\ recvReady' = FALSE
  /\ apc' = "receive"
  /\ UNCHANGED <<connected, open, handle, thread, socket, history>>

Poll ==
  /\ apc = "idle"
  /\ apc' = "receive"
  /\ UNCHANGED <<connected, open, handle, recvReady, thread, socket, history>>

\* Faulty variant of Rearm: the thread is notified although it has left.
RearmUnchecked == tnote' = "rearm"

\* Faulty variant of Rearm: the thread is not told of the receive.
RearmMissing == UNCHANGED tnote

\* mbedtls_transport_recv lets the thread select again.
Rearm == tnote' = IF handle THEN "rearm" ELSE tnote

\* mbedtls_ssl_read skips what is of no use and takes one record.
Useless(n) == n \in 0 .. Len(unread) /\ \A i \in 1 .. n : unread[i] = Part

ReceiveRecord ==
  /\ apc = "receive"
  /\ \E n \in 0 .. Len(unread) - 1 :
       /\ Useless(n) /\ unread[n + 1] = Record
       /\ unread' = SubSeq(unread, n + 2, Len(unread))
  /\ Rearm /\ fruitless' = FALSE
  /\ UNCHANGED <<agent, tpc, xExitFlag, fin, err, closing, watched>>

\* There is no record: WANT_READ, and the thread is not notified.  The end
\* of the stream is no error; mbedtls_ssl_read returns 0 and the thread is.
ReceiveNothing ==
  /\ apc = "receive" /\ Useless(Len(unread)) /\ ~err
  /\ unread' = <<>>
  /\ IF fin
     THEN Rearm /\ fruitless' = FALSE
     ELSE /\ fruitless' = (fruitless \/ unread # <<>>)
          /\ UNCHANGED tnote
  /\ apc' = "idle"
  /\ UNCHANGED <<connected, open, handle, recvReady, tpc, xExitFlag, fin, err, closing, watched>>

\* The peer's close-notify, which is read and is the last piece, or a reset:
\* the transport closes the connection.
PeerHasClosed ==
  \/ Useless(Len(unread)) /\ err
  \/ \E n \in 0 .. Len(unread) - 1 : Useless(n) /\ unread[n + 1] = Alert
ReceiveFails ==
  /\ apc = "receive" /\ PeerHasClosed
  /\ connected' = FALSE
  /\ unread' = <<>>
  /\ apc' = "recvStop"
  /\ UNCHANGED <<open, handle, recvReady, thread, fin, err, closing, history>>

\* mbedtls_transport_send on a connection that was reset.
SendFails ==
  /\ apc \in {"idle", "receive"} /\ err
  /\ connected' = FALSE
  /\ apc' = "recvStop"
  /\ UNCHANGED <<open, handle, recvReady, thread, socket, history>>

\* The command loop ends for another reason: no answer to a ping, a packet
\* that cannot be read, a send that fails.
GiveUp ==
  /\ apc \in {"idle", "receive"}
  /\ apc' = "disconnect"
  /\ UNCHANGED <<connected, open, handle, recvReady, thread, socket, history>>

\* What the agent does by itself.
AgentStep ==
  \/ \E succeeds \in BOOLEAN : Connect(succeeds)
  \/ NotifyStop \/ Stopped \/ Spawn \/ Disconnect \/ Close
  \/ Wake \/ ReceiveRecord \/ ReceiveNothing \/ ReceiveFails

-----------------------------------------------------------------------------
(* The peer and the network.  Each event of the socket wakes a select.     *)

Signal ==
  /\ tpc' = IF tpc = "blocked" THEN "woken" ELSE tpc
  /\ UNCHANGED <<xExitFlag, tnote>>

Arrives(piece) ==
  /\ open /\ ~fin /\ ~err /\ Len(unread) < MaxUnread
  /\ \A i \in DOMAIN unread : unread[i] # Alert
  /\ unread' = Append(unread, piece)
  /\ closing' = (closing \/ piece = Alert)
  /\ Signal
  /\ UNCHANGED <<agent, fin, err, history>>

PeerCloses ==
  /\ open /\ ~fin /\ ~err
  /\ fin' = TRUE
  /\ Signal
  /\ UNCHANGED <<agent, unread, err, closing, history>>

\* A reset from the peer, or the last retransmission unanswered.
ConnectionLost ==
  /\ open /\ ~err
  /\ err' = TRUE
  /\ Signal
  /\ UNCHANGED <<agent, unread, fin, closing, history>>

Network == PeerCloses \/ ConnectionLost \/ \E piece \in Pieces : Arrives(piece)

Next == Thread \/ AgentStep \/ Poll \/ SendFails \/ GiveUp \/ Network

Spec == Init /\ [][Next]_vars

\* The tasks run; a connection that one side has begun to close ends, because
\* the peer closes it or because TCP gives up what it sends again.
Fairness ==
  /\ WF_vars(Thread) /\ WF_vars(AgentStep)
  /\ WF_vars(closing /\ ~fin /\ (PeerCloses \/ ConnectionLost))

FairSpec == Spec /\ Fairness

-----------------------------------------------------------------------------
(* Properties.                                                             *)

\* The type of every variable.  A thread that is gone has no notification:
\* xTaskNotify of a NULL handle is an assertion.
TypeOK ==
  /\ apc \in Stopping \cup {"connect", "spawn", "idle", "receive", "disconnect", "close", "recvClose"}
  /\ {connected, open, handle, recvReady, xExitFlag} \subseteq BOOLEAN
  /\ {fin, err, closing, watched, fruitless} \subseteq BOOLEAN
  /\ tpc \in {"none", "start", "loop", "select", "blocked", "woken", "callback", "wait", "leave"}
  /\ tnote \in {"none", "rearm", "stop"} /\ (tpc = "none" => tnote = "none")
  /\ unread \in Seq(Pieces) /\ Len(unread) <= MaxUnread

\* The thread selects on its own socket, and the agent is called back for
\* it, only while that socket is open: the number may be in use again.
ThreadUsesOpenSocket == tpc \in {"select", "blocked", "woken", "callback"} => watched /\ open

\* A thread is created only when none is in its loop: of the one before, which
\* has the same stack and task block, at most the deletion of itself is left.
\* (It sets the handle to NULL before that, and nobody waits for it.)
OneLoop == [][tpc' = "start" /\ tpc # "start" => tpc \in {"none", "leave"}]_vars

\* Stopping the thread comes to an end, wherever the thread is: it waits in
\* a select without a timeout, so that its connection has to end as well.
StopReturns == apc \in Stopping ~> apc \notin Stopping

\* As long as the thread is in its loop to stay, it alone wakes the agent for
\* what can be received on a connection that stands: no notification of either
\* is lost.  (After data of no use the thread is not notified, and the agent
\* learns of more only by its polling.)
DataWakesAgent ==
  apc = "idle" /\ Readable /\ ~fruitless /\ handle /\ ~xExitFlag ~> apc # "idle" \/ err

-----------------------------------------------------------------------------
(* What the comments say and the code does not do.                         *)

\* "Delete thread error": the thread leaves its loop when its socket failed, or
\* because the agent stops it.
LeavesOnError == [][handle /\ ~handle' => err \/ apc \in Stopping]_vars
=============================================================================
