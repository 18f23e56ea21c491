--------------------------- MODULE SockNotifyProofs ---------------------------
(***************************************************************************)
(* Proofs about SockNotify for any amount of unread data.  The invariant   *)
(* relates what the agent knows of the thread, its handle, to where both   *)
(* are: the handle is NULL exactly when the thread has left its loop, and  *)
(* wherever the agent closes the socket or creates a thread it is NULL.    *)
(***************************************************************************)
EXTENDS SockNotify, TLAPS

USE MaxUnreadAssumption

\* Where the agent relies on there being no thread.
NoThread == {"connect", "create", "spawn", "close", "recvClose"}

HandleInv ==
  /\ handle <=> tpc \notin {"none", "leave"}
  /\ handle => open /\ watched
  /\ apc \in NoThread => ~handle
  /\ apc \in {"create", "spawn"} => open

Inv == TypeOK /\ HandleInv

\* What is left of a sequence of pieces is one, and not longer.
LEMMA RestIsPieces ==
  ASSUME NEW s \in Seq(Pieces), NEW m \in 1 .. Len(s) + 1
  PROVE  SubSeq(s, m, Len(s)) \in Seq(Pieces) /\ Len(SubSeq(s, m, Len(s))) <= Len(s)
<1>1. m \in Int /\ Len(s) \in Nat /\ \A i \in m .. Len(s) : s[i] \in Pieces
  OBVIOUS
<1>2. QED
  BY <1>1

\* The initial state.
LEMMA InvInit == Init => Inv
<1> SUFFICES ASSUME Init PROVE Inv
  OBVIOUS
<1>1. /\ {connected, open, handle, recvReady, xExitFlag} \subseteq BOOLEAN
      /\ {fin, err, closing, watched, fruitless} \subseteq BOOLEAN
  BY Zenon DEF Init
<1>2. unread \in Seq(Pieces) /\ Len(unread) <= MaxUnread
  BY DEF Init
<1>3. TypeOK
  BY <1>1, <1>2 DEF Init, TypeOK, Stopping
<1>4. HandleInv
  BY DEF Init, HandleInv, NoThread
<1>5. QED
  BY <1>3, <1>4 DEF Inv

\* What the thread does.
LEMMA InvThread == Inv /\ Thread => Inv'
<1> SUFFICES ASSUME Inv, Thread PROVE Inv'
  OBVIOUS
<1> USE DEF Inv, TypeOK, HandleInv, Stopping, NoThread, agent, thread, socket, history
<1>1. CASE Start
  BY <1>1 DEF Start
<1>2. CASE Loop
  BY <1>2 DEF Loop
<1>3. CASE Select
  BY <1>3 DEF Select, SelectReturns, Failed, Readable
<1>4. CASE RecvReadyCallback
  BY <1>4 DEF RecvReadyCallback
<1>5. CASE NotifyWait
  BY <1>5 DEF NotifyWait
<1>6. CASE Delete
  BY <1>6 DEF Delete
<1>7. CASE SelectWakes
  BY <1>7 DEF SelectWakes, SelectReturns, Failed, Readable
<1>8. QED
  BY <1>1, <1>2, <1>3, <1>4, <1>5, <1>6, <1>7 DEF Thread

\* What the agent does.
LEMMA InvAgent == Inv /\ (AgentStep \/ Poll \/ SendFails \/ GiveUp) => Inv'
<1> SUFFICES ASSUME Inv, AgentStep \/ Poll \/ SendFails \/ GiveUp PROVE Inv'
  OBVIOUS
<1> USE DEF Inv, TypeOK, HandleInv, Stopping, NoThread, agent, thread, socket, history
<1>1. ASSUME NEW succeeds \in BOOLEAN, Connect(succeeds) PROVE Inv'
  <2>1. /\ {connected', open', handle', recvReady', xExitFlag'} \subseteq BOOLEAN
        /\ {fin', err', closing', watched', fruitless'} \subseteq BOOLEAN
    BY <1>1, Zenon DEF Connect
  <2>2. unread' \in Seq(Pieces) /\ Len(unread') <= MaxUnread
    BY <1>1 DEF Connect
  <2>3. CASE succeeds
    BY <1>1, <2>1, <2>2, <2>3 DEF Connect
  <2>4. CASE ~succeeds
    BY <1>1, <2>1, <2>2, <2>4 DEF Connect
  <2>5. QED
    BY <2>3, <2>4
<1>2. CASE NotifyStop
  BY <1>2 DEF NotifyStop
<1>3. CASE Stopped
  BY <1>3 DEF Stopped, AfterStop
<1>4. CASE Spawn
  BY <1>4 DEF Spawn
<1>5. CASE Disconnect
  BY <1>5 DEF Disconnect
<1>6. CASE Close
  BY <1>6 DEF Close
<1>7. CASE Wake
  BY <1>7 DEF Wake
<1>8. CASE ReceiveRecord
  <2>1. PICK n \in 0 .. Len(unread) - 1 : unread' = SubSeq(unread, n + 2, Len(unread))
    BY <1>8 DEF ReceiveRecord
  <2>2. unread' \in Seq(Pieces) /\ Len(unread') <= MaxUnread
    <3>1. n + 2 \in 1 .. Len(unread) + 1
      OBVIOUS
    <3>2. unread' \in Seq(Pieces) /\ Len(unread') <= Len(unread)
      BY <2>1, <3>1, RestIsPieces
    <3>3. QED
      BY <3>2
  <2>3. QED
    BY <1>8, <2>2 DEF ReceiveRecord, Rearm
<1>9. CASE ReceiveNothing
  <2>1. unread' \in Seq(Pieces) /\ Len(unread') <= MaxUnread
    BY <1>9 DEF ReceiveNothing
  <2>2. fruitless' \in BOOLEAN /\ tnote' \in {"none", "rearm", tnote}
    BY <1>9, Zenon DEF ReceiveNothing, Rearm
  <2>3. tpc = "none" => tnote' = "none"
    BY <1>9 DEF ReceiveNothing, Rearm
  <2>4. QED
    BY <1>9, <2>1, <2>2, <2>3 DEF ReceiveNothing
<1>10. CASE ReceiveFails
  <2>1. unread' \in Seq(Pieces) /\ Len(unread') <= MaxUnread
    BY <1>10 DEF ReceiveFails
  <2>2. QED
    BY <1>10, <2>1 DEF ReceiveFails
<1>11. CASE Poll
  BY <1>11 DEF Poll
<1>12. CASE SendFails
  BY <1>12 DEF SendFails
<1>13. CASE GiveUp
  BY <1>13 DEF GiveUp
<1>14. QED
  BY <1>1, <1>2, <1>3, <1>4, <1>5, <1>6, <1>7, <1>8, <1>9, <1>10, <1>11, <1>12, <1>13
     DEF AgentStep

\* What the peer and the network do.
LEMMA InvNetwork == Inv /\ Network => Inv'
<1> SUFFICES ASSUME Inv, Network PROVE Inv'
  OBVIOUS
<1> USE DEF Inv, TypeOK, HandleInv, agent, thread, socket, history
<1>1. CASE PeerCloses
  BY <1>1 DEF PeerCloses, Signal
<1>2. CASE ConnectionLost
  BY <1>2 DEF ConnectionLost, Signal
<1>3. ASSUME NEW piece \in Pieces, Arrives(piece) PROVE Inv'
  <2>1. unread' \in Seq(Pieces) /\ Len(unread') = Len(unread) + 1
    BY <1>3 DEF Arrives
  <2>2. QED
    BY <1>3, <2>1 DEF Arrives, Signal
<1>4. QED
  BY <1>1, <1>2, <1>3 DEF Network

\* Every step.
LEMMA InvNext == Inv /\ [Next]_vars => Inv'
<1> SUFFICES ASSUME Inv, [Next]_vars PROVE Inv'
  OBVIOUS
<1>1. CASE UNCHANGED vars
  BY <1>1 DEF Inv, TypeOK, HandleInv, vars, agent, thread, socket, history
<1>2. QED
  BY <1>1, InvThread, InvAgent, InvNetwork DEF Next

\* What the agent knows of the thread is true, throughout.
LEMMA InvHolds == Spec => []Inv
  BY InvInit, InvNext, PTL DEF Spec

\* Every variable keeps its type, and a thread that is gone has no
\* notification: xTaskNotify is never called with a NULL handle.
THEOREM TypeCorrect == Spec => []TypeOK
<1>1. Inv => TypeOK
  BY DEF Inv
<1>2. QED
  BY <1>1, InvHolds, PTL

\* The thread selects on its socket, and calls the agent back for it, only
\* while the agent has not closed it (mbedtls_transport_disconnect).
THEOREM SocketOutlivesThread == Spec => []ThreadUsesOpenSocket
<1>1. Inv => ThreadUsesOpenSocket
  BY DEF Inv, HandleInv, ThreadUsesOpenSocket
<1>2. QED
  BY <1>1, InvHolds, PTL

\* A thread is created only when none is in its loop; the one before may still
\* have to delete itself (vCreateSocketNotifyTask does not look).
THEOREM LoopsDoNotOverlap == Spec => OneLoop
<1> DEFINE Guarded == tpc' = "start" /\ tpc # "start" => tpc \in {"none", "leave"}
<1>1. Inv /\ [Next]_vars => [Guarded]_vars
  <2> SUFFICES ASSUME Inv, Next, tpc' = "start", tpc # "start" PROVE tpc \in {"none", "leave"}
    BY DEF vars
  <2>1. CASE Spawn
    BY <2>1 DEF Inv, HandleInv, NoThread, Spawn
  <2>2. CASE ~Spawn
    BY <2>2 DEF Next, Thread, AgentStep, Network, Start, Loop, Select, SelectWakes, SelectReturns,
                RecvReadyCallback, NotifyWait, Signal, Delete, Connect, NotifyStop, Stopped, Disconnect, Close, Wake,
                ReceiveRecord, ReceiveNothing, ReceiveFails, Poll, SendFails, GiveUp,
                PeerCloses, ConnectionLost, Arrives, thread
  <2>3. QED
    BY <2>1, <2>2
<1>2. QED
  BY <1>1, InvHolds, PTL DEF Spec, OneLoop
=============================================================================
