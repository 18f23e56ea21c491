--------------------------- MODULE MxNetconnProofs ---------------------------
(***************************************************************************)
(* Proofs about MxNetconn, for any addresses: the link that two tasks set  *)
(* from what each read of the status comes up with the status.  The        *)
(* invariant says which update is still to come wherever the link has been *)
(* left down, and that none is needed while the network task may discard   *)
(* one.                                                                    *)
(***************************************************************************)
EXTENDS MxNetconn, TLAPS

USE AddressAssumption

Connecting == {"connect", "checkStatus", "awaitStatus"}

Up == xStatus \in UpStatuses

\* What the network task is about to do, or still has to be told.
WillSet == npc = "setLink" /\ wanted
WillLook == \/ rpc = "notify" \/ "STATUS_UPDATE" \in bits
            \/ npc = "status" /\ "STATUS_UPDATE" \in batch

\* A status that is up is not the one before it, so that HandleStatus acts on
\* it; and after the router has set the link, a link that is down although the
\* status is up, or is about to be set down, is looked at again.
LinkInv ==
  /\ Up => xStatus # xStatusPrevious
  /\ rpc # "setLink" /\ Up =>
       /\ link \/ WillSet \/ WillLook
       /\ npc = "setLink" => wanted \/ WillLook
       /\ npc \in Connecting => link

-----------------------------------------------------------------------------
(* The types.                                                              *)

\* Setting the link.
LEMMA LinkTypes ==
  ASSUME TypeOK, NEW up \in BOOLEAN, SetLink(up)
  PROVE  /\ bits' \subseteq Bits /\ dhcp' \in {"off", "selecting", "bound"}
         /\ link' = up /\ address' = address
<1>1. bits \subseteq Bits /\ dhcp \in {"off", "selecting", "bound"}
  BY DEF TypeOK
<1>2. QED
  BY <1>1 DEF SetLink, Bits

\* Setting the address.
LEMMA AddressTypes ==
  ASSUME TypeOK, NEW a \in Addresses \cup {NoAddress}, SetAddress(a)
  PROVE  bits' \subseteq Bits /\ address' \in Addresses \cup {NoAddress}
<1>1. bits \subseteq Bits
  BY DEF TypeOK
<1>2. QED
  BY <1>1 DEF SetAddress, Bits

\* The router, the module and lwIP.
LEMMA OthersKeepTypes ==
  ASSUME TypeOK,
         (\E s \in Statuses : StatusEvent(s)) \/ Lwip \/ Router \/ RequestReconnect
  PROVE  TypeOK'
<1>1. ASSUME NEW s \in Statuses, StatusEvent(s) PROVE TypeOK'
  BY <1>1 DEF StatusEvent, TypeOK, netifVars, taskVars
<1>2. ASSUME NEW a \in Addresses, DhcpBinds(a) PROVE TypeOK'
  BY <1>2, AddressTypes DEF DhcpBinds, TypeOK, statusVars, taskVars
<1>3. CASE DhcpLosesLease
  BY <1>3, AddressTypes DEF DhcpLosesLease, TypeOK, statusVars, taskVars
<1>4. CASE RouterSetsLink
  <2>1. (xStatus \in UpStatuses) \in BOOLEAN
    OBVIOUS
  <2>2. /\ bits' \subseteq Bits /\ dhcp' \in {"off", "selecting", "bound"}
        /\ link' = (xStatus \in UpStatuses) /\ address' = address
    BY <1>4, <2>1, LinkTypes DEF RouterSetsLink
  <2>3. link' \in BOOLEAN
    BY <2>1, <2>2, Zenon
  <2>4. QED
    BY <1>4, <2>2, <2>3 DEF RouterSetsLink, TypeOK, taskVars
<1>5. CASE RouterNotifies
  BY <1>5 DEF RouterNotifies, TypeOK, netifVars, taskVars, Bits
<1>6. CASE RequestReconnect
  BY <1>6 DEF RequestReconnect, TypeOK, statusVars, netifVars, taskVars, Bits
<1>7. QED
  BY <1>1, <1>2, <1>3, <1>4, <1>5, <1>6 DEF Lwip, Router

\* The network task.
LEMMA TaskKeepsTypes ==
  ASSUME TypeOK, NetTask
  PROVE  TypeOK'
<1> USE DEF TypeOK, statusVars, netifVars
<1>1. CASE LoopTop
  BY <1>1 DEF LoopTop
<1>2. ASSUME NEW success \in BOOLEAN, Connect(success) PROVE TypeOK'
  BY <1>2 DEF Connect, Returns
<1>3. CASE CheckStatus
  BY <1>3 DEF CheckStatus, Returns
<1>4. CASE AwaitStatus
  BY <1>4 DEF AwaitStatus, Returns
<1>5. CASE TakeBits
  BY <1>5 DEF TakeBits
<1>6. CASE HandleStatus
  <2>1. wanted' = wanted \/ wanted' = (xStatus \in UpStatuses)
    BY <1>6, Zenon DEF HandleStatus
  <2>2. wanted \in BOOLEAN /\ (xStatus \in UpStatuses) \in BOOLEAN
    OBVIOUS
  <2>3. wanted' \in BOOLEAN
    BY ONLY <2>1, <2>2, Zenon
  <2>4. QED
    BY <1>6, <2>3 DEF HandleStatus
<1>7. CASE TaskSetsLink
  BY <1>7, LinkTypes DEF TaskSetsLink
<1>8. CASE HandleIpChange
  BY <1>8 DEF HandleIpChange
<1>9. CASE LinkComes \/ LinkUnchanged \/ LinkGoes
  BY <1>9 DEF LinkComes, LinkUnchanged, LinkGoes
<1>10. CASE ClearAddress
  BY <1>10, AddressTypes DEF ClearAddress
<1>11. CASE ClearConnected
  BY <1>11 DEF ClearConnected
<1>12. CASE Reconnect
  BY <1>12 DEF Reconnect
<1>13. CASE ConnectAgain
  BY <1>13 DEF ConnectAgain
<1>14. QED
  BY <1>1, <1>2, <1>3, <1>4, <1>5, <1>6, <1>7, <1>8, <1>9, <1>10, <1>11, <1>12, <1>13 DEF NetTask

\* Every variable keeps its type: whatever the module reports and DHCP gives,
\* the network task continues where the code does.
THEOREM TypeCorrect == Spec => []TypeOK
<1>1. Init => TypeOK
  BY DEF Init, TypeOK, Statuses, Bits
<1>2. TypeOK /\ [Next]_vars => TypeOK'
  <2>1. TypeOK /\ UNCHANGED vars => TypeOK'
    BY DEF vars, statusVars, netifVars, taskVars, TypeOK
  <2>2. QED
    BY <2>1, OthersKeepTypes, TaskKeepsTypes DEF Next
<1>3. QED
  BY <1>1, <1>2, PTL DEF Spec

-----------------------------------------------------------------------------
(* The link.                                                               *)

\* Only the router changes the status, and it sets the link next.
LEMMA OthersKeepLink ==
  ASSUME TypeOK, LinkInv, ~Repeats,
         (\E s \in Statuses : StatusEvent(s)) \/ Lwip \/ Router \/ RequestReconnect
  PROVE  LinkInv'
<1> USE DEF LinkInv, WillSet, WillLook, Up
<1>1. ASSUME NEW s \in Statuses, StatusEvent(s) PROVE LinkInv'
  BY <1>1 DEF StatusEvent
<1>2. ASSUME NEW a \in Addresses, DhcpBinds(a) PROVE LinkInv'
  BY <1>2 DEF DhcpBinds, SetAddress, statusVars, taskVars
<1>3. CASE DhcpLosesLease
  BY <1>3 DEF DhcpLosesLease, SetAddress, statusVars, taskVars
<1>4. CASE RouterSetsLink
  BY <1>4 DEF RouterSetsLink, SetLink, taskVars
<1>5. CASE RouterNotifies
  BY <1>5 DEF RouterNotifies, netifVars, taskVars
<1>6. CASE RequestReconnect
  BY <1>6 DEF RequestReconnect, statusVars, netifVars, taskVars
<1>7. QED
  BY <1>1, <1>2, <1>3, <1>4, <1>5, <1>6 DEF Lwip, Router

\* The network task sets the link down only when it will look again, and
\* discards an update only when the link agrees with the status.
LEMMA TaskKeepsLink ==
  ASSUME TypeOK, LinkInv, NetTask
  PROVE  LinkInv'
<1> USE DEF LinkInv, WillSet, WillLook, Up, Connecting, statusVars, netifVars
<1>1. CASE LoopTop
  BY <1>1 DEF LoopTop
<1>2. ASSUME NEW success \in BOOLEAN, Connect(success) PROVE LinkInv'
  BY <1>2 DEF Connect, Returns, TypeOK
<1>3. CASE CheckStatus
  BY <1>3 DEF CheckStatus, Returns, TypeOK
<1>4. CASE AwaitStatus
  BY <1>4 DEF AwaitStatus, Returns, TypeOK
<1>5. CASE TakeBits
  BY <1>5 DEF TakeBits
<1>6. CASE HandleStatus
  BY <1>6 DEF HandleStatus
<1>7. CASE TaskSetsLink
  BY <1>7 DEF TaskSetsLink, SetLink
<1>8. CASE HandleIpChange
  BY <1>8 DEF HandleIpChange
<1>9. CASE LinkComes \/ LinkUnchanged \/ LinkGoes
  BY <1>9 DEF LinkComes, LinkUnchanged, LinkGoes
<1>10. CASE ClearAddress
  BY <1>10 DEF ClearAddress, SetAddress
<1>11. CASE ClearConnected
  BY <1>11 DEF ClearConnected
<1>12. CASE Reconnect
  BY <1>12 DEF Reconnect
<1>13. CASE ConnectAgain
  BY <1>13 DEF ConnectAgain
<1>14. QED
  BY <1>1, <1>2, <1>3, <1>4, <1>5, <1>6, <1>7, <1>8, <1>9, <1>10, <1>11, <1>12, <1>13 DEF NetTask

\* However the router's events and the network task's late settings of the
\* link interleave, and whichever update xConnectToAP takes, a station that is
\* up has its link once no update is left to handle, unless the module repeats
\* a status (vHandleMxStatusUpdate compares it with the one before).
THEOREM LinkFollowsStatus ==
  ASSUME ~Repeats
  PROVE  Spec => []LinkComesWithStatus
<1>1. Init => LinkInv
  BY DEF Init, LinkInv, Up, UpStatuses
<1>2. TypeOK /\ LinkInv /\ [Next]_vars => LinkInv'
  <2>1. LinkInv /\ UNCHANGED vars => LinkInv'
    BY DEF vars, statusVars, netifVars, taskVars, LinkInv, WillSet, WillLook, Up
  <2>2. QED
    BY <2>1, OthersKeepLink, TaskKeepsLink DEF Next
<1>3. LinkInv => LinkComesWithStatus
  BY DEF LinkInv, WillSet, WillLook, Up, LinkComesWithStatus
<1>4. QED
  BY <1>1, <1>2, <1>3, TypeCorrect, PTL DEF Spec
=============================================================================
