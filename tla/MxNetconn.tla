------------------------------- MODULE MxNetconn -------------------------------
(***************************************************************************)
(* The network task (net_main in mx_netconn.c), the status events that the *)
(* router task hands to vMxStatusNotify, the network interface in lwIP     *)
(* with its callback (mx_lwip.c, mx_lwip.h), and the event bit by which    *)
(* the MQTT agent learns that the network is connected.                    *)
(*                                                                         *)
(* The tasks meet in xStatus, in the notification bits of the network      *)
(* task, where events of one kind merge, and in the interface's flags.     *)
(* The interface is administratively up from the start and stays so:      *)
(* vSetAdminDown acts only on an interface that is down already.           *)
(***************************************************************************)
EXTENDS Integers

CONSTANTS
  Addresses,   \* the addresses that DHCP may give
  NoAddress,   \* 0.0.0.0
  Repeats      \* the module may report the status it reported before

ASSUME AddressAssumption == NoAddress \notin Addresses /\ Repeats \in BOOLEAN

\* MxStatus_t in the order of its values; the access-point mode is not used.
Statuses == {"NONE", "STA_DOWN", "STA_UP", "STA_GOT_IP"}
UpStatuses == {"STA_UP", "STA_GOT_IP"}
Bits == {"IP_CHANGE", "IFUP", "LINK_UP", "LINK_DOWN", "STATUS_UPDATE", "RECONNECT"}

VARIABLES
  xStatus, xStatusPrevious,   \* written by the router task
  rpc,        \* the router in vMxStatusNotify: what it still has to do
  link,       \* NETIF_FLAG_LINK_UP
  address,    \* the interface's address
  dhcp,       \* the DHCP client: off, selecting (or rebooting), bound
  bits,       \* the notification value of the network task (NET_EVT_IDX)
  connected,  \* EVT_MASK_NET_CONNECTED
  npc,        \* where the network task is
  batch,      \* the bits it has taken and not handled yet
  latched,    \* the link flag when it took them
  wanted,     \* what vHandleMxStatusUpdate decided to set the link to
  ret,        \* where it continues after xConnectToAP
  asked       \* history: net_request_reconnect was called

statusVars == <<xStatus, xStatusPrevious, rpc>>
netifVars  == <<link, address, dhcp>>
taskVars   == <<npc, batch, latched, wanted, ret>>
vars == <<statusVars, netifVars, bits, connected, taskVars, asked>>

\* After netifapi_netif_set_up, whose callback has set the IFUP bit.  The context
\* is on the stack, and vInitializeContexts does not set the previous status.
Init ==
  /\ xStatus = "NONE" /\ xStatusPrevious \in Statuses
  /\ rpc = "idle" /\ link = FALSE /\ address = NoAddress /\ dhcp = "off"
  /\ bits = {"IFUP"} /\ connected = FALSE
  /\ npc = "top" /\ batch = {} /\ latched = FALSE /\ wanted = FALSE /\ ret = "wait"
  /\ asked = FALSE

-----------------------------------------------------------------------------
(* lwIP, in its own task: each change calls vLwipStatusCallback.           *)

\* netif_set_link_up and netif_set_link_down; with the link DHCP asks again.
SetLink(up) ==
  /\ link' = up
  /\ bits' = IF link = up THEN bits ELSE bits \cup {IF up THEN "LINK_UP" ELSE "LINK_DOWN"}
  /\ dhcp' = IF up /\ ~link /\ dhcp = "bound" THEN "selecting" ELSE dhcp
  /\ UNCHANGED address

SetAddress(a) ==
  /\ address' = a
  /\ bits' = IF address = a THEN bits ELSE bits \cup {"IP_CHANGE"}

DhcpBinds(a) ==
  /\ dhcp = "selecting" /\ link
  /\ dhcp' = "bound"
  /\ SetAddress(a)
  /\ UNCHANGED <<statusVars, link, connected, taskVars, asked>>

DhcpLosesLease ==
  /\ dhcp = "bound"
  /\ dhcp' = "selecting"
  /\ SetAddress(NoAddress)
  /\ UNCHANGED <<statusVars, link, connected, taskVars, asked>>

-----------------------------------------------------------------------------
(* The router task: vMxStatusNotify on an event of the module.             *)

StatusEvent(s) ==
  /\ rpc = "idle"
  /\ Repeats \/ s # xStatus
  /\ xStatusPrevious' = xStatus
  /\ xStatus' = s
  /\ rpc' = IF s # xStatus THEN "setLink" ELSE "notify"
  /\ UNCHANGED <<netifVars, bits, connected, taskVars, asked>>

RouterSetsLink ==
  /\ rpc = "setLink"
  /\ SetLink(xStatus \in UpStatuses)
  /\ rpc' = "notify"
  /\ UNCHANGED <<xStatus, xStatusPrevious, connected, taskVars, asked>>

RouterNotifies ==
  /\ rpc = "notify"
  /\ bits' = bits \cup {"STATUS_UPDATE"}
  /\ rpc' = "idle"
  /\ UNCHANGED <<xStatus, xStatusPrevious, netifVars, connected, taskVars, asked>>

\* net_request_reconnect, from any task.
RequestReconnect ==
  /\ bits' = bits \cup {"RECONNECT"}
  /\ asked' = TRUE
  /\ UNCHANGED <<statusVars, netifVars, connected, taskVars>>

-----------------------------------------------------------------------------
(* The network task: connecting.                                           *)

\* xConnectToAP does nothing unless the status is NONE or STA_DOWN.
LoopTop ==
  /\ npc = "top"
  /\ npc' = IF xStatus \in UpStatuses THEN "wait" ELSE "connect"
  /\ UNCHANGED <<statusVars, netifVars, bits, connected, batch, latched, wanted, ret, asked>>

Returns == npc' = ret /\ ret' = "wait"

\* mx_SetBypassMode and mx_Connect: answered within 120 s or failed.
Connect(success) ==
  /\ npc = "connect"
  /\ IF success THEN npc' = "checkStatus" /\ UNCHANGED ret ELSE Returns
  /\ UNCHANGED <<statusVars, netifVars, bits, connected, batch, latched, wanted, asked>>

CheckStatus ==
  /\ npc = "checkStatus"
  /\ IF xStatus \in UpStatuses THEN Returns ELSE npc' = "awaitStatus" /\ UNCHANGED ret
  /\ UNCHANGED <<statusVars, netifVars, bits, connected, batch, latched, wanted, asked>>

\* ulWaitForNotifyBits takes any pending update, an old one too, or times out;
\* the other bits stay for the main wait.
AwaitStatus ==
  /\ npc = "awaitStatus"
  /\ bits' \in {bits, bits \ {"STATUS_UPDATE"}}
  /\ Returns
  /\ UNCHANGED <<statusVars, netifVars, connected, batch, latched, wanted, asked>>

-----------------------------------------------------------------------------
(* The network task: events.                                               *)

\* Clears every bit; after 30 s without one the loop starts over.
TakeBits ==
  /\ npc = "wait"
  /\ batch' = bits /\ bits' = {}
  /\ latched' = link
  /\ npc' = IF bits = {} THEN "top" ELSE "status"
  /\ UNCHANGED <<statusVars, netifVars, connected, wanted, ret, asked>>

\* vHandleMxStatusUpdate reads the status, and then calls into lwIP; the
\* router may change the status and the link between the two.
HandleStatus ==
  /\ npc = "status"
  /\ IF "STATUS_UPDATE" \in batch /\ xStatus # xStatusPrevious
     THEN npc' = "setLink" /\ wanted' = (xStatus \in UpStatuses)
     ELSE npc' = "ip" /\ UNCHANGED wanted
  /\ UNCHANGED <<statusVars, netifVars, bits, connected, batch, latched, ret, asked>>

\* Faulty variant of TaskSetsLink: the update is cleared once it is handled.
TaskSetsLinkThenClears ==
  /\ npc = "setLink"
  /\ link' = wanted
  /\ bits' = (IF link = wanted THEN bits
              ELSE bits \cup {IF wanted THEN "LINK_UP" ELSE "LINK_DOWN"}) \ {"STATUS_UPDATE"}
  /\ dhcp' = IF wanted /\ ~link /\ dhcp = "bound" THEN "selecting" ELSE dhcp
  /\ UNCHANGED address
  /\ npc' = "ip" /\ wanted' = FALSE
  /\ UNCHANGED <<statusVars, connected, batch, latched, ret, asked>>

TaskSetsLink ==
  /\ npc = "setLink"
  /\ SetLink(wanted)
  /\ npc' = "ip" /\ wanted' = FALSE
  /\ UNCHANGED <<statusVars, connected, batch, latched, ret, asked>>

\* Faulty variant of HandleIpChange: with the address, without the link.
HandleIpChangeIfLatched ==
  /\ npc = "ip"
  /\ connected' = IF "IP_CHANGE" \in batch /\ "LINK_UP" \notin batch THEN TRUE ELSE connected
  /\ npc' = "link"
  /\ UNCHANGED <<statusVars, netifVars, bits, batch, latched, wanted, ret, asked>>

\* Any change of the address, its removal too.
HandleIpChange ==
  /\ npc = "ip"
  /\ connected' = IF "IP_CHANGE" \in batch THEN TRUE ELSE connected
  /\ npc' = "link"
  /\ UNCHANGED <<statusVars, netifVars, bits, batch, latched, wanted, ret, asked>>

Comes == "IFUP" \in batch \/ ("LINK_UP" \in batch /\ latched)

\* Faulty variant of Goes: a bit for the link's return hides its loss.
GoesUnlessUp == ~Comes /\ "LINK_DOWN" \in batch /\ "LINK_UP" \notin batch /\ ~latched

Goes == ~Comes /\ "LINK_DOWN" \in batch /\ ~latched

\* vStartDhcp, for an interface that came up or got its link.
LinkComes ==
  /\ npc = "link" /\ Comes
  /\ dhcp' = IF dhcp = "off" THEN "selecting" ELSE dhcp
  /\ npc' = "reconnect"
  /\ UNCHANGED <<statusVars, link, address, bits, connected, batch, latched, wanted, ret, asked>>

LinkUnchanged ==
  /\ npc = "link" /\ ~Comes /\ ~Goes
  /\ npc' = "reconnect"
  /\ UNCHANGED <<statusVars, netifVars, bits, connected, batch, latched, wanted, ret, asked>>

\* vStopDhcp calls netifapi_dhcp_start: the client starts over.
LinkGoes ==
  /\ npc = "link" /\ Goes
  /\ dhcp' = IF dhcp = "off" THEN "off" ELSE "selecting"
  /\ npc' = "clearAddress"
  /\ UNCHANGED <<statusVars, link, address, bits, connected, batch, latched, wanted, ret, asked>>

\* vClearAddress: the change of the address sets a bit of its own.
ClearAddress ==
  /\ npc = "clearAddress"
  /\ SetAddress(NoAddress)
  /\ npc' = "clearConnected"
  /\ UNCHANGED <<statusVars, link, dhcp, connected, batch, latched, wanted, ret, asked>>

ClearConnected ==
  /\ npc = "clearConnected"
  /\ connected' = FALSE
  /\ npc' = "reconnect"
  /\ UNCHANGED <<statusVars, netifVars, bits, batch, latched, wanted, ret, asked>>

\* After mx_SetBypassMode and mx_Disconnect, whatever they return.
Reconnect ==
  /\ npc = "reconnect"
  /\ batch' = {} /\ latched' = FALSE
  /\ IF "RECONNECT" \in batch
     THEN connected' = FALSE /\ npc' = "reconnected"
     ELSE npc' = "top" /\ UNCHANGED connected
  /\ UNCHANGED <<statusVars, netifVars, bits, wanted, ret, asked>>

ConnectAgain ==
  /\ npc = "reconnected"
  /\ npc' = IF xStatus \in UpStatuses THEN "top" ELSE "connect"
  /\ ret' = "top"
  /\ UNCHANGED <<statusVars, netifVars, bits, connected, batch, latched, wanted, asked>>

-----------------------------------------------------------------------------
Lwip == (\E a \in Addresses : DhcpBinds(a)) \/ DhcpLosesLease
Router == RouterSetsLink \/ RouterNotifies
NetTask ==
  \/ LoopTop \/ (\E success \in BOOLEAN : Connect(success)) \/ CheckStatus \/ AwaitStatus
  \/ TakeBits \/ HandleStatus \/ TaskSetsLink \/ HandleIpChange
  \/ LinkComes \/ LinkUnchanged \/ LinkGoes \/ ClearAddress \/ ClearConnected
  \/ Reconnect \/ ConnectAgain

Next ==
  \/ \E s \in Statuses : StatusEvent(s)
  \/ Lwip \/ Router \/ RequestReconnect \/ NetTask

Spec == Init /\ [][Next]_vars

-----------------------------------------------------------------------------
(* Properties.                                                             *)

\* The type of every variable.
TypeOK ==
  /\ xStatus \in Statuses /\ xStatusPrevious \in Statuses
  /\ rpc \in {"idle", "setLink", "notify"}
  /\ link \in BOOLEAN /\ address \in Addresses \cup {NoAddress}
  /\ dhcp \in {"off", "selecting", "bound"}
  /\ bits \subseteq Bits /\ connected \in BOOLEAN
  /\ npc \in {"top", "connect", "checkStatus", "awaitStatus", "wait", "status", "setLink", "ip",
              "link", "clearAddress", "clearConnected", "reconnect", "reconnected"}
  /\ batch \subseteq Bits /\ latched \in BOOLEAN /\ wanted \in BOOLEAN
  /\ ret \in {"top", "wait"} /\ asked \in BOOLEAN

\* The router and the network task both set the link from the status, each
\* from what it read a while ago: once neither has an update left to handle, a
\* station that is up has its link.  (Not so the other way: AwaitStatus may take
\* the update that would have set down a link the network task set up late.)
LinkComesWithStatus ==
  rpc = "idle" /\ "STATUS_UPDATE" \notin bits \cup batch /\ npc # "setLink"
    => (xStatus \in UpStatuses => link)

\* The tasks run, and requests to the module end by their timeouts.
FairSpec == Spec /\ WF_vars(Router) /\ WF_vars(NetTask)

\* An interface that keeps link and address is announced to the agent for
\* good, however its events merge; unless a reconnection was ever asked for.
AddressIsAnnounced ==
  <>[](link /\ address # NoAddress) /\ []~asked => <>[]connected

\* An interface that has lost its link for good also loses its address.
LossClearsAddress == <>[]~link => <>[](address = NoAddress)

-----------------------------------------------------------------------------
(* What the comments say and the code does not do.                         *)

\* "Block until the network interface is connected" (mqtt_agent_task.c): with
\* every event handled, the bit stands for an interface that has an address.
ConnectedHasAddress ==
  npc = "wait" /\ bits = {} /\ rpc = "idle" /\ connected => address # NoAddress
=============================================================================
