----------------------------- MODULE DhcpServer -----------------------------
(***************************************************************************)
(* The DHCP server of the soft access point                                *)
(* (Src/App/dhcpserver/dhcp_server.c): a table of DHCPS_HISTORY_CLIENT_NUM *)
(* entries, each with a fixed address and the station that has, is being   *)
(* offered, or last had it.                                                *)
(*                                                                         *)
(* DHCPS_RecvCb and _DhcpTickHandle run in the lwIP thread and do not      *)
(* interleave.  The stations are the environment.  A frame is answered at  *)
(* once, or it or its answer is lost: a station ignores answers to an      *)
(* exchange it gave up (Xid), and the frames of one station stay in order. *)
(* Time is counted in ticks of DHCP_TICK_TIME.                             *)
(***************************************************************************)
EXTENDS Integers, FiniteSets

CONSTANTS
    Sta,          \* stations, by their MAC address
    NoMac,        \* 00:00:00:00:00:00
    PoolSize,     \* DHCPS_HISTORY_CLIENT_NUM
    HostMask,     \* ~Mask as a number
    ServerHost,   \* host part of the address of the access point
    LeaseTime,    \* DHCP_DEFAULT_LEASE_TIME
    OfferTime,    \* DHCP_DEFFAULT_TIMEOUT
    MaxStart,     \* bound: starts of the server
    MaxDrop       \* bound: bindings ended behind the back of a station

Entry == 0 .. PoolSize - 1

(* The host part of the address of an entry (DHCPS_Start).                 *)
Wrapped(host) == IF host % HostMask = 0 THEN 1 ELSE host % HostMask
StartHost == Wrapped(ServerHost + 1)
IpAddr(e) == Wrapped(StartHost + e)
Ip == {IpAddr(e) : e \in Entry}
NoIp == 0
Outside == HostMask    \* stands for every address that is not in the table

(* The code does not check that the pool fits between the server's address *)
(* and the end of the subnet; beyond it, IpAddr gives addresses twice.     *)
ASSUME DhcpAssumption ==
    /\ NoMac \notin Sta
    /\ PoolSize \in Nat \ {0} /\ LeaseTime \in Nat \ {0} /\ OfferTime \in Nat \ {0}
    /\ HostMask \in Nat /\ ServerHost \in Nat \ {0}
    /\ ServerHost + PoolSize < HostMask

VARIABLES
    enable,    \* DhcpServer.Enable
    socket,    \* DhcpServer.Socket is there and calls DHCPS_RecvCb
    ticks,     \* timeouts pending for _DhcpTickHandle
    client,    \* DhcpServer.Clients
    assoc,     \* the stations of tls_wifi_get_authed_sta_info
    held,      \* the address a station uses and the time it may do so
    offer,     \* the offer a station has received and how long it stands
    starts, drops

staVars == <<assoc, held, offer>>
vars == <<enable, socket, ticks, client, staVars, starts, drops>>

Nothing == [ip |-> NoIp, left |-> 0]
(* left is Timeout in state REQUEST and Lease in state BIND; both are set  *)
(* on the way into the state and not read outside it.                      *)
FreeTable == [e \in Entry |-> [state |-> "IDLE", mac |-> NoMac, left |-> 0]]

Init ==
    /\ enable = FALSE /\ socket = FALSE /\ ticks = 0 /\ client = FreeTable
    /\ assoc = {}
    /\ held = [s \in Sta |-> Nothing] /\ offer = [s \in Sta |-> Nothing]
    /\ starts = 0 /\ drops = 0

-----------------------------------------------------------------------------
(* DHCPS_Start and DHCPS_Stop, from sys_net2_up and sys_net2_down: without *)
(* the access point there are no stations.                                 *)

DHCPS_Start ==
    /\ ~enable /\ ~socket /\ starts < MaxStart
    /\ starts' = starts + 1
    /\ client' = FreeTable
    /\ \/ socket' = TRUE /\ ticks' = ticks + 1 /\ enable' = TRUE
       \/ UNCHANGED <<socket, ticks, enable>>       \* udp_new failed
    /\ UNCHANGED <<staVars, drops>>

DHCPS_Stop ==
    /\ starts > 0
    /\ enable' = FALSE /\ socket' = FALSE
    /\ ticks' = IF ticks > 0 THEN ticks - 1 ELSE 0
    /\ client' = FreeTable
    /\ assoc' = {}
    /\ held' = [s \in Sta |-> Nothing] /\ offer' = [s \in Sta |-> Nothing]
    /\ UNCHANGED <<starts, drops>>

-----------------------------------------------------------------------------
(* _ClientTableLookup                                                      *)

First(S) == CHOOSE e \in S : \A f \in S : e <= f
Last(S) == CHOOSE e \in S : \A f \in S : e >= f
Idle == {e \in Entry : client[e].state = "IDLE"}

(* pMyHistoryClient, pReqClient, pFreeClient and pHistoryClient are the    *)
(* first of these, pMyClient the last one, NULL when the set is empty.     *)
MyHistory(s) == {e \in Idle : client[e].mac = s}
AnyRequested(ip) == {e \in Entry : IpAddr(e) = ip}                   \* mutant
Requested(ip) == {e \in Idle : IpAddr(e) = ip}
Free == {e \in Idle : client[e].mac = NoMac}
AnyHistory == {e \in Entry : client[e].mac # NoMac}                  \* mutant
History == {e \in Idle : client[e].mac # NoMac}
Mine(s) == {e \in Entry \ Idle : client[e].mac = s}
IpUnavailable(s, ip) ==
    \E e \in Entry \ Idle : client[e].mac # s /\ IpAddr(e) = ip

Idled(c) == [c EXCEPT !.state = "IDLE", !.left = 0]
Forgotten(c) == [Idled(c) EXCEPT !.mac = NoMac]
(* The history of an entry that was not bound is not kept.                 *)
Dropped(e) == IF client[e].state # "BIND" THEN Forgotten(client[e])
              ELSE Idled(client[e])

(* A DISCOVER releases the entry the station has.  When it asks for an     *)
(* idle address, the entry is forgotten even if it was bound: the state is *)
(* overwritten before it is tested.                                        *)
DiscoverEntry(s, ip) ==
    IF Mine(s) # {} THEN IF Requested(ip) # {} THEN Requested(ip) ELSE {Last(Mine(s))}
    ELSE IF Requested(ip) # {} THEN Requested(ip)
    ELSE IF MyHistory(s) # {} THEN MyHistory(s)
    ELSE IF Free # {} THEN Free ELSE History
NothingReleased(s, ip) == client                                     \* mutant
AfterDiscover(s, ip) ==
    [e \in Entry |->
        IF Mine(s) = {} \/ e # Last(Mine(s)) THEN client[e]
        ELSE IF Requested(ip) # {} THEN Forgotten(client[e])
        ELSE Idled(client[e])]

(* us: ServerId is 0 or our own address.                                   *)
RequestEntry(s, ip, us) ==
    IF IpUnavailable(s, ip) \/ ~us THEN {}
    ELSE IF Requested(ip) # {} THEN Requested(ip)
    ELSE IF Mine(s) # {} THEN {Last(Mine(s))} ELSE {}
(* A station that asks for another address, ours or not, loses its entry.  *)
AfterRequest(s, ip) ==
    [e \in Entry |->
        IF /\ Mine(s) # {} /\ e = Last(Mine(s))
           /\ IpUnavailable(s, ip) \/ Requested(ip) # {}
        THEN Dropped(e) ELSE client[e]]

AfterRelease(s) == [e \in Entry |-> IF Mine(s) # {} /\ e = Last(Mine(s))
                                    THEN Dropped(e) ELSE client[e]]

(* _DhcpClientSMEHandle for the entry e found in table t, with             *)
(* _CleanClientHistory.  State SELECT is passed through on the way to      *)
(* REQUEST.                                                                *)
NotOffered(t, s, e) == [t EXCEPT ![e].mac = s, ![e].state = "SELECT"] \* mutant
Offered(t, s, e) ==
    [t EXCEPT ![e].mac = s, ![e].state = "REQUEST", ![e].left = OfferTime]
LeaseOfOffer(t, s, e) ==                                             \* mutant
    [t EXCEPT ![e].mac = s, ![e].state = "BIND", ![e].left = OfferTime]
HistoryKept(t, s, e) ==                                              \* mutant
    [t EXCEPT ![e].mac = s, ![e].state = "BIND", ![e].left = LeaseTime]
Bound(t, s, e) ==
    [f \in Entry |->
        IF f = e THEN [t[e] EXCEPT !.mac = s, !.state = "BIND", !.left = LeaseTime]
        ELSE IF t[f].state = "IDLE" /\ t[f].mac = s THEN [t[f] EXCEPT !.mac = NoMac]
        ELSE t[f]]

-----------------------------------------------------------------------------
(* DHCPS_RecvCb, for a frame of an associated station (_CheckMacIsValid).  *)

serverVars == <<enable, socket, ticks, starts, drops>>
Reachable(s) == socket /\ s \in assoc

(* What a station makes of an OFFER, an ACK and a NAK; answer is FALSE     *)
(* when no pbuf is left or the frame is lost on the air.                   *)
OfferGenAndSend(e, answer) ==
    IF answer THEN [ip |-> IpAddr(e), left |-> OfferTime] ELSE Nothing
AckGenAndSend(s, e, answer) ==
    IF answer THEN [ip |-> IpAddr(e), left |-> LeaseTime] ELSE held[s]
NakGenAndSend(s, answer) == IF answer THEN Nothing ELSE held[s]

(* A station without an address asks for any, or for one it knows.  An     *)
(* empty pool is answered with a NAK.                                      *)
Discover(s, ip) ==
    /\ Reachable(s) /\ held[s] = Nothing
    /\ LET E == DiscoverEntry(s, ip)
           t == AfterDiscover(s, ip)
       IN  \/ /\ E = {}
              /\ client' = t
              /\ offer' = [offer EXCEPT ![s] = Nothing]
           \/ /\ E # {}
              /\ client' = Offered(t, s, First(E))
              /\ \E answer \in BOOLEAN :
                    offer' = [offer EXCEPT ![s] = OfferGenAndSend(First(E), answer)]
    /\ UNCHANGED <<serverVars, assoc, held>>

(* An ACK gives the station its address, a NAK takes it away.              *)
Request(s, ip, us) ==
    LET E == RequestEntry(s, ip, us)
        t == AfterRequest(s, ip)
    IN  /\ \/ /\ E = {}
              /\ client' = t
              /\ \E answer \in BOOLEAN :
                    held' = [held EXCEPT ![s] = NakGenAndSend(s, answer)]
           \/ /\ E # {}
              /\ client' = Bound(t, s, First(E))
              /\ \E answer \in BOOLEAN :
                    held' = [held EXCEPT ![s] = AckGenAndSend(s, First(E), answer)]
        /\ offer' = [offer EXCEPT ![s] = Nothing]
        /\ UNCHANGED <<serverVars, assoc>>

(* SELECTING: the offer taken up, or that of another server.               *)
Select(s) == Reachable(s) /\ offer[s] # Nothing /\ Request(s, offer[s].ip, TRUE)
SelectOther(s, ip) == Reachable(s) /\ held[s] = Nothing /\ Request(s, ip, FALSE)
(* INIT-REBOOT: an address the station had before.                         *)
Reboot(s, ip) == Reachable(s) /\ held[s] = Nothing /\ Request(s, ip, TRUE)
(* RENEWING and REBINDING: the address is in ciaddr, which is not read.    *)
Renew(s) == Reachable(s) /\ held[s] # Nothing /\ Request(s, NoIp, TRUE)

(* RELEASE, and DECLINE of an address found to be in use; the frame may be *)
(* lost.                                                                   *)
Release(s) ==
    /\ Reachable(s) /\ held[s] # Nothing
    /\ client' = AfterRelease(s) \/ UNCHANGED client
    /\ held' = [held EXCEPT ![s] = Nothing] /\ offer' = [offer EXCEPT ![s] = Nothing]
    /\ UNCHANGED <<serverVars, assoc>>

(* Messages of any other type are answered with a NAK, INFORM is dropped:  *)
(* neither changes the table.                                              *)
Frame(s) ==
    \/ \E ip \in Ip \cup {NoIp, Outside} : Discover(s, ip)
    \/ \E ip \in Ip \cup {Outside} : SelectOther(s, ip) \/ Reboot(s, ip)
    \/ Select(s) \/ Renew(s) \/ Release(s)

-----------------------------------------------------------------------------
(* _DhcpTickHandle                                                         *)

(* gone: the entries whose station _CheckMacIsValid does not find.         *)
Ticked(c, gone) ==
    IF c.state = "IDLE" THEN c
    ELSE IF c.left > 1 /\ (c.state = "BIND" => ~gone) THEN [c EXCEPT !.left = @ - 1]
    ELSE IF c.state = "REQUEST" THEN Forgotten(c) ELSE Idled(c)

Left(h) == IF h.left > 1 THEN [h EXCEPT !.left = @ - 1] ELSE Nothing
NotRearmed == ticks - 1                                              \* mutant
Rearmed == IF enable THEN ticks ELSE ticks - 1

(* _CheckMacIsValid also says no when it gets no memory, which ends the    *)
(* binding of a station that is still there: D are the entries it fails    *)
(* for.                                                                    *)
Tick(D) ==
    /\ ticks > 0
    /\ client' = IF enable
                 THEN [e \in Entry |-> Ticked(client[e], client[e].mac \notin assoc \/ e \in D)]
                 ELSE client
    /\ ticks' = Rearmed
    /\ held' = [s \in Sta |-> Left(held[s])]
    /\ offer' = [s \in Sta |-> Left(offer[s])]
    /\ drops' = drops + Cardinality(D)
    /\ UNCHANGED <<enable, socket, assoc, starts>>

TickNoMem ==
    /\ drops < MaxDrop
    /\ \E e \in Entry : client[e].state = "BIND" /\ Tick({e})

(* DHCPS_ClientDelete; it takes effect on bound entries only.              *)
DHCPS_ClientDelete(s) ==
    /\ enable /\ drops < MaxDrop
    /\ Mine(s) # {} /\ client[First(Mine(s))].state = "BIND"
    /\ client' = [client EXCEPT ![First(Mine(s))] = Idled(@)]
    /\ drops' = drops + 1
    /\ UNCHANGED <<enable, socket, ticks, staVars, starts>>

(* DHCPS_GetIpByMac, the first entry of a station whatever its state; 0    *)
(* when there is none.                                                     *)
GetIpByMac(s) == LET E == {e \in Entry : client[e].mac = s}
                 IN  IF E = {} THEN NoIp ELSE IpAddr(First(E))

(* A station joins; it leaves or restarts and loses what it knew.          *)
Join(s) ==
    /\ socket /\ s \notin assoc
    /\ assoc' = assoc \cup {s}
    /\ UNCHANGED <<serverVars, client, held, offer>>
Leave(s) ==
    /\ s \in assoc
    /\ assoc' = assoc \ {s}
    /\ held' = [held EXCEPT ![s] = Nothing] /\ offer' = [offer EXCEPT ![s] = Nothing]
    /\ UNCHANGED <<serverVars, client>>

Next ==
    \/ DHCPS_Start \/ DHCPS_Stop \/ Tick({}) \/ TickNoMem
    \/ \E s \in Sta : Frame(s) \/ DHCPS_ClientDelete(s) \/ Join(s) \/ Leave(s)

Spec == Init /\ [][Next]_vars

(* The lwIP thread has a higher priority than all tasks of the SDK and     *)
(* runs its timeouts; no other fairness is assumed.                        *)
FairSpec == Spec /\ WF_vars(Tick({}))

-----------------------------------------------------------------------------
(* Between two handlers no entry is in state SELECT, what is offered or    *)
(* bound has a station and time left, and the tick timer of an enabled     *)
(* server is pending exactly once.                                         *)
TypeOK ==
    /\ enable \in BOOLEAN /\ socket = enable /\ ticks = IF enable THEN 1 ELSE 0
    /\ \A e \in Entry :
          /\ client[e].state \in {"IDLE", "REQUEST", "BIND"}
          /\ client[e].mac \in Sta \cup {NoMac}
          /\ client[e].state # "IDLE" => client[e].mac # NoMac
          /\ client[e].left \in CASE client[e].state = "IDLE" -> {0}
                                 [] client[e].state = "REQUEST" -> 1 .. OfferTime
                                 [] client[e].state = "BIND" -> 1 .. LeaseTime
    /\ assoc \subseteq Sta
    /\ \A s \in Sta : held[s].ip \in Ip \cup {NoIp} /\ held[s].left \in 0 .. LeaseTime
    /\ \A s \in Sta : offer[s].ip \in Ip \cup {NoIp} /\ offer[s].left \in 0 .. OfferTime

(* A station never has two entries at work: _ClientTableLookup takes the   *)
(* last one it meets for the station's own.                                *)
OneEntryPerStation ==
    \A e, f \in Entry :
        e # f /\ client[e].state # "IDLE" /\ client[f].state # "IDLE"
            => client[e].mac # client[f].mac

(* The address of a station is bound to it in the table at least as long   *)
(* as the station uses it, unless the binding was ended behind its back.   *)
HolderIsBound ==
    drops = 0 =>
        \A s \in Sta : held[s] # Nothing =>
            \E e \in Entry : /\ IpAddr(e) = held[s].ip /\ client[e].mac = s
                             /\ client[e].state = "BIND" /\ client[e].left >= held[s].left

(* No two stations use the same address and none uses the access point's.  *)
NoDuplicateAddress ==
    /\ drops = 0 => \A s, t \in Sta : s # t /\ held[s].ip = held[t].ip => held[s].ip = NoIp
    /\ \A s \in Sta : held[s].ip # ServerHost

(* An offer that has not timed out is still reserved: whatever the other   *)
(* stations asked for, the station can take it up.                         *)
OfferReserved ==
    \A s \in Sta : offer[s] # Nothing =>
        \E e \in Entry : /\ IpAddr(e) = offer[s].ip /\ client[e].mac = s
                         /\ client[e].state = "REQUEST" /\ client[e].left >= offer[s].left

(* tls_dhcps_getip "Get station's ip address by mac address"               *)
(* (wm_netif2.0.3.h:276): for a station that uses an address it is that    *)
(* one and never an older one.                                             *)
GetIpExact ==
    drops = 0 => \A s \in Sta : held[s] # Nothing => GetIpByMac(s) = held[s].ip

(* Renewing never moves a station to another address.                      *)
AddressStable ==
    [][drops = 0 => \A s \in Sta : held[s] # Nothing /\ held'[s] # Nothing
                                     => held'[s].ip = held[s].ip]_vars

(* The address of a station that went away comes back to the pool, offers  *)
(* that nobody takes up included.                                          *)
AddressReturns ==
    \A s \in Sta : s \notin assoc ~> (s \in assoc \/ Mine(s) = {})
=============================================================================
