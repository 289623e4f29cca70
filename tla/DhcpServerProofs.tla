-------------------------- MODULE DhcpServerProofs --------------------------
(* Theorems about DhcpServer, checked by TLAPS.                            *)
EXTENDS DhcpServer, TLAPS, FiniteSetTheorems, LeastNumber

-----------------------------------------------------------------------------
(* The inductive invariant                                                 *)

ControlInv == enable \in BOOLEAN /\ socket = enable /\ ticks = (IF enable THEN 1 ELSE 0)

Row == [state : {"IDLE", "REQUEST", "BIND"}, mac : Sta \cup {NoMac}, left : Nat]
RowOK(c) ==
    /\ c \in Row
    /\ c.state # "IDLE" => c.mac # NoMac
    /\ c.state = "IDLE" => c.left = 0
    /\ c.state = "REQUEST" => c.left \in 1 .. OfferTime
    /\ c.state = "BIND" => c.left \in 1 .. LeaseTime

(* A table in which no station has two entries at work, and a station that *)
(* is bound has no other entry, not even an old one.                       *)
AtWork(t, s, e) == t[e].state # "IDLE" /\ t[e].mac = s
Single(t) == \A s \in Sta : \A e, f \in Entry : AtWork(t, s, e) /\ AtWork(t, s, f) => e = f
NoHistory(t) == \A e, f \in Entry : t[e].state = "BIND" /\ t[f].mac = t[e].mac => e = f
TableOK(t) ==
    /\ t = [e \in Entry |-> t[e]]
    /\ \A e \in Entry : RowOK(t[e])
    /\ Single(t) /\ NoHistory(t)

(* Only an associated station of a running server has or is offered an     *)
(* address.                                                                *)
Leases(time) == [ip : Ip \cup {NoIp}, left : 0 .. time]
StationInv ==
    /\ assoc \subseteq Sta /\ drops \in Nat
    /\ held \in [Sta -> Leases(LeaseTime)] /\ offer \in [Sta -> Leases(OfferTime)]
    /\ \A s \in Sta : held[s] # Nothing \/ offer[s] # Nothing => enable /\ s \in assoc

IInv == ControlInv /\ TableOK(client) /\ StationInv /\ HolderIsBound /\ OfferReserved

-----------------------------------------------------------------------------
(* Addresses: the pool is the PoolSize addresses above the server's own.   *)

LEMMA AddressOfEntry ==
  ASSUME NEW e \in Entry
  PROVE  IpAddr(e) = ServerHost + 1 + e
<1>1. ServerHost + 1 + e \in 1 .. HostMask - 1 /\ ServerHost + 1 \in 1 .. HostMask - 1
  BY DhcpAssumption DEF Entry
<1>2. \A h \in 1 .. HostMask - 1 : h % HostMask = h
  BY DhcpAssumption
<1>3. StartHost = ServerHost + 1
  BY <1>1, <1>2, DhcpAssumption DEF StartHost, Wrapped
<1> QED
  BY <1>1, <1>2, <1>3, DhcpAssumption DEF IpAddr, Wrapped

LEMMA AddressesDiffer ==
  /\ \A e, f \in Entry : IpAddr(e) = IpAddr(f) => e = f
  /\ \A e \in Entry : IpAddr(e) \in Ip /\ IpAddr(e) # NoIp /\ IpAddr(e) # ServerHost
BY AddressOfEntry, DhcpAssumption DEF Entry, Ip, NoIp

(* Every non-empty set of entries has a first one.                         *)
LEMMA FirstIsIn ==
  ASSUME NEW S \in SUBSET Entry, S # {}
  PROVE  First(S) \in S
<1>1. S \subseteq Nat
  BY DhcpAssumption DEF Entry
<1>2. \E e \in S : \A f \in S : e <= f
  BY <1>1, LeastExists
<1> QED
  BY <1>2 DEF First

LEMMA OnlyOne ==
  ASSUME NEW e \in Entry
  PROVE  First({e}) = e /\ Last({e}) = e
BY DhcpAssumption DEF First, Last, Entry

-----------------------------------------------------------------------------
(* Rows and tables                                                         *)

LEMMA ReleasedRow ==
  ASSUME NEW c, RowOK(c)
  PROVE  /\ Idled(c).state = "IDLE" /\ Idled(c).mac = c.mac /\ RowOK(Idled(c))
         /\ Forgotten(c).state = "IDLE" /\ Forgotten(c).mac = NoMac /\ RowOK(Forgotten(c))
BY DEF RowOK, Row, Idled, Forgotten

(* The entry a station has at work is the only one.                        *)
LEMMA MineIsOne ==
  ASSUME NEW s \in Sta, TableOK(client), NEW e \in Entry, AtWork(client, s, e)
  PROVE  Mine(s) = {e} /\ Last(Mine(s)) = e /\ First(Mine(s)) = e
<1>1. e \in Mine(s)
  BY DEF Mine, Idle, AtWork
<1>2. \A f \in Mine(s) : f = e
  BY DEF Mine, Idle, AtWork, TableOK, Single
<1>3. Mine(s) = {e}
  BY <1>1, <1>2
<1> QED
  BY <1>3, OnlyOne

LEMMA MineAtWork ==
  ASSUME NEW s \in Sta, TableOK(client), Mine(s) # {}
  PROVE  /\ Last(Mine(s)) \in Entry /\ AtWork(client, s, Last(Mine(s)))
         /\ First(Mine(s)) = Last(Mine(s)) /\ Mine(s) = {Last(Mine(s))}
<1>1. PICK e \in Entry : AtWork(client, s, e)
  BY DEF Mine, Idle, AtWork
<1> QED
  BY <1>1, MineIsOne

(* Entries may age and end in any table: that creates no conflict.         *)
Aged(t, u) ==
    /\ u = [e \in Entry |-> u[e]]
    /\ \A e \in Entry : /\ RowOK(u[e])
                         /\ u[e].state \in {t[e].state, "IDLE"}
                         /\ u[e].mac \in {t[e].mac, NoMac}
Ended(t, u) ==
    /\ u = [e \in Entry |-> u[e]]
    /\ \A e \in Entry : u[e] = t[e] \/ u[e] = Idled(t[e]) \/ u[e] = Forgotten(t[e])

LEMMA AgedTable ==
  ASSUME NEW t, NEW u, TableOK(t), Aged(t, u)
  PROVE  TableOK(u)
<1>1. \A e \in Entry : u[e].state # "IDLE" => u[e].state = t[e].state /\ u[e].mac = t[e].mac
  BY DEF Aged, RowOK
<1>2. Single(u)
  BY <1>1 DEF TableOK, Single, AtWork
<1>3. NoHistory(u)
  <2> SUFFICES ASSUME NEW e \in Entry, NEW f \in Entry,
                      u[e].state = "BIND", u[f].mac = u[e].mac
               PROVE  e = f
    BY DEF NoHistory
  <2>1. u[e].state = t[e].state /\ u[e].mac = t[e].mac /\ u[e].mac # NoMac
    BY <1>1 DEF Aged, RowOK
  <2>2. u[f].mac = t[f].mac
    BY <2>1 DEF Aged
  <2> QED
    BY <2>1, <2>2 DEF TableOK, NoHistory
<1> QED
  BY <1>2, <1>3 DEF TableOK, Aged

LEMMA EndedTable ==
  ASSUME NEW t, NEW u, TableOK(t), Ended(t, u)
  PROVE  TableOK(u)
<1>1. \A e \in Entry : RowOK(t[e])
  BY DEF TableOK
<1>2. Aged(t, u)
  BY <1>1, ReleasedRow DEF Ended, Aged
<1> QED
  BY <1>2, AgedTable

(* An entry that no station has at work may be given to a station that has *)
(* none, as an offer, or as a binding when its old entries are forgotten.  *)
NoneAtWork(t, s) == \A e \in Entry : ~AtWork(t, s, e)

LEMMA OfferedTable ==
  ASSUME NEW t, NEW s \in Sta, NEW e \in Entry, TableOK(t), NoneAtWork(t, s),
         t[e].state = "IDLE"
  PROVE  /\ TableOK(Offered(t, s, e))
         /\ Offered(t, s, e)[e] = [state |-> "REQUEST", mac |-> s, left |-> OfferTime]
         /\ \A f \in Entry \ {e} : Offered(t, s, e)[f] = t[f]
<1> DEFINE u == Offered(t, s, e)
<1>1. u = [f \in Entry |-> u[f]]
  BY DEF TableOK, Offered
<1>2. \A f \in Entry \ {e} : u[f] = t[f]
  BY DEF TableOK, Offered
<1>3. u[e] = [state |-> "REQUEST", mac |-> s, left |-> OfferTime]
  <2>1. t[e] \in Row
    BY DEF TableOK, RowOK
  <2> QED
    BY <2>1, DhcpAssumption DEF TableOK, Offered, Row
<1>4. RowOK(u[e])
  BY <1>3, DhcpAssumption DEF RowOK, Row
<1>5. \A f \in Entry : RowOK(u[f])
  BY <1>2, <1>4 DEF TableOK
<1> HIDE DEF u
<1>6. Single(u)
  BY <1>2, <1>3 DEF Single, AtWork, TableOK, NoneAtWork
<1>7. NoHistory(u)
  <2> SUFFICES ASSUME NEW f \in Entry, NEW g \in Entry,
                      u[f].state = "BIND", u[g].mac = u[f].mac
               PROVE  f = g
    BY DEF NoHistory
  <2>1. f # e /\ u[f] = t[f] /\ t[f].mac # s
    BY <1>2, <1>3 DEF NoneAtWork, AtWork
  <2>2. g # e /\ u[g] = t[g]
    BY <1>2, <1>3, <2>1
  <2> QED
    BY <2>1, <2>2 DEF TableOK, NoHistory
<1> QED
  BY <1>1, <1>2, <1>3, <1>5, <1>6, <1>7 DEF TableOK, u

LEMMA BoundTable ==
  ASSUME NEW t, NEW s \in Sta, NEW e \in Entry, TableOK(t),
         t[e].state = "IDLE" \/ AtWork(t, s, e),
         \A f \in Entry : AtWork(t, s, f) => f = e
  PROVE  /\ TableOK(Bound(t, s, e))
         /\ Bound(t, s, e)[e] = [state |-> "BIND", mac |-> s, left |-> LeaseTime]
         /\ \A f \in Entry \ {e} : t[f].state # "IDLE" => Bound(t, s, e)[f] = t[f]
<1> DEFINE u == Bound(t, s, e)
<1>0. \A f \in Entry : t[f] \in Row /\ RowOK(t[f])
  BY DEF TableOK, RowOK
<1>1. u = [f \in Entry |-> u[f]]
  BY DEF Bound
<1>2. \A f \in Entry \ {e} :
         u[f] = IF t[f].state = "IDLE" /\ t[f].mac = s THEN [t[f] EXCEPT !.mac = NoMac] ELSE t[f]
  BY DEF Bound
<1>3. u[e] = [state |-> "BIND", mac |-> s, left |-> LeaseTime]
  BY <1>0, DhcpAssumption DEF Bound, Row
<1> HIDE DEF u
<1>4. RowOK(u[e])
  BY <1>3, DhcpAssumption DEF RowOK, Row
<1>5. \A f \in Entry \ {e} :
         /\ RowOK(u[f]) /\ u[f].state = t[f].state
         /\ u[f] = t[f] \/ (u[f].state = "IDLE" /\ u[f].mac = NoMac)
         /\ u[f].mac # s
  <2> SUFFICES ASSUME NEW f \in Entry \ {e}
               PROVE  /\ RowOK(u[f]) /\ u[f].state = t[f].state
                      /\ u[f] = t[f] \/ (u[f].state = "IDLE" /\ u[f].mac = NoMac)
                      /\ u[f].mac # s
    OBVIOUS
  <2>1. CASE t[f].state = "IDLE" /\ t[f].mac = s
    BY <1>0, <1>2, <2>1, DhcpAssumption DEF RowOK, Row
  <2>2. CASE ~(t[f].state = "IDLE" /\ t[f].mac = s)
    <3>1. u[f] = t[f]
      BY <1>2, <2>2
    <3>2. t[f].mac # s
      BY <2>2 DEF AtWork
    <3> QED
      BY <1>0, <3>1, <3>2
  <2> QED
    BY <2>1, <2>2
<1>6. Single(u)
  BY <1>3, <1>5 DEF Single, AtWork, TableOK
<1>7. NoHistory(u)
  <2> SUFFICES ASSUME NEW f \in Entry, NEW g \in Entry,
                      u[f].state = "BIND", u[g].mac = u[f].mac
               PROVE  f = g
    BY DEF NoHistory
  <2>1. CASE f = e
    BY <1>3, <1>5, <2>1
  <2>2. CASE f # e
    <3>1. u[f] = t[f] /\ u[f].mac # s /\ u[f].mac # NoMac
      BY <1>5, <2>2 DEF RowOK
    <3>2. g # e /\ u[g] = t[g]
      BY <1>3, <1>5, <3>1
    <3> QED
      BY <3>1, <3>2 DEF TableOK, NoHistory
  <2> QED
    BY <2>1, <2>2
<1> QED
  BY <1>1, <1>2, <1>3, <1>4, <1>5, <1>6, <1>7 DEF TableOK, u

-----------------------------------------------------------------------------
(* _ClientTableLookup serves one station: the entries other stations have  *)
(* at work stay as they are.                                               *)

Keeps(s, t) == \A e \in Entry : client[e].state # "IDLE" /\ client[e].mac # s => t[e] = client[e]
OpenTo(t, s, e) == t[e].state = "IDLE" \/ t[e].mac = s

LEMMA LookupOnDiscover ==
  ASSUME NEW s \in Sta, NEW ip, TableOK(client)
  PROVE  /\ TableOK(AfterDiscover(s, ip)) /\ Keeps(s, AfterDiscover(s, ip))
         /\ NoneAtWork(AfterDiscover(s, ip), s)
         /\ DiscoverEntry(s, ip) \subseteq Entry
         /\ \A e \in DiscoverEntry(s, ip) :
               AfterDiscover(s, ip)[e].state = "IDLE" /\ OpenTo(client, s, e)
<1> DEFINE t == AfterDiscover(s, ip)
<1>0. \A e \in Entry : RowOK(client[e])
  BY DEF TableOK
<1>1. CASE Mine(s) = {}
  <2>1. \A e \in Entry : t[e] = client[e] /\ ~AtWork(client, s, e)
    BY <1>1 DEF AfterDiscover, Mine, Idle, AtWork
  <2>2. Ended(client, t)
    BY <2>1 DEF Ended, AfterDiscover
  <2>3. NoneAtWork(t, s) /\ Keeps(s, t)
    BY <2>1 DEF NoneAtWork, Keeps, AtWork
  <2>4. DiscoverEntry(s, ip) \subseteq Idle
    BY <1>1 DEF DiscoverEntry, Requested, MyHistory, Free, History
  <2>5. \A e \in Idle : e \in Entry /\ t[e].state = "IDLE" /\ OpenTo(client, s, e)
    BY <2>1 DEF Idle, OpenTo
  <2> HIDE DEF t
  <2> QED
    BY <2>2, <2>3, <2>4, <2>5, EndedTable DEF t
<1>2. CASE Mine(s) # {}
  <2> DEFINE m == Last(Mine(s))
  <2>1. m \in Entry /\ AtWork(client, s, m) /\ Mine(s) = {m}
    BY <1>2, MineAtWork
  <2>2. t[m] = Forgotten(client[m]) \/ t[m] = Idled(client[m])
    BY <1>2, <2>1 DEF AfterDiscover
  <2>3. \A e \in Entry \ {m} : t[e] = client[e]
    BY <1>2 DEF AfterDiscover
  <2>4. t[m].state = "IDLE"
    BY <1>0, <2>1, <2>2, ReleasedRow
  <2>5. Ended(client, t)
    BY <2>2, <2>3 DEF Ended, AfterDiscover
  <2>6. \A e \in Entry \ {m} : ~AtWork(client, s, e)
    BY <2>1 DEF Mine, Idle, AtWork
  <2>7. NoneAtWork(t, s) /\ Keeps(s, t)
    BY <2>1, <2>3, <2>4, <2>6 DEF NoneAtWork, Keeps, AtWork
  <2>8. DiscoverEntry(s, ip) \subseteq Idle \cup {m}
    BY <1>2 DEF DiscoverEntry, Requested
  <2>9. \A e \in Idle \cup {m} : e \in Entry /\ t[e].state = "IDLE" /\ OpenTo(client, s, e)
    BY <2>1, <2>3, <2>4 DEF Idle, OpenTo, AtWork
  <2> HIDE DEF t, m
  <2> QED
    BY <2>5, <2>7, <2>8, <2>9, EndedTable DEF t
<1> QED
  BY <1>1, <1>2

(* The entry that a REQUEST or a RELEASE ends.                             *)
LEMMA DroppedTable ==
  ASSUME NEW s \in Sta, NEW t, TableOK(client), Mine(s) # {},
         t = [e \in Entry |-> IF e = Last(Mine(s)) THEN Dropped(e) ELSE client[e]]
  PROVE  TableOK(t) /\ Keeps(s, t) /\ NoneAtWork(t, s)
<1> DEFINE m == Last(Mine(s))
<1>1. m \in Entry /\ AtWork(client, s, m) /\ Mine(s) = {m} /\ RowOK(client[m])
  BY MineAtWork DEF TableOK
<1>2. \A e \in Entry \ {m} : t[e] = client[e] /\ ~AtWork(client, s, e)
  BY <1>1 DEF Mine, Idle, AtWork
<1>3. t[m] = Forgotten(client[m]) \/ t[m] = Idled(client[m])
  BY <1>1 DEF Dropped
<1>4. t[m].state = "IDLE"
  BY <1>1, <1>3, ReleasedRow
<1>5. Ended(client, t)
  BY <1>2, <1>3 DEF Ended
<1> HIDE DEF m
<1>6. Keeps(s, t) /\ NoneAtWork(t, s)
  BY <1>1, <1>2, <1>4 DEF Keeps, NoneAtWork, AtWork
<1> QED
  BY <1>5, <1>6, EndedTable

LEMMA LookupOnRequest ==
  ASSUME NEW s \in Sta, NEW ip, NEW us, TableOK(client)
  PROVE  LET t == AfterRequest(s, ip)
             E == RequestEntry(s, ip, us)
         IN  /\ TableOK(t) /\ Keeps(s, t) /\ E \subseteq Entry
             /\ \A e \in E : /\ t[e].state = "IDLE" \/ AtWork(t, s, e)
                             /\ \A f \in Entry : AtWork(t, s, f) => f = e
                             /\ OpenTo(client, s, e)
<1> DEFINE t == AfterRequest(s, ip)
           E == RequestEntry(s, ip, us)
<1>1. CASE Mine(s) = {}
  <2>1. t = client
    BY <1>1 DEF AfterRequest, TableOK
  <2>2. NoneAtWork(t, s)
    BY <1>1, <2>1 DEF Mine, Idle, NoneAtWork, AtWork
  <2>3. E \subseteq Idle
    BY <1>1 DEF RequestEntry, Requested
  <2> QED
    BY <2>1, <2>2, <2>3 DEF Keeps, NoneAtWork, Idle, OpenTo
<1>2. CASE Mine(s) # {} /\ (IpUnavailable(s, ip) \/ Requested(ip) # {})
  <2>1. t = [e \in Entry |-> IF e = Last(Mine(s)) THEN Dropped(e) ELSE client[e]]
    BY <1>2 DEF AfterRequest
  <2>2. TableOK(t) /\ Keeps(s, t) /\ NoneAtWork(t, s)
    BY <1>2, <2>1, DroppedTable
  <2>3. E \subseteq Idle
    BY <1>2 DEF RequestEntry, Requested
  <2>4. \A e \in Idle : e \in Entry /\ t[e].state = "IDLE" /\ OpenTo(client, s, e)
    <3>1. Last(Mine(s)) \notin Idle
      BY <1>2, MineAtWork DEF AtWork, Idle
    <3> QED
      BY <2>1, <3>1 DEF Idle, OpenTo
  <2> HIDE DEF t, E
  <2> QED
    BY <2>2, <2>3, <2>4 DEF NoneAtWork, t, E
<1>3. CASE Mine(s) # {} /\ ~IpUnavailable(s, ip) /\ Requested(ip) = {}
  <2>1. t = client
    BY <1>3 DEF AfterRequest, TableOK
  <2>2. E \subseteq {Last(Mine(s))}
    BY <1>3 DEF RequestEntry
  <2>3. Last(Mine(s)) \in Entry /\ AtWork(t, s, Last(Mine(s)))
    BY <1>3, <2>1, MineAtWork
  <2>4. \A f \in Entry : AtWork(t, s, f) => f = Last(Mine(s))
    BY <2>1, MineIsOne
  <2> QED
    BY <2>1, <2>2, <2>3, <2>4 DEF Keeps, OpenTo, AtWork
<1> QED
  BY <1>1, <1>2, <1>3

-----------------------------------------------------------------------------
(* The steps.  A frame of station s keeps the invariant if the table still *)
(* agrees with what s itself is left with.                                 *)

Backed(t, s, lease, state) ==
    \E e \in Entry : /\ IpAddr(e) = lease.ip /\ t[e].mac = s
                     /\ t[e].state = state /\ t[e].left >= lease.left

LEMMA InvParts ==
  ASSUME IInv, NEW s \in Sta
  PROVE  /\ held[s] # Nothing /\ drops = 0 => Backed(client, s, held[s], "BIND")
         /\ offer[s] # Nothing => Backed(client, s, offer[s], "REQUEST")
         /\ held[s] \in Leases(LeaseTime) /\ offer[s] \in Leases(OfferTime)
BY DEF IInv, HolderIsBound, OfferReserved, StationInv, Backed

LEMMA StationStep ==
  ASSUME IInv, NEW s \in Sta, s \in assoc, enable,
         UNCHANGED <<serverVars, assoc>>,
         TableOK(client'), Keeps(s, client'),
         NEW h \in Leases(LeaseTime), NEW o \in Leases(OfferTime),
         held' = [held EXCEPT ![s] = h], offer' = [offer EXCEPT ![s] = o],
         h # Nothing /\ drops = 0 => Backed(client', s, h, "BIND"),
         o # Nothing => Backed(client', s, o, "REQUEST")
  PROVE  IInv'
<1> USE DEF serverVars
<1>1. ControlInv'
  BY DEF IInv, ControlInv
<1>2. StationInv'
  BY DEF IInv, StationInv, Leases
<1>3. \A r \in Sta \ {s} : \A e \in Entry : AtWork(client, r, e) => client'[e] = client[e]
  BY DEF Keeps, AtWork
<1>4. held'[s] = h /\ offer'[s] = o
      /\ \A r \in Sta \ {s} : held'[r] = held[r] /\ offer'[r] = offer[r]
  BY DEF IInv, StationInv
<1>5. HolderIsBound'
  <2> SUFFICES ASSUME drops = 0, NEW r \in Sta, held'[r] # Nothing
               PROVE  Backed(client', r, held'[r], "BIND")
    BY DEF HolderIsBound, Backed, Nothing, NoIp
  <2>1. CASE r = s
    BY <1>4, <2>1
  <2>2. CASE r # s
    <3>1. Backed(client, r, held[r], "BIND") /\ held'[r] = held[r]
      BY <1>4, <2>2, InvParts
    <3> QED
      BY <1>3, <2>2, <3>1 DEF Backed, AtWork
  <2> QED
    BY <2>1, <2>2
<1>6. OfferReserved'
  <2> SUFFICES ASSUME NEW r \in Sta, offer'[r] # Nothing
               PROVE  Backed(client', r, offer'[r], "REQUEST")
    BY DEF OfferReserved, Backed, Nothing, NoIp
  <2>1. CASE r = s
    BY <1>4, <2>1
  <2>2. CASE r # s
    <3>1. Backed(client, r, offer[r], "REQUEST") /\ offer'[r] = offer[r]
      BY <1>4, <2>2, InvParts
    <3> QED
      BY <1>3, <2>2, <3>1 DEF Backed, AtWork
  <2> QED
    BY <2>1, <2>2
<1> QED
  BY <1>1, <1>2, <1>5, <1>6 DEF IInv

LEMMA NothingIsALease == \A n \in Nat : Nothing \in Leases(n)
BY DEF Nothing, Leases, NoIp

LEMMA DiscoverStep ==
  ASSUME IInv, NEW s \in Sta, NEW ip, Discover(s, ip)
  PROVE  IInv'
<1> DEFINE E == DiscoverEntry(s, ip)
           t == AfterDiscover(s, ip)
<1>1. /\ TableOK(t) /\ Keeps(s, t) /\ NoneAtWork(t, s) /\ E \subseteq Entry
      /\ \A e \in E : t[e].state = "IDLE" /\ OpenTo(client, s, e)
  BY LookupOnDiscover DEF IInv
<1>2. s \in assoc /\ enable /\ held[s] = Nothing /\ UNCHANGED <<serverVars, assoc, held>>
  BY DEF Discover, Reachable, IInv, ControlInv
<1>3. held' = [held EXCEPT ![s] = Nothing]
  BY <1>2 DEF IInv, StationInv
<1>4. Nothing \in Leases(LeaseTime) /\ Nothing \in Leases(OfferTime)
  BY NothingIsALease, DhcpAssumption
<1>5. CASE E = {} /\ client' = t /\ offer' = [offer EXCEPT ![s] = Nothing]
  BY <1>1, <1>2, <1>3, <1>4, <1>5, StationStep
<1>6. ASSUME NEW answer \in BOOLEAN,
             E # {}, client' = Offered(t, s, First(E)),
             offer' = [offer EXCEPT ![s] = OfferGenAndSend(First(E), answer)]
      PROVE  IInv'
  <2> DEFINE e == First(E)
             o == OfferGenAndSend(e, answer)
  <2>1. e \in E /\ e \in Entry
    BY <1>1, <1>6, FirstIsIn
  <2>2. t[e].state = "IDLE" /\ OpenTo(client, s, e)
    BY <1>1, <2>1
  <2> HIDE DEF E, t, e
  <2>3. /\ TableOK(client')
        /\ client'[e] = [state |-> "REQUEST", mac |-> s, left |-> OfferTime]
        /\ \A f \in Entry \ {e} : client'[f] = t[f]
    BY <1>1, <1>6, <2>1, <2>2, OfferedTable DEF e
  <2>4. Keeps(s, client')
    BY <1>1, <2>2, <2>3 DEF Keeps, OpenTo
  <2>5. o \in Leases(OfferTime)
    BY <1>4, <2>1, AddressesDiffer, DhcpAssumption DEF OfferGenAndSend, Leases
  <2>6. o # Nothing => Backed(client', s, o, "REQUEST")
    BY <2>1, <2>3, DhcpAssumption DEF Backed, OfferGenAndSend
  <2> QED
    BY <1>2, <1>3, <1>4, <1>6, <2>3, <2>4, <2>5, <2>6, StationStep DEF e
<1> QED
  BY <1>5, <1>6 DEF Discover

(* What a REQUEST does, when the station has no address to lose or is sure *)
(* to keep the one it has.                                                 *)
LEMMA RequestStep ==
  ASSUME IInv, NEW s \in Sta, NEW ip, NEW us, Reachable(s), Request(s, ip, us),
         drops = 0 /\ held[s] # Nothing =>
            \E e \in Entry : RequestEntry(s, ip, us) = {e} /\ IpAddr(e) = held[s].ip
  PROVE  /\ IInv'
         /\ drops = 0 /\ held[s] # Nothing /\ held'[s] # Nothing => held'[s].ip = held[s].ip
         /\ \A r \in Sta \ {s} : held'[r] = held[r]
<1> DEFINE E == RequestEntry(s, ip, us)
           t == AfterRequest(s, ip)
<1>1. /\ TableOK(t) /\ Keeps(s, t) /\ E \subseteq Entry
      /\ \A e \in E : /\ t[e].state = "IDLE" \/ AtWork(t, s, e)
                      /\ \A f \in Entry : AtWork(t, s, f) => f = e
                      /\ OpenTo(client, s, e)
  BY LookupOnRequest DEF IInv
<1>2. /\ s \in assoc /\ enable /\ UNCHANGED <<serverVars, assoc>>
      /\ offer' = [offer EXCEPT ![s] = Nothing]
  BY DEF Request, Reachable, IInv, ControlInv
<1>3. Nothing \in Leases(LeaseTime) /\ Nothing \in Leases(OfferTime)
  BY NothingIsALease, DhcpAssumption
<1>4. held[s] \in Leases(LeaseTime) /\ held \in [Sta -> Leases(LeaseTime)]
  BY DEF IInv, StationInv
<1>5. ASSUME NEW answer \in BOOLEAN, E = {}, client' = t,
             held' = [held EXCEPT ![s] = NakGenAndSend(s, answer)]
      PROVE  /\ IInv'
             /\ drops = 0 /\ held[s] # Nothing /\ held'[s] # Nothing => held'[s].ip = held[s].ip
             /\ \A r \in Sta \ {s} : held'[r] = held[r]
  <2> DEFINE h == NakGenAndSend(s, answer)
  <2>1. h \in Leases(LeaseTime)
    BY <1>3, <1>4 DEF NakGenAndSend
  <2>2. ~(drops = 0 /\ held[s] # Nothing)
    BY <1>5
  <2>3. ~(h # Nothing /\ drops = 0)
    BY <2>2 DEF NakGenAndSend
  <2> HIDE DEF h, E, t
  <2>4. IInv'
    BY <1>1, <1>2, <1>3, <1>5, <2>1, <2>3, StationStep DEF h
  <2> QED
    BY <1>4, <1>5, <2>2, <2>4
<1>6. ASSUME NEW answer \in BOOLEAN, E # {}, client' = Bound(t, s, First(E)),
             held' = [held EXCEPT ![s] = AckGenAndSend(s, First(E), answer)]
      PROVE  /\ IInv'
             /\ drops = 0 /\ held[s] # Nothing /\ held'[s] # Nothing => held'[s].ip = held[s].ip
             /\ \A r \in Sta \ {s} : held'[r] = held[r]
  <2> DEFINE e == First(E)
             h == AckGenAndSend(s, e, answer)
  <2>1. e \in E /\ e \in Entry
    BY <1>1, <1>6, FirstIsIn
  <2>2. drops = 0 /\ held[s] # Nothing => IpAddr(e) = held[s].ip
    BY <2>1
  <2> HIDE DEF E, t, e
  <2>3. /\ TableOK(client')
        /\ client'[e] = [state |-> "BIND", mac |-> s, left |-> LeaseTime]
        /\ \A f \in Entry \ {e} : t[f].state # "IDLE" => client'[f] = t[f]
    BY <1>1, <1>6, <2>1, BoundTable DEF e
  <2>4. Keeps(s, client')
    BY <1>1, <2>1, <2>3 DEF Keeps, OpenTo
  <2>5. h \in Leases(LeaseTime) /\ LeaseTime >= h.left
    BY <1>4, <2>1, AddressesDiffer, DhcpAssumption DEF AckGenAndSend, Leases
  <2>6. h # Nothing /\ drops = 0 => h.ip = IpAddr(e)
    BY <2>2 DEF AckGenAndSend
  <2>7. h # Nothing /\ drops = 0 => Backed(client', s, h, "BIND")
    BY <2>1, <2>3, <2>5, <2>6 DEF Backed
  <2>8. held'[s] = h /\ \A r \in Sta \ {s} : held'[r] = held[r]
    BY <1>4, <1>6 DEF e
  <2>9. IInv'
    <3> HIDE DEF h
    <3> QED
      BY <1>2, <1>3, <1>6, <2>3, <2>4, <2>5, <2>7, StationStep DEF e, h
  <2> QED
    BY <2>2, <2>6, <2>8, <2>9
<1> QED
  BY <1>5, <1>6 DEF Request

(* The address of a station that is offered or bound one is not idle, so   *)
(* asking for it, or for none, leads to the entry the station has.         *)
LEMMA OwnEntry ==
  ASSUME TableOK(client), NEW s \in Sta, NEW e \in Entry, AtWork(client, s, e),
         NEW ip \in {IpAddr(e), NoIp}
  PROVE  RequestEntry(s, ip, TRUE) = {e}
<1>1. Requested(ip) = {}
  BY AddressesDiffer DEF Requested, Idle, AtWork
<1>2. ~IpUnavailable(s, ip)
  BY AddressesDiffer DEF IpUnavailable, AtWork
<1>3. Mine(s) = {e} /\ Last(Mine(s)) = e
  BY MineIsOne
<1> QED
  BY <1>1, <1>2, <1>3 DEF RequestEntry

KeepsAddress ==
    drops = 0 => \A s \in Sta : held[s] # Nothing /\ held'[s] # Nothing
                                  => held'[s].ip = held[s].ip

LEMMA SelectStep ==
  ASSUME IInv, NEW s \in Sta, Select(s)
  PROVE  IInv' /\ KeepsAddress
<1>1. Reachable(s) /\ offer[s] # Nothing /\ Request(s, offer[s].ip, TRUE)
  BY DEF Select
<1>2. ~(drops = 0 /\ held[s] # Nothing)
  <2> SUFFICES ASSUME drops = 0, held[s] # Nothing
               PROVE  FALSE
    OBVIOUS
  <2>1. PICK e \in Entry : client[e].mac = s /\ client[e].state = "BIND"
    BY InvParts DEF Backed
  <2>2. PICK f \in Entry : client[f].mac = s /\ client[f].state = "REQUEST"
    BY <1>1, InvParts DEF Backed
  <2> QED
    BY <2>1, <2>2 DEF IInv, TableOK, Single, AtWork
<1> QED
  BY <1>1, <1>2, RequestStep DEF KeepsAddress

LEMMA RenewStep ==
  ASSUME IInv, NEW s \in Sta, Renew(s)
  PROVE  IInv' /\ KeepsAddress
<1>1. Reachable(s) /\ held[s] # Nothing /\ Request(s, NoIp, TRUE)
  BY DEF Renew
<1>2. drops = 0 => \E e \in Entry : RequestEntry(s, NoIp, TRUE) = {e} /\ IpAddr(e) = held[s].ip
  <2> SUFFICES ASSUME drops = 0
               PROVE  \E e \in Entry : /\ RequestEntry(s, NoIp, TRUE) = {e}
                                       /\ IpAddr(e) = held[s].ip
    OBVIOUS
  <2>1. PICK e \in Entry : /\ client[e].mac = s /\ client[e].state = "BIND"
                           /\ IpAddr(e) = held[s].ip
    BY <1>1, InvParts DEF Backed
  <2> QED
    BY <2>1, OwnEntry DEF IInv, AtWork
<1> QED
  BY <1>1, <1>2, RequestStep DEF KeepsAddress

LEMMA UnboundRequestStep ==
  ASSUME IInv, NEW s \in Sta, NEW ip, SelectOther(s, ip) \/ Reboot(s, ip)
  PROVE  IInv' /\ KeepsAddress
BY RequestStep DEF SelectOther, Reboot, KeepsAddress

LEMMA ReleaseStep ==
  ASSUME IInv, NEW s \in Sta, Release(s)
  PROVE  IInv'
<1>1. s \in assoc /\ enable /\ TableOK(client)
  BY DEF Release, Reachable, IInv, ControlInv
<1>2. TableOK(client') /\ Keeps(s, client')
  <2>1. CASE UNCHANGED client
    BY <1>1, <2>1 DEF Keeps
  <2>2. CASE client' = AfterRelease(s) /\ Mine(s) = {}
    BY <1>1, <2>2 DEF AfterRelease, Keeps, TableOK
  <2>3. CASE client' = AfterRelease(s) /\ Mine(s) # {}
    <3>1. client' = [e \in Entry |-> IF e = Last(Mine(s)) THEN Dropped(e) ELSE client[e]]
      BY <2>3 DEF AfterRelease
    <3> QED
      BY <1>1, <2>3, <3>1, DroppedTable
  <2> QED
    BY <2>1, <2>2, <2>3 DEF Release
<1>3. Nothing \in Leases(LeaseTime) /\ Nothing \in Leases(OfferTime)
  BY NothingIsALease, DhcpAssumption
<1> QED
  BY <1>1, <1>2, <1>3, StationStep DEF Release

LEMMA JoinStep ==
  ASSUME IInv, NEW s \in Sta, Join(s)
  PROVE  IInv'
<1>1. ControlInv' /\ TableOK(client') /\ HolderIsBound' /\ OfferReserved'
  BY DEF Join, IInv, ControlInv, HolderIsBound, OfferReserved, serverVars
<1>2. StationInv'
  BY DEF Join, IInv, StationInv, serverVars
<1> QED
  BY <1>1, <1>2 DEF IInv

LEMMA LeaveStep ==
  ASSUME IInv, NEW s \in Sta, Leave(s)
  PROVE  IInv'
<1>0. Nothing \in Leases(LeaseTime) /\ Nothing \in Leases(OfferTime)
  BY NothingIsALease, DhcpAssumption
<1>1. ControlInv' /\ TableOK(client')
  BY DEF Leave, IInv, ControlInv, serverVars
<1>2. /\ held'[s] = Nothing /\ offer'[s] = Nothing
      /\ \A r \in Sta \ {s} : held'[r] = held[r] /\ offer'[r] = offer[r]
  BY DEF Leave, IInv, StationInv
<1>3. StationInv'
  <2>1. held' \in [Sta -> Leases(LeaseTime)] /\ offer' \in [Sta -> Leases(OfferTime)]
    BY <1>0 DEF Leave, IInv, StationInv
  <2>2. \A r \in Sta : held'[r] # Nothing \/ offer'[r] # Nothing => enable' /\ r \in assoc'
    BY <1>2 DEF Leave, IInv, StationInv, serverVars
  <2> QED
    BY <2>1, <2>2 DEF Leave, IInv, StationInv, serverVars, Nothing, NoIp
<1>4. HolderIsBound' /\ OfferReserved'
  BY <1>2 DEF Leave, IInv, HolderIsBound, OfferReserved, serverVars, Nothing, NoIp
<1> QED
  BY <1>1, <1>3, <1>4 DEF IInv

LEMMA FreeTableOK == TableOK(FreeTable)
<1>1. \A e \in Entry : FreeTable[e] = [state |-> "IDLE", mac |-> NoMac, left |-> 0]
  BY DEF FreeTable
<1>2. \A e \in Entry : RowOK(FreeTable[e])
  BY <1>1 DEF RowOK, Row
<1>3. FreeTable = [e \in Entry |-> FreeTable[e]]
  BY DEF FreeTable
<1> QED
  BY <1>1, <1>2, <1>3 DEF TableOK, Single, NoHistory, AtWork

LEMMA StartStep ==
  ASSUME IInv, DHCPS_Start
  PROVE  IInv'
<1>1. ControlInv'
  <2>1. ticks = 0
    BY DEF DHCPS_Start, IInv, ControlInv
  <2>2. CASE socket' = TRUE /\ ticks' = ticks + 1 /\ enable' = TRUE
    <3>1. ticks' = 1
      BY <2>1, <2>2
    <3> QED
      BY <2>2, <3>1 DEF ControlInv
  <2>3. CASE UNCHANGED <<socket, ticks, enable>>
    BY <2>3 DEF IInv, ControlInv
  <2> QED
    BY <2>2, <2>3 DEF DHCPS_Start
<1>2. TableOK(client')
  BY FreeTableOK DEF DHCPS_Start
<1>3. \A s \in Sta : held[s] = Nothing /\ offer[s] = Nothing
  BY DEF DHCPS_Start, IInv, StationInv
<1>4. StationInv'
  BY <1>3 DEF DHCPS_Start, IInv, StationInv, staVars
<1>5. HolderIsBound' /\ OfferReserved'
  BY <1>3 DEF DHCPS_Start, HolderIsBound, OfferReserved, staVars, Nothing, NoIp
<1> QED
  BY <1>1, <1>2, <1>4, <1>5 DEF IInv

LEMMA StopStep ==
  ASSUME IInv, DHCPS_Stop
  PROVE  IInv'
<1>0. Nothing \in Leases(LeaseTime) /\ Nothing \in Leases(OfferTime)
  BY NothingIsALease, DhcpAssumption
<1>1. ControlInv'
  <2>1. ticks' = 0
    BY DEF DHCPS_Stop, IInv, ControlInv
  <2> QED
    BY <2>1 DEF DHCPS_Stop, ControlInv
<1>2. TableOK(client')
  BY FreeTableOK DEF DHCPS_Stop
<1>3. StationInv'
  BY <1>0 DEF DHCPS_Stop, IInv, StationInv, Nothing, NoIp
<1>4. HolderIsBound' /\ OfferReserved'
  BY DEF DHCPS_Stop, HolderIsBound, OfferReserved, Nothing, NoIp
<1> QED
  BY <1>1, <1>2, <1>3, <1>4 DEF IInv

LEMMA Initially == Init => IInv
<1> SUFFICES ASSUME Init PROVE IInv
  OBVIOUS
<1>0. Nothing \in Leases(LeaseTime) /\ Nothing \in Leases(OfferTime)
  BY NothingIsALease, DhcpAssumption
<1>1. ControlInv /\ TableOK(client)
  BY FreeTableOK DEF Init, ControlInv
<1>2. StationInv
  BY <1>0 DEF Init, StationInv
<1>3. HolderIsBound /\ OfferReserved
  BY DEF Init, HolderIsBound, OfferReserved
<1> QED
  BY <1>1, <1>2, <1>3 DEF IInv

(* _DhcpTickHandle.  An entry that runs out, or whose station is gone,     *)
(* ends; the others have one tick less, like what the stations hold.       *)
LEMMA TickedRow ==
  ASSUME NEW c, RowOK(c), NEW gone
  PROVE  /\ RowOK(Ticked(c, gone))
         /\ Ticked(c, gone).state \in {c.state, "IDLE"}
         /\ Ticked(c, gone).mac \in {c.mac, NoMac}
         /\ c.state # "IDLE" /\ c.left > 1 /\ (c.state = "BIND" => ~gone)
               => /\ Ticked(c, gone).state = c.state /\ Ticked(c, gone).mac = c.mac
                  /\ Ticked(c, gone).left = c.left - 1
<1>1. CASE c.state = "IDLE"
  BY <1>1 DEF Ticked
<1>2. CASE c.state # "IDLE" /\ c.left > 1 /\ (c.state = "BIND" => ~gone)
  <2>1. Ticked(c, gone) = [c EXCEPT !.left = c.left - 1]
    BY <1>2 DEF Ticked
  <2> QED
    BY <1>2, <2>1, DhcpAssumption DEF RowOK, Row
<1>3. CASE c.state # "IDLE" /\ ~(c.left > 1 /\ (c.state = "BIND" => ~gone))
  <2>1. Ticked(c, gone) \in {Forgotten(c), Idled(c)}
    BY <1>3 DEF Ticked
  <2> QED
    BY <1>3, <2>1, ReleasedRow
<1> QED
  BY <1>1, <1>2, <1>3

LEMMA LeftOver ==
  ASSUME NEW n \in Nat, NEW h \in Leases(n)
  PROVE  /\ Left(h) \in Leases(n)
         /\ Left(h) # Nothing => /\ h # Nothing /\ h.left > 1
                                 /\ Left(h).ip = h.ip /\ Left(h).left = h.left - 1
BY DEF Left, Leases, Nothing, NoIp

LEMMA TickStep ==
  ASSUME IInv, NEW D, Tick(D), Cardinality(D) \in Nat, Cardinality(D) = 0 => D = {}
  PROVE  IInv' /\ KeepsAddress
<1>0. enable
  BY DEF Tick, IInv, ControlInv
<1>1. ControlInv'
  BY <1>0, Zenon DEF Tick, Rearmed, IInv, ControlInv
<1>2. \A e \in Entry : RowOK(client[e])
  BY DEF IInv, TableOK
<1>3. client' = [e \in Entry |-> Ticked(client[e], client[e].mac \notin assoc \/ e \in D)]
  BY <1>0 DEF Tick
<1>4. TableOK(client')
  <2>1. Aged(client, client')
    BY <1>2, <1>3, TickedRow DEF Aged
  <2> QED
    BY <2>1, AgedTable DEF IInv
<1>5. \A s \in Sta :
         /\ held'[s] \in Leases(LeaseTime) /\ offer'[s] \in Leases(OfferTime)
         /\ held'[s] # Nothing =>
               /\ held[s] # Nothing /\ held[s].left > 1
               /\ held'[s].ip = held[s].ip /\ held'[s].left = held[s].left - 1
         /\ offer'[s] # Nothing =>
               /\ offer[s] # Nothing /\ offer[s].left > 1
               /\ offer'[s].ip = offer[s].ip /\ offer'[s].left = offer[s].left - 1
  BY LeftOver, InvParts, DhcpAssumption DEF Tick
<1>6. StationInv'
  <2>1. held' \in [Sta -> Leases(LeaseTime)] /\ offer' \in [Sta -> Leases(OfferTime)]
    BY <1>5 DEF Tick
  <2>2. \A s \in Sta : held'[s] # Nothing \/ offer'[s] # Nothing => enable' /\ s \in assoc'
    BY <1>5 DEF Tick, IInv, StationInv
  <2>3. assoc' \subseteq Sta /\ drops' \in Nat
    BY DEF Tick, IInv, StationInv
  <2> QED
    BY <2>1, <2>2, <2>3 DEF StationInv, Nothing, NoIp
<1>7. HolderIsBound'
  <2> SUFFICES ASSUME drops' = 0, NEW s \in Sta, held'[s] # Nothing
               PROVE  Backed(client', s, held'[s], "BIND")
    BY DEF HolderIsBound, Backed, Nothing, NoIp
  <2>1. drops = 0 /\ D = {}
    BY DEF Tick, IInv, StationInv
  <2>2. held[s] # Nothing /\ s \in assoc
    BY <1>5 DEF IInv, StationInv
  <2>3. PICK e \in Entry : /\ IpAddr(e) = held[s].ip /\ client[e].mac = s
                           /\ client[e].state = "BIND" /\ client[e].left >= held[s].left
    BY <2>1, <2>2, InvParts DEF Backed
  <2>4. client[e].left \in Nat /\ held[s].left \in Nat
    BY <1>2, InvParts DEF RowOK, Row, Leases
  <2>5. /\ client'[e].mac = s /\ client'[e].state = "BIND"
        /\ client'[e].left = client[e].left - 1
    <3> DEFINE gone == client[e].mac \notin assoc \/ e \in D
    <3>1. ~gone
      BY <2>1, <2>2, <2>3
    <3>2. client'[e] = Ticked(client[e], gone)
      BY <1>3
    <3>3. client[e].left > 1
      BY <1>5, <2>3, <2>4
    <3> HIDE DEF gone
    <3> QED
      BY <1>2, <2>3, <3>1, <3>2, <3>3, TickedRow
  <2> QED
    BY <1>5, <2>3, <2>4, <2>5 DEF Backed
<1>8. OfferReserved'
  <2> SUFFICES ASSUME NEW s \in Sta, offer'[s] # Nothing
               PROVE  Backed(client', s, offer'[s], "REQUEST")
    BY DEF OfferReserved, Backed, Nothing, NoIp
  <2>1. PICK e \in Entry : /\ IpAddr(e) = offer[s].ip /\ client[e].mac = s
                           /\ client[e].state = "REQUEST" /\ client[e].left >= offer[s].left
    BY <1>5, InvParts DEF Backed
  <2>2. client[e].left \in Nat /\ offer[s].left \in Nat
    BY <1>2, InvParts DEF RowOK, Row, Leases
  <2>3. /\ client'[e].mac = s /\ client'[e].state = "REQUEST"
        /\ client'[e].left = client[e].left - 1
    BY <1>2, <1>3, <1>5, <2>1, <2>2, TickedRow
  <2> QED
    BY <1>5, <2>1, <2>2, <2>3 DEF Backed
<1> QED
  BY <1>1, <1>4, <1>5, <1>6, <1>7, <1>8 DEF IInv, KeepsAddress

LEMMA TickNoMemStep ==
  ASSUME IInv, TickNoMem
  PROVE  IInv' /\ KeepsAddress
<1>1. PICK e \in Entry : Tick({e})
  BY DEF TickNoMem
<1>2. Cardinality({e}) = 1
  BY FS_Singleton
<1> QED
  BY <1>1, <1>2, TickStep

LEMMA ClientDeleteStep ==
  ASSUME IInv, NEW s \in Sta, DHCPS_ClientDelete(s)
  PROVE  IInv'
<1> DEFINE m == First(Mine(s))
<1>1. m \in Entry /\ AtWork(client, s, m) /\ client[m].state = "BIND"
  BY MineAtWork DEF DHCPS_ClientDelete, IInv
<1>2. client = [e \in Entry |-> client[e]] /\ RowOK(client[m])
  BY <1>1 DEF IInv, TableOK
<1>3. client' = [client EXCEPT ![m] = Idled(client[m])]
  BY DEF DHCPS_ClientDelete
<1> HIDE DEF m
<1>4. client'[m] = Idled(client[m]) /\ \A e \in Entry \ {m} : client'[e] = client[e]
  BY <1>1, <1>2, <1>3
<1>5. Ended(client, client')
  BY <1>2, <1>3, <1>4 DEF Ended
<1>6. TableOK(client')
  BY <1>5, EndedTable DEF IInv
<1>7. ControlInv' /\ StationInv'
  BY DEF DHCPS_ClientDelete, IInv, ControlInv, StationInv, staVars
<1>8. HolderIsBound'
  BY DEF DHCPS_ClientDelete, IInv, StationInv, HolderIsBound
<1>9. OfferReserved'
  BY <1>1, <1>4 DEF DHCPS_ClientDelete, IInv, OfferReserved, staVars
<1> QED
  BY <1>6, <1>7, <1>8, <1>9 DEF IInv

-----------------------------------------------------------------------------
(* Every step keeps the invariant, and no step moves a station that keeps  *)
(* an address to another one.                                              *)

LEMMA Step ==
  ASSUME IInv, [Next]_vars
  PROVE  IInv' /\ KeepsAddress
<1>1. CASE DHCPS_Start
  BY <1>1, StartStep DEF KeepsAddress, DHCPS_Start, staVars
<1>2. CASE DHCPS_Stop
  BY <1>2, StopStep DEF KeepsAddress, DHCPS_Stop
<1>3. CASE Tick({})
  BY <1>3, TickStep, FS_EmptySet
<1>4. CASE TickNoMem
  BY <1>4, TickNoMemStep
<1>5. ASSUME NEW s \in Sta, Frame(s)
      PROVE  IInv' /\ KeepsAddress
  <2>1. ASSUME NEW ip, Discover(s, ip)
        PROVE  IInv' /\ KeepsAddress
    BY <2>1, DiscoverStep DEF KeepsAddress, Discover
  <2>2. ASSUME NEW ip, SelectOther(s, ip) \/ Reboot(s, ip)
        PROVE  IInv' /\ KeepsAddress
    BY <2>2, UnboundRequestStep
  <2>3. CASE Select(s)
    BY <2>3, SelectStep
  <2>4. CASE Renew(s)
    BY <2>4, RenewStep
  <2>5. CASE Release(s)
    <3>1. \A r \in Sta : held'[r] \in {held[r], Nothing}
      BY <2>5 DEF Release, IInv, StationInv
    <3> QED
      BY <2>5, <3>1, ReleaseStep DEF KeepsAddress
  <2> QED
    BY <1>5, <2>1, <2>2, <2>3, <2>4, <2>5 DEF Frame
<1>6. ASSUME NEW s \in Sta, DHCPS_ClientDelete(s)
      PROVE  IInv' /\ KeepsAddress
  BY <1>6, ClientDeleteStep DEF KeepsAddress, DHCPS_ClientDelete, staVars
<1>7. ASSUME NEW s \in Sta, Join(s)
      PROVE  IInv' /\ KeepsAddress
  BY <1>7, JoinStep DEF KeepsAddress, Join
<1>8. ASSUME NEW s \in Sta, Leave(s)
      PROVE  IInv' /\ KeepsAddress
  <2>1. \A r \in Sta : held'[r] \in {held[r], Nothing}
    BY <1>8 DEF Leave, IInv, StationInv
  <2> QED
    BY <1>8, <2>1, LeaveStep DEF KeepsAddress
<1>9. CASE UNCHANGED vars
  <2>1. UNCHANGED <<enable, socket, ticks, client, assoc, held, offer, drops>>
    BY <1>9 DEF vars, staVars
  <2> QED
    BY <2>1 DEF IInv, ControlInv, StationInv, HolderIsBound, OfferReserved, KeepsAddress
<1> QED
  BY <1>1, <1>2, <1>3, <1>4, <1>5, <1>6, <1>7, <1>8, <1>9 DEF Next

LEMMA Invariance == Spec => []IInv
<1>1. IInv /\ [Next]_vars => IInv'
  BY Step
<1> QED
  BY Initially, <1>1, PTL DEF Spec

(* The table and what the stations know are well formed at all times: no   *)
(* entry stays in state SELECT after a handler, an offered or bound entry  *)
(* has a station and at most its time left, and the tick timer is pending  *)
(* exactly once while the server runs, however it is started and stopped.  *)
THEOREM TypeCorrect == Spec => []TypeOK
<1>1. IInv => TypeOK
  BY DEF IInv, ControlInv, TableOK, RowOK, Row, StationInv, Leases, TypeOK
<1> QED
  BY Invariance, <1>1, PTL

(* _ClientTableLookup never gives a station a second entry.                *)
THEOREM OneEntry == Spec => []OneEntryPerStation
<1>1. IInv => OneEntryPerStation
  BY DEF IInv, TableOK, Single, AtWork, RowOK, Row, OneEntryPerStation
<1> QED
  BY Invariance, <1>1, PTL

(* While a station uses an address the table has it bound to the station.  *)
THEOREM HoldersAreBound == Spec => []HolderIsBound
<1>1. IInv => HolderIsBound
  BY DEF IInv
<1> QED
  BY Invariance, <1>1, PTL

(* The server never gives one address to two stations, nor its own: an     *)
(* entry has one address, and both stations would be bound in it.          *)
THEOREM NoDuplicates == Spec => []NoDuplicateAddress
<1>1. ASSUME IInv
      PROVE  NoDuplicateAddress
  <2>1. ASSUME drops = 0, NEW s \in Sta, NEW t \in Sta, s # t,
               held[s].ip = held[t].ip, held[s].ip # NoIp
        PROVE  FALSE
    <3>1. held[s] # Nothing /\ held[t] # Nothing
      BY <2>1 DEF Nothing
    <3>2. PICK e \in Entry : IpAddr(e) = held[s].ip /\ client[e].mac = s
      BY <1>1, <2>1, <3>1, InvParts DEF Backed
    <3>3. PICK f \in Entry : IpAddr(f) = held[t].ip /\ client[f].mac = t
      BY <1>1, <2>1, <3>1, InvParts DEF Backed
    <3> QED
      BY <2>1, <3>2, <3>3, AddressesDiffer
  <2>2. \A s \in Sta : held[s].ip # ServerHost
    <3>1. \A s \in Sta : held[s].ip \in Ip \cup {NoIp}
      BY <1>1, InvParts DEF Leases
    <3>2. \A ip \in Ip \cup {NoIp} : ip # ServerHost
      BY AddressesDiffer, DhcpAssumption DEF Ip, NoIp
    <3> QED
      BY <3>1, <3>2
  <2> QED
    BY <2>1, <2>2 DEF NoDuplicateAddress
<1> QED
  BY Invariance, <1>1, PTL

(* An offer stays reserved for its station until it has timed out.         *)
THEOREM OffersAreReserved == Spec => []OfferReserved
<1>1. IInv => OfferReserved
  BY DEF IInv
<1> QED
  BY Invariance, <1>1, PTL

(* DHCPS_GetIpByMac finds the address in use and not an older one, because *)
(* _CleanClientHistory leaves a bound station no other entry.              *)
THEOREM GetIp == Spec => []GetIpExact
<1>1. ASSUME IInv
      PROVE  GetIpExact
  <2> SUFFICES ASSUME drops = 0, NEW s \in Sta, held[s] # Nothing
               PROVE  GetIpByMac(s) = held[s].ip
    BY DEF GetIpExact
  <2>1. PICK e \in Entry : /\ IpAddr(e) = held[s].ip /\ client[e].mac = s
                           /\ client[e].state = "BIND"
    BY <1>1, InvParts DEF Backed
  <2>2. {f \in Entry : client[f].mac = s} = {e}
    BY <1>1, <2>1 DEF IInv, TableOK, NoHistory
  <2> QED
    BY <2>1, <2>2, OnlyOne DEF GetIpByMac
<1> QED
  BY Invariance, <1>1, PTL

(* Renewing, rebooting or taking up an offer never moves a station that    *)
(* uses an address to another one.                                         *)
THEOREM AddressesAreStable == Spec => AddressStable
<1>1. IInv /\ [Next]_vars => [KeepsAddress]_vars
  BY Step
<1> QED
  BY Invariance, <1>1, PTL DEF Spec, AddressStable, KeepsAddress
=============================================================================
