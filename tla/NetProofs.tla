------------------------------ MODULE NetProofs ------------------------------
(***************************************************************************)
(* The tables of the network, DHCP, the resolver and the client of HTTP, for *)
(* any sizes, machines, leases, names and servers, and netpoll let in at any *)
(* of the Windows, except where a theorem names one it must stay out of.     *)
(***************************************************************************)
EXTENDS Http, NaturalsInduction, WellFoundedInduction, TLAPS

Addresses == {None, Static} \cup {l[1] : l \in Leases}
Askable   == {None} \cup Names \cup Targets \cup {HostOf(u) : u \in Urls}
AnswerIps == {a[2] : a \in Answers}
From      == {None} \cup Local \cup {l[1] : l \in Leases} \cup AnswerIps \cup Targets
HttpSteps == {"connect", "connected", "send", "look", "read", "close"}
Leasing   == {"boot", "bootOffer", "bootAck", "offer", "ack"}
Asking    == {"reset", "ask", "answer"}
Waits     == {"bootOffer", "bootAck", "offer", "ack", "answer", "pingArp", "pong"}
Steps     == {"boot", "idle", "resolved", "reset", "ask"} \cup Waits \cup HttpSteps

(***************************************************************************)
(* The wire: what is in the ring was sent by a machine or answers what was   *)
(* asked, and no query was numbered beyond the counter.                      *)
(***************************************************************************)
AskedFor(as, n, name) == \E q \in as : q.kind = "query" /\ q.num = n /\ q.val = name
GoodFrame(f, as, gr) ==
  \/ f = Blank
  \/ f.kind = "arp" /\ <<f.from, f.val>> \in Hosts
  \/ f.kind = "offer" /\ <<f.from, f.val>> \in Leases
  \/ f.kind = "ack" /\ <<f.from, f.val>> \in Leases /\ gr # {}
  \/ f.kind = "answer" /\ Answered(f.val, f.from) /\ AskedFor(as, f.num, f.val)
  \/ f.kind = "pong" /\ f.from \in Targets
GoodQuery(q, id) ==
  \/ q.kind = "discover"
  \/ q.kind = "request" /\ <<q.val, q.from>> \in Leases
  \/ q.kind = "query" /\ q.num \in Nat /\ q.num <= id
  \/ q.kind = "echo" /\ q.val \in Targets
WireInv ==
  /\ ring = [i \in 0 .. Ring - 1 |-> ring[i]]
  /\ \A i \in 0 .. Ring - 1 : GoodFrame(ring[i], asked, granted)
  /\ GoodFrame(rxBuf, asked, granted)
  /\ cardAt \in 0 .. Ring - 1 /\ rxOffset \in 0 .. Ring - 1
  /\ \A q \in asked : GoodQuery(q, dns.id)

(***************************************************************************)
(* Task 0: where it stands, and the locals of its command.                   *)
(***************************************************************************)
ArpShape == arp = [i \in 1 .. ArpSlots |-> arp[i]]
JobType ==
  [name : Askable, tries : 0 .. MaxRetries, seq : 0 .. Pings, dst : {None} \cup Targets,
   ip : Addresses, by : {None, "http"}, slot : 0 .. ArpSlots, cmds : Nat]
TaskInv ==
  /\ pc \in Steps /\ sub \in {"out", "header", "copied", "caching"}
  /\ pc \notin Waits => sub = "out"
  /\ job \in JobType
  /\ pc \in {"pingArp", "pong"} => job.dst \in Targets

(***************************************************************************)
(* The interface and its lease.                                              *)
(***************************************************************************)
LeaseInv ==
  /\ cfg \in [ip : Addresses, ns : {None} \cup {l[2] : l \in Leases}, up : BOOLEAN]
  /\ cfg.up /\ cfg.ip # Static => granted # {} /\ cfg.ip \in {l[1] : l \in Leases}
  /\ pc \in Leasing => ~cfg.up
  /\ dhcp \in [state : 0 .. 3, lease : Leases \cup {NoLease}]
  /\ dhcp.state \in {2, 3} => dhcp.lease \in Leases
  /\ dhcp.state = 3 => granted # {}
PortInv ==
  /\ binds \in Seq({"dhcp", "dns"}) /\ Len(binds) <= MaxBinds
  /\ pc = "boot" => Len(binds) = 0 /\ dhcp.state = 0
  /\ pc \in {"bootOffer", "bootAck"} => Len(binds) = 1 /\ Bound("dhcp")
  /\ Booted => Bound("dns") /\ Bound("dhcp")

(***************************************************************************)
(* The resolver: its cache, and the name it has no entry for while it asks.  *)
(***************************************************************************)
Kept ==
  [name : Names, ip : AnswerIps, ttl : Nat \ {0}, ts : 0 .. TsWrap - 1, at : Nat]
DnsType == [id : 0 .. MaxQueries, ready : BOOLEAN, ip : {None} \cup AnswerIps, ttl : Nat]
GoodEntry(e, t) == e \in Kept /\ e.at <= t /\ e.ts = e.at % TsWrap
CacheInv ==
  /\ now \in Nat
  /\ dns \in DnsType
  /\ cache = [i \in 1 .. CacheSlots |-> cache[i]]
  /\ \A i \in 1 .. CacheSlots : cache[i] = NoName \/ GoodEntry(cache[i], now)
  /\ CacheOnce /\ CacheFresh
  /\ pc \in Asking => job.name \in Names /\ \A i \in 1 .. CacheSlots : cache[i].name # job.name

(***************************************************************************)
(* The client: every connection is closed or on its way there, but the one   *)
(* of the get in progress, whose bytes are those read and those waiting.     *)
(***************************************************************************)
Leaving == {"CLOSED", "FIN_WAIT_1", "FIN_WAIT_2", "CLOSING", "TIME_WAIT", "LAST_ACK"}
Going   == {"SYN_SENT", "ESTABLISHED", "CLOSE_WAIT", "CLOSED"}
ConnType == [st : Leaving \cup Going, unread : 0 .. RecvBuf]
Getting(i) == pc \in HttpSteps /\ i = http.slot
HttpType ==
  [slot : 0 .. Conns, left : 0 .. Rounds, len : 0 .. RespBuf,
   seen : Leaving \cup Going \cup {None}, error : -5 .. 0,
   why : {None, "complete", "reset", "closed", "full", "deadline"}]
ConnInv ==
  /\ conns \in [1 .. Conns -> ConnType]
  /\ http \in HttpType
  /\ server \in [total : Nat, stated : Int, sent : Nat] /\ server.sent <= server.total
  /\ \A i \in 1 .. Conns : conns[i].st \in (IF Getting(i) THEN Going ELSE Leaving)
GetInv ==
  /\ WholeResponse
  /\ pc \in HttpSteps =>
       /\ http.slot \in 1 .. Conns
       /\ pc # "close" => http.why = None
       /\ conns[http.slot].st \in {"ESTABLISHED", "CLOSE_WAIT"} /\ pc # "close" =>
            http.len + conns[http.slot].unread = server.sent
       /\ conns[http.slot].st = "CLOSE_WAIT" => server.sent = server.total
       /\ conns[http.slot].st = "SYN_SENT" => /\ conns[http.slot].unread = 0
                                              /\ server.sent = 0 /\ http.len = 0
       /\ pc \in {"connect", "connected", "send"} => http.len = 0
       /\ pc \in {"look", "read", "close"} => conns[http.slot].st # "SYN_SENT"
       /\ pc = "read" /\ http.seen \in {"CLOSE_WAIT", "CLOSED"} =>
            conns[http.slot].st \in {"CLOSE_WAIT", "CLOSED"}
  /\ pc \in Asking \cup {"resolved"} /\ job.by = "http" => http = NoHttp

NetInv == WireInv /\ ArpShape /\ TaskInv /\ LeaseInv /\ PortInv /\ CacheInv /\ ConnInv /\ GetInv

(***************************************************************************)
(* What holds while netpoll stays out of the one window that breaks it: of   *)
(* the ARP cache, between the choice of an entry and its use; of the answers, *)
(* between dns_resolve's reset and its query.                                *)
(***************************************************************************)
ArpInv ==
  /\ ArpTruth
  /\ sub = "caching" => rxBuf.kind = "arp" /\ job.slot = ArpSlot(rxBuf.from)
AnswerInv ==
  /\ ResolvedTruth
  /\ pc = "ask" => ~dns.ready /\ dns.ip = None
  /\ pc = "answer" => \A q \in asked : q.kind = "query" /\ q.num = dns.id => q.val = job.name
  /\ pc = "answer" /\ dns.ready /\ dns.ip # None => Answered(job.name, dns.ip)
  /\ pc \in Asking => job.name \in Names

----------------------------------------------------------------------------
(* The parts a step leaves alone                                             *)

LEMMA Sizes ==
  /\ Ring \in Nat /\ Ring > 0 /\ ArpSlots \in Nat /\ ArpSlots > 0
  /\ CacheSlots \in Nat /\ CacheSlots > 0 /\ MaxBinds \in Nat /\ MaxBinds > 1
  /\ MaxRetries \in Nat /\ Pings \in Nat /\ Pings > 0 /\ MaxQueries \in Nat /\ MaxNow \in Nat
  /\ DefaultTtl \in Nat /\ DefaultTtl > 0 /\ TsWrap \in Nat /\ TsWrap > 0
  /\ Conns \in Nat /\ Conns > 0 /\ RecvBuf \in Nat /\ RespBuf \in Nat /\ Rounds \in Nat
BY NetAssumption, HttpAssumption

\* The next place of the ring, and a time cut to the width of a stamp.
LEMMA Wrapped ==
  /\ \A i \in 0 .. Ring - 1 : (i + 1) % Ring \in 0 .. Ring - 1
  /\ \A t \in Nat : t % TsWrap \in 0 .. TsWrap - 1 /\ t % TsWrap <= t
<1>1. Ring \in Nat /\ Ring > 0 /\ TsWrap \in Nat /\ TsWrap > 0
  BY Sizes
<1>2. ASSUME NEW i \in 0 .. Ring - 1 PROVE (i + 1) % Ring \in 0 .. Ring - 1
  BY <1>1, SMTT(20)
<1>3. ASSUME NEW t \in Nat PROVE t % TsWrap \in 0 .. TsWrap - 1 /\ t % TsWrap <= t
  BY <1>1, SMTT(20)
<1> QED BY <1>2, <1>3

\* The lowest of a set of numbers.
LEMMA LowestOfTwo ==
  ASSUME NEW a \in Nat, NEW b \in Nat
  PROVE  Lowest({a, b}) = IF a < b THEN a ELSE b
<1>1. PICK m \in {a, b} : \A j \in {a, b} : m <= j
  OBVIOUS
<1>2. /\ Lowest({a, b}) \in {a, b}
      /\ \A j \in {a, b} : Lowest({a, b}) <= j
  BY <1>1 DEF Lowest
<1> QED BY <1>2

\* The order of the numbers is well founded: a set of them has a lowest.
LEMMA LeastNatural ==
  ASSUME NEW S \in SUBSET Nat, S # {}
  PROVE  \E m \in S : \A n \in S : m <= n
<1> DEFINE R == {ss \in Nat \X Nat : ss[1] < ss[2]}
<1>1. ~ \E f \in [Nat -> Nat] : \A n \in Nat : f[n+1] < f[n]
  <2> SUFFICES ASSUME NEW f \in [Nat -> Nat], \A n \in Nat : f[n+1] < f[n]
               PROVE  FALSE
    OBVIOUS
  <2>1. \A n \in Nat : f[n] \in Nat /\ f[n+1] \in Nat /\ f[n+1] < f[n]
    OBVIOUS
  <2>2. \A n \in Nat : <<f[n+1], f[n]>> \in OpToRel(<, Nat)
    BY <2>1, Zenon DEF OpToRel
  <2> QED BY <2>2, NatLessThanWellFounded DEF IsWellFoundedOn
<1>2. IsWellFoundedOn(R, Nat)
  BY <1>1 DEF IsWellFoundedOn
<1>3. PICK m \in S : \A n \in S : ~(<<n, m>> \in R)
  BY <1>2, WFMin
<1>4. \A n \in S : m \in Nat /\ n \in Nat /\ ~(n < m)
  BY <1>3
<1> QED BY <1>4

LEMMA LowestIsLeast ==
  ASSUME NEW S \in SUBSET Nat, S # {}
  PROVE  Lowest(S) \in S /\ \A j \in S : Lowest(S) <= j
BY LeastNatural DEF Lowest

LEMMA GoodStays ==
  ASSUME NEW f, NEW as, NEW as2, NEW gr, NEW gr2,
         GoodFrame(f, as, gr), as \subseteq as2, gr \subseteq gr2
  PROVE  GoodFrame(f, as2, gr2)
BY DEF GoodFrame, AskedFor

LEMMA WireStays ==
  ASSUME WireInv, UNCHANGED <<ring, cardAt, rxOffset>>, rxBuf' \in {rxBuf, Blank},
         asked \subseteq asked', granted \subseteq granted',
         dns.id \in Nat, dns'.id \in Nat, dns.id <= dns'.id,
         \A q \in asked' \ asked : GoodQuery(q, dns'.id)
  PROVE  WireInv'
<1>2. \A i \in 0 .. Ring - 1 : GoodFrame(ring'[i], asked', granted')
  BY GoodStays DEF WireInv
<1>3. GoodFrame(rxBuf', asked', granted')
  <2>1. CASE rxBuf' = Blank
    BY <2>1 DEF GoodFrame
  <2>2. CASE rxBuf' = rxBuf
    BY <2>2, GoodStays DEF WireInv
  <2> QED BY <2>1, <2>2
<1>4. ASSUME NEW q \in asked' PROVE GoodQuery(q, dns'.id)
  <2>1. CASE q \in asked
    BY <2>1 DEF WireInv, GoodQuery
  <2> QED BY <2>1
<1> QED BY <1>2, <1>3, <1>4 DEF WireInv

LEMMA LeaseStays ==
  ASSUME LeaseInv, UNCHANGED <<cfg, dhcp>>, granted \subseteq granted',
         pc' = pc \/ pc' \notin Leasing
  PROVE  LeaseInv'
BY DEF LeaseInv

\* The task goes on after the boot, or stays where it is.
LEMMA PortStays ==
  ASSUME PortInv, UNCHANGED binds,
         \/ pc' = pc /\ (dhcp.state = 0 => dhcp'.state = 0)
         \/ Booted /\ pc' \in Steps \ {"boot", "bootOffer", "bootAck"}
  PROVE  PortInv'
BY DEF PortInv, Booted, Bound

LEMMA CacheStays ==
  ASSUME CacheInv, UNCHANGED <<cache, result, now>>, dns' \in DnsType,
         pc' \in Asking => pc \in Asking /\ job'.name = job.name
  PROVE  CacheInv'
BY DEF CacheInv, CacheOnce, CacheFresh, GoodEntry, NoName

\* A step of anyone but the client and its peers.
LEMMA ConnStays ==
  ASSUME ConnInv, UNCHANGED httpVars, pc' = pc \/ {pc, pc'} \cap HttpSteps = {}
  PROVE  ConnInv'
BY DEF ConnInv, httpVars, Getting

LEMMA GetStays ==
  ASSUME GetInv, UNCHANGED httpVars, pc' = pc \/ {pc, pc'} \cap HttpSteps = {},
         pc' \in Asking \cup {"resolved"} /\ job'.by = "http" =>
           pc \in Asking \cup {"resolved"} /\ job.by = "http"
  PROVE  GetInv'
BY DEF GetInv, WholeResponse, BodyLen, httpVars, Asking, HttpSteps

\* A step of the card, of netpoll or of a poll: task 0 stays where it is.
LEMMA PollKeeps ==
  ASSUME NetInv, UNCHANGED <<cfg, binds, cache, result, now, pc, httpVars>>,
         WireInv', ArpShape', TaskInv', LeaseInv', dns' \in DnsType, dhcp.state = 0 => dhcp'.state = 0,
         job'.name = job.name, job'.by = job.by
  PROVE  NetInv'
BY PortStays, CacheStays, ConnStays, GetStays DEF NetInv

----------------------------------------------------------------------------
(* The card                                                                  *)

LEMMA FrameIs ==
  ASSUME NEW kind, NEW from, NEW val, NEW num, NEW to
  PROVE  LET f == Frame(kind, from, val, num, to)
         IN f.kind = kind /\ f.from = from /\ f.val = val /\ f.num = num /\ f.to = to
BY DEF Frame

\* What the wire may carry is a frame as GoodFrame wants it, once the
\* acknowledgment of a lease has been counted.
LEMMA WireCarriesGood ==
  ASSUME NetInv, NEW f \in OnTheWire, asked' = asked, granted \subseteq granted',
         f.kind = "ack" => granted' # {}
  PROVE  GoodFrame(f, asked', granted') /\ f # Blank
<1>1. CASE f \in {Announcement(h) : h \in Speakers}
  <2>1. PICK h \in Hosts : f = Announcement(h)
    BY <1>1 DEF Speakers
  <2>2. f.kind = "arp" /\ <<f.from, f.val>> \in Hosts
    BY <2>1, FrameIs, WireAssumption DEF Announcement
  <2> QED BY <2>2 DEF GoodFrame, Blank, Frame, None
<1>2. CASE f \in UNION {Replies(q) : q \in asked}
  <2>1. PICK q \in asked : f \in Replies(q) /\ GoodQuery(q, dns.id)
    BY <1>2 DEF NetInv, WireInv
  <2>2. CASE q.kind = "discover"
    <3>1. f \in {Frame("offer", l[1], l[2], 0, Anyone) : l \in Offered}
      BY <2>1, <2>2 DEF Replies
    <3>2. Offered \subseteq Leases
      BY WireAssumption DEF Offered
    <3>3. PICK l \in Leases : f = Frame("offer", l[1], l[2], 0, Anyone) /\ l = <<l[1], l[2]>>
      BY <3>1, <3>2, WireAssumption
    <3>4. f.kind = "offer" /\ <<f.from, f.val>> \in Leases
      BY <3>3, FrameIs
    <3> QED BY <3>4 DEF GoodFrame, Blank, Frame, None
  <2>3. CASE q.kind = "request" /\ <<q.val, q.from>> \in Leases
    <3>1. f = Frame("ack", q.val, q.from, 0, Anyone)
      BY <2>1, <2>3 DEF Replies
    <3>2. f.kind = "ack" /\ <<f.from, f.val>> \in Leases
      BY <2>3, <3>1, FrameIs
    <3> QED BY <3>2 DEF GoodFrame, Blank, Frame, None
  <2>4. CASE q.kind = "query"
    <3>1. f \in {Frame("answer", a[2], a[1], q.num, q.from) : a \in {x \in Answers : x[1] = q.val}}
      BY <2>1, <2>4 DEF Replies
    <3>2. PICK a \in Answers : a[1] = q.val /\ f = Frame("answer", a[2], a[1], q.num, q.from)
      BY <3>1
    <3>3. f.kind = "answer" /\ f.from = a[2] /\ f.val = a[1] /\ f.num = q.num
      BY <3>2, FrameIs
    <3>4. Answered(f.val, f.from) /\ AskedFor(asked', f.num, f.val)
      BY <2>4, <3>2, <3>3 DEF Answered, AskedFor
    <3> QED BY <3>3, <3>4 DEF GoodFrame, Blank, Frame, None
  <2>5. CASE q.kind = "echo" /\ q.val \in Targets
    <3>1. f = Frame("pong", q.val, None, q.num, q.from)
      BY <2>1, <2>5 DEF Replies
    <3>2. f.kind = "pong" /\ f.from \in Targets
      BY <2>5, <3>1, FrameIs
    <3> QED BY <3>2 DEF GoodFrame, Blank, Frame, None
  <2> QED BY <2>1, <2>2, <2>3, <2>4, <2>5 DEF GoodQuery
<1> QED BY <1>1, <1>2 DEF OnTheWire

LEMMA ArrivesKeeps ==
  ASSUME NetInv, NEW f \in OnTheWire, Arrives(f), UNCHANGED httpVars
  PROVE  NetInv'
<1>1. /\ asked' = asked /\ granted \subseteq granted' /\ (f.kind = "ack" => granted' # {})
      /\ UNCHANGED <<rxOffset, rxBuf, cfg, binds, dhcp, dns, cache, result, now, pc, sub, job>>
      /\ ring' = [ring EXCEPT ![cardAt] = f] /\ cardAt' = (cardAt + 1) % Ring
  BY DEF Arrives, dnsVars, taskVars
<1>2. GoodFrame(f, asked', granted')
  BY <1>1, WireCarriesGood
<1>3. WireInv'
  <2>1. ring = [i \in 0 .. Ring - 1 |-> ring[i]] /\ cardAt \in 0 .. Ring - 1
    BY DEF NetInv, WireInv
  <2>2. ring' = [i \in 0 .. Ring - 1 |-> ring'[i]]
    BY <1>1, <2>1
  <2>3. \A i \in 0 .. Ring - 1 : ring'[i] = f \/ ring'[i] = ring[i]
    BY <1>1, <2>1
  <2>4. \A i \in 0 .. Ring - 1 : GoodFrame(ring'[i], asked', granted')
    BY <1>1, <1>2, <2>3, GoodStays DEF NetInv, WireInv
  <2>5. GoodFrame(rxBuf', asked', granted')
    BY <1>1, GoodStays DEF NetInv, WireInv
  <2>6. \A q \in asked' : GoodQuery(q, dns'.id)
    BY <1>1 DEF NetInv, WireInv, GoodQuery
  <2>7. cardAt' \in 0 .. Ring - 1
    BY <1>1, <2>1, Wrapped
  <2> QED BY <1>1, <2>2, <2>4, <2>5, <2>6, <2>7 DEF NetInv, WireInv
<1>4. TaskInv' /\ LeaseInv' /\ ArpShape' /\ dns' \in DnsType
  <2>1. arp' = arp
    BY DEF Arrives
  <2> QED BY <1>1, <2>1, LeaseStays DEF NetInv, TaskInv, CacheInv, ArpShape
<1> QED BY <1>1, <1>3, <1>4, PollKeeps

----------------------------------------------------------------------------
(* The ARP cache                                                             *)

LEMMA ArpSlotIs ==
  ASSUME ArpShape, NEW ip
  PROVE  /\ ArpSlot(ip) \in 1 .. ArpSlots
         /\ (\E i \in 1 .. ArpSlots : arp[i].ip = ip) => arp[ArpSlot(ip)].ip = ip
<1> DEFINE Own == {i \in 1 .. ArpSlots : arp[i].ip = ip}
           Idle == {i \in 1 .. ArpSlots : arp[i] = NoArp}
<1>1. ArpSlot(ip) = IF Own # {} THEN Lowest(Own) ELSE IF Idle # {} THEN Lowest(Idle) ELSE 1
  <2>1. DOMAIN arp = 1 .. ArpSlots
    BY DEF ArpShape
  <2> QED BY <2>1 DEF ArpSlot
<1>2. Own # {} => Lowest(Own) \in Own
  <2>1. Own \in SUBSET Nat
    OBVIOUS
  <2> HIDE DEF Own
  <2> QED BY <2>1, LowestIsLeast
<1>3. Idle # {} => Lowest(Idle) \in Idle
  <2>1. Idle \in SUBSET Nat
    OBVIOUS
  <2> HIDE DEF Idle
  <2> QED BY <2>1, LowestIsLeast
<1> QED BY <1>1, <1>2, <1>3, Sizes

LEMMA StoredShape ==
  ASSUME ArpShape, NEW i, NEW ip, NEW mac, arp' = ArpStored(arp, i, ip, mac)
  PROVE  ArpShape'
BY DEF ArpShape, ArpStored

----------------------------------------------------------------------------
(* The handlers                                                              *)

\* What a handler makes of a frame that is on the wire.
LEMMA HandleEffect ==
  ASSUME NetInv, NEW f, GoodFrame(f, asked, granted), Handle(f), pc' = pc
  PROVE  /\ UNCHANGED <<cfg, binds, asked, granted, cache, result, now>>
         /\ LeaseInv' /\ ArpShape'
         /\ dhcp.state = 0 => dhcp'.state = 0
         /\ dns' \in DnsType /\ dns'.id = dns.id
         /\ \/ arp' = arp
            \/ f.kind = "arp" /\ arp' = ArpStored(arp, ArpSlot(f.from), f.from, f.val)
         /\ \/ dns' = dns
            \/ /\ f.kind = "answer" /\ Answered(f.val, f.from) /\ AskedFor(asked, f.num, f.val)
               /\ f.num = dns.id /\ dns'.ip = f.from
<1>1. UNCHANGED <<cfg, binds, asked, granted, cache, result, now>>
  BY DEF Handle
<1>0. ASSUME \/ arp' = arp
             \/ arp' = ArpStored(arp, ArpSlot(f.from), f.from, f.val)
      PROVE  ArpShape'
  BY <1>0, StoredShape DEF NetInv, ArpShape
<1>2. /\ dns \in DnsType /\ LeaseInv
      /\ dhcp \in [state : 0 .. 3, lease : Leases \cup {NoLease}]
  BY DEF NetInv, CacheInv, LeaseInv
<1>3. CASE f.kind = "arp"
  <2>1. UNCHANGED <<dhcp, dns>> /\ arp' = ArpStored(arp, ArpSlot(f.from), f.from, f.val)
    BY <1>3 DEF Handle, HandleArp
  <2> QED BY <1>0, <1>1, <1>2, <1>3, <2>1, LeaseStays
<1>4. CASE f.kind = "pong" /\ ForUs(f)
  <2>1. UNCHANGED <<dhcp, dns, arp>>
    BY <1>4 DEF Handle, HandlePong
  <2> QED BY <1>0, <1>1, <1>2, <2>1, LeaseStays
<1>5. CASE f.kind \in {"offer", "ack"} /\ ForUs(f)
  <2>1. UNCHANGED <<arp, dns>> /\ dhcp' \in {dhcp, DhcpNext(f)}
    BY <1>5 DEF Handle, HandleDhcp
  <2>2. /\ <<f.from, f.val>> \in Leases
        /\ f.kind = "ack" => granted # {}
    BY <1>5 DEF GoodFrame, Blank, Frame, None
  <2>3. /\ dhcp' \in [state : 0 .. 3, lease : Leases \cup {NoLease}]
        /\ dhcp'.state \in {2, 3} => dhcp'.lease \in Leases
        /\ dhcp'.state = 3 => granted # {}
        /\ dhcp.state = 0 => dhcp'.state = 0
    <3>1. CASE dhcp' = dhcp
      BY <1>2, <3>1 DEF LeaseInv
    <3>2. CASE f.kind = "offer" /\ dhcp.state = 1 /\ dhcp' = [state |-> 2, lease |-> <<f.from, f.val>>]
      BY <2>2, <3>2
    <3>3. CASE f.kind = "ack" /\ dhcp.state = 2 /\ dhcp' = [dhcp EXCEPT !.state = 3]
      BY <1>2, <2>2, <3>3 DEF LeaseInv
    <3> QED BY <2>1, <3>1, <3>2, <3>3 DEF DhcpNext
  <2>4. LeaseInv'
    BY <1>1, <1>2, <2>3 DEF LeaseInv
  <2> QED BY <1>0, <1>1, <1>2, <2>1, <2>3, <2>4
<1>6. CASE f.kind = "answer" /\ ForUs(f)
  <2>1. UNCHANGED <<arp, dhcp>>
    BY <1>6 DEF Handle, HandleDns
  <2>2. dns' = dns \/ (f.num = dns.id /\ dns' = [dns EXCEPT !.ready = TRUE, !.ip = f.from, !.ttl = Ttl(f)])
    BY <1>6 DEF Handle, HandleDns, Matches
  <2>3. Answered(f.val, f.from) /\ AskedFor(asked, f.num, f.val)
    BY <1>6 DEF GoodFrame, Blank, Frame, None
  <2>4. f.from \in AnswerIps /\ Ttl(f) \in Nat
    <3>1. PICK a \in Answers : a[1] = f.val /\ a[2] = f.from
      BY <2>3 DEF Answered
    <3>2. PICK b \in Answers : b = CHOOSE x \in Answers : x[1] = f.val /\ x[2] = f.from
      BY <3>1
    <3>3. b[3] \in Nat
      BY WireAssumption
    <3> QED BY <3>1, <3>2, <3>3 DEF Ttl, AnswerIps
  <2>5. dns' \in DnsType /\ dns'.id = dns.id
    BY <1>2, <2>2, <2>4 DEF DnsType
  <2>6. dns' = dns \/ (f.num = dns.id /\ dns'.ip = f.from)
    BY <1>2, <2>2 DEF DnsType
  <2> QED BY <1>0, <1>1, <1>2, <1>6, <2>1, <2>3, <2>5, <2>6, LeaseStays
<1>7. CASE /\ f.kind # "arp" /\ ~(f.kind = "pong" /\ ForUs(f))
           /\ ~(f.kind \in {"offer", "ack"} /\ ForUs(f)) /\ ~(f.kind = "answer" /\ ForUs(f))
  <2>1. UNCHANGED <<arp, dhcp, dns>>
    BY <1>7 DEF Handle
  <2> QED BY <1>0, <1>1, <1>2, <2>1, LeaseStays
<1> QED BY <1>3, <1>4, <1>5, <1>6, <1>7

\* A frame is taken out of the ring, and perhaps put into the buffer.
LEMMA TakenOut ==
  ASSUME NetInv, Received, rxBuf' \in {rxBuf, ring[rxOffset]},
         UNCHANGED <<asked, granted>>, dns'.id = dns.id
  PROVE  WireInv'
<1>1. /\ ring = [i \in 0 .. Ring - 1 |-> ring[i]] /\ rxOffset \in 0 .. Ring - 1
      /\ \A i \in 0 .. Ring - 1 : GoodFrame(ring[i], asked, granted)
      /\ GoodFrame(rxBuf, asked, granted) /\ cardAt \in 0 .. Ring - 1
  BY DEF NetInv, WireInv
<1>2. ring' = [ring EXCEPT ![rxOffset] = Blank] /\ cardAt' = cardAt /\ rxOffset' = (rxOffset + 1) % Ring
  BY DEF Received, NextOffset
<1>3. /\ ring' = [i \in 0 .. Ring - 1 |-> ring'[i]]
      /\ \A i \in 0 .. Ring - 1 : ring'[i] = Blank \/ ring'[i] = ring[i]
  BY <1>1, <1>2
<1>4. GoodFrame(Blank, asked', granted')
  BY DEF GoodFrame
<1>5. \A i \in 0 .. Ring - 1 : GoodFrame(ring'[i], asked', granted')
  BY <1>1, <1>3, <1>4, GoodStays
<1>6. GoodFrame(rxBuf', asked', granted')
  BY <1>1, GoodStays
<1>7. \A q \in asked' : GoodQuery(q, dns'.id)
  BY DEF NetInv, WireInv, GoodQuery
<1>8. rxOffset' \in 0 .. Ring - 1
  BY <1>1, <1>2, Wrapped
<1> QED BY <1>1, <1>2, <1>3, <1>5, <1>6, <1>7, <1>8 DEF WireInv

LEMMA NetPollKeeps == ASSUME NetInv, NetPoll, UNCHANGED httpVars PROVE NetInv'
<1>1. PICK f : f = ring[rxOffset] /\ GoodFrame(f, asked, granted)
  BY DEF NetInv, WireInv
<1>2. /\ Received /\ Handle(f) /\ rxBuf' \in {rxBuf, ring[rxOffset]}
      /\ UNCHANGED <<pc, sub, job>>
  BY <1>1 DEF NetPoll, taskVars
<1>3. /\ UNCHANGED <<cfg, binds, asked, granted, cache, result, now>> /\ LeaseInv' /\ ArpShape'
      /\ (dhcp.state = 0 => dhcp'.state = 0) /\ dns' \in DnsType /\ dns'.id = dns.id
  BY <1>1, <1>2, HandleEffect
<1>4. WireInv'
  BY <1>2, <1>3, TakenOut
<1>5. TaskInv'
  BY <1>2 DEF NetInv, TaskInv
<1> QED BY <1>2, <1>3, <1>4, <1>5, PollKeeps

\* A poll in task 0 that leaves the tables alone.
LEMMA PollStepKeeps ==
  ASSUME NetInv, UNCHANGED httpVars, PollHeader \/ PollCopy \/ PollArpSlot
  PROVE  NetInv'
<1>1. UNCHANGED <<cfg, binds, arp, dhcp, asked, granted, dns, cache, result, now, pc>>
  BY DEF PollHeader, PollCopy, PollArpSlot, ipVars, dnsVars
<1>0. ArpShape' /\ asked' \ asked = {}
  BY <1>1 DEF NetInv, ArpShape
<1>2. dns \in DnsType /\ dns.id \in Nat
  BY Sizes DEF NetInv, CacheInv, DnsType
<1>3. CASE PollHeader
  <2>1. WireInv'
    BY <1>1, <1>2, <1>3, <1>0, WireStays DEF PollHeader, NetInv, ringVars
  <2>2. TaskInv' /\ UNCHANGED job
    BY <1>3 DEF PollHeader, NetInv, TaskInv, Polling, Waits
  <2> QED BY <1>0, <1>1, <1>2, <2>1, <2>2, LeaseStays, PollKeeps DEF NetInv
<1>4. CASE PollCopy
  <2>1. WireInv'
    BY <1>1, <1>4, TakenOut DEF PollCopy
  <2>2. TaskInv' /\ UNCHANGED job
    BY <1>4 DEF PollCopy, NetInv, TaskInv
  <2> QED BY <1>0, <1>1, <1>2, <2>1, <2>2, LeaseStays, PollKeeps DEF NetInv
<1>5. CASE PollArpSlot
  <2>1. WireInv'
    BY <1>1, <1>2, <1>5, <1>0, WireStays DEF PollArpSlot, NetInv, ringVars
  <2>2. ArpSlot(rxBuf.from) \in 0 .. ArpSlots
    BY ArpSlotIs DEF NetInv
  <2>3. TaskInv' /\ job'.name = job.name /\ job'.by = job.by
    BY <1>5, <2>2 DEF PollArpSlot, NetInv, TaskInv, JobType
  <2> QED BY <1>0, <1>1, <1>2, <2>1, <2>3, LeaseStays, PollKeeps DEF NetInv
<1> QED BY <1>3, <1>4, <1>5

LEMMA PollHandleKeeps == ASSUME NetInv, PollHandle, UNCHANGED httpVars PROVE NetInv'
<1>1. GoodFrame(rxBuf, asked, granted) /\ Handle(rxBuf) /\ UNCHANGED <<pc, job>>
  BY DEF NetInv, WireInv, PollHandle
<1>2. /\ UNCHANGED <<cfg, binds, asked, granted, cache, result, now>> /\ LeaseInv' /\ ArpShape'
      /\ (dhcp.state = 0 => dhcp'.state = 0) /\ dns' \in DnsType /\ dns'.id = dns.id
  BY <1>1, HandleEffect
<1>3. WireInv'
  <2>1. dns.id \in Nat /\ asked' \ asked = {}
    BY <1>2, Sizes DEF NetInv, CacheInv, DnsType
  <2> QED BY <1>2, <2>1, WireStays DEF PollHandle, NetInv
<1>4. TaskInv'
  BY <1>1 DEF PollHandle, NetInv, TaskInv
<1> QED BY <1>1, <1>2, <1>3, <1>4, PollKeeps

LEMMA PollArpStoreKeeps == ASSUME NetInv, PollArpStore, UNCHANGED httpVars PROVE NetInv'
<1>1. /\ UNCHANGED <<cfg, binds, dhcp, asked, granted, dns, cache, result, now, pc>>
      /\ job' = [job EXCEPT !.slot = 0]
  BY DEF PollArpStore, dnsVars
<1>2. ArpShape'
  BY StoredShape DEF PollArpStore, NetInv
<1>3. dns \in DnsType /\ dns.id \in Nat /\ asked' \ asked = {}
  BY <1>1, Sizes DEF NetInv, CacheInv, DnsType
<1>4. WireInv'
  BY <1>1, <1>3, WireStays DEF PollArpStore, NetInv
<1>5. TaskInv' /\ job'.name = job.name /\ job'.by = job.by
  BY <1>1, Sizes DEF PollArpStore, NetInv, TaskInv, JobType
<1> QED BY <1>1, <1>2, <1>3, <1>4, <1>5, LeaseStays, PollKeeps DEF NetInv

LEMMA PollTaskKeeps == ASSUME NetInv, Poll, UNCHANGED httpVars PROVE NetInv'
BY PollHandleKeeps, PollArpStoreKeeps, PollStepKeeps DEF Poll

----------------------------------------------------------------------------
(* The commands                                                              *)

\* The locals of a command that begins, or has ended.
LEMMA JobsTyped ==
  ASSUME TaskInv
  PROVE  /\ Begun \in JobType /\ Ended \in JobType
         /\ [NoJob EXCEPT !.cmds = job.cmds + 1] \in JobType
         /\ \A name \in Askable, by \in {None, "http"} :
              [Begun EXCEPT !.name = name, !.by = by] \in JobType
         /\ \A ip \in Addresses : [Begun EXCEPT !.ip = ip] \in JobType
         /\ \A dst \in Targets : [Begun EXCEPT !.dst = dst, !.seq = 1] \in JobType
<1>1. job.cmds \in Nat /\ job.cmds + 1 \in Nat
  BY DEF TaskInv, JobType
<1>2. /\ None \in Askable /\ None \in Addresses /\ 0 \in 0 .. MaxRetries
      /\ 0 \in 0 .. Pings /\ 1 \in 0 .. Pings /\ 0 \in 0 .. ArpSlots
  BY Sizes DEF Askable, Addresses
<1>3. /\ Begun = [NoJob EXCEPT !.cmds = job.cmds + 1]
      /\ Begun = [name |-> None, tries |-> 0, seq |-> 0, dst |-> None, ip |-> None, by |-> None,
                  slot |-> 0, cmds |-> job.cmds + 1]
      /\ Ended = [name |-> None, tries |-> 0, seq |-> 0, dst |-> None, ip |-> None, by |-> None,
                  slot |-> 0, cmds |-> job.cmds]
  BY DEF Begun, Ended, NoJob
<1>4. Begun \in JobType /\ Ended \in JobType
  <2>1. ASSUME NEW c \in Nat
        PROVE  [name |-> None, tries |-> 0, seq |-> 0, dst |-> None, ip |-> None, by |-> None,
                slot |-> 0, cmds |-> c] \in JobType
    BY <1>2 DEF JobType
  <2> QED BY <1>1, <1>3, <2>1
<1>5. ASSUME NEW name \in Askable, NEW by \in {None, "http"}
      PROVE  [Begun EXCEPT !.name = name, !.by = by] \in JobType
  BY <1>4 DEF JobType
<1>6. ASSUME NEW ip \in Addresses PROVE [Begun EXCEPT !.ip = ip] \in JobType
  BY <1>4 DEF JobType
<1>7. ASSUME NEW dst \in Targets PROVE [Begun EXCEPT !.dst = dst, !.seq = 1] \in JobType
  BY <1>2, <1>4 DEF JobType
<1> QED BY <1>3, <1>4, <1>5, <1>6, <1>7

\* What a step leaves alone that neither polls nor touches the resolver.
LEMMA CommandKeeps ==
  ASSUME NetInv, UNCHANGED <<ringVars, arp, granted, dns, cache, result, now, httpVars>>,
         asked \subseteq asked', \A q \in asked' \ asked : GoodQuery(q, dns.id),
         {pc, pc'} \cap (HttpSteps \cup Asking \cup {"resolved"}) = {},
         TaskInv', LeaseInv', PortInv'
  PROVE  NetInv'
<1>1. dns \in DnsType /\ dns.id \in Nat
  BY Sizes DEF NetInv, CacheInv, DnsType
<1>2. WireInv' /\ ArpShape'
  BY <1>1, WireStays DEF NetInv, ringVars, ArpShape
<1>3. CacheInv'
  BY <1>1, CacheStays DEF NetInv
<1>4. ConnInv' /\ GetInv'
  BY ConnStays, GetStays DEF NetInv
<1> QED BY <1>2, <1>3, <1>4 DEF NetInv

LEMMA BindingKeeps ==
  ASSUME PortInv, NEW p \in {"dhcp", "dns"}, binds' = Binding(p)
  PROVE  /\ binds' \in Seq({"dhcp", "dns"}) /\ Len(binds') <= MaxBinds
         /\ \A q : Bound(q) => Bound(q)'
         /\ Len(binds) < MaxBinds => Len(binds') = Len(binds) + 1 /\ Bound(p)'
<1>1. binds \in Seq({"dhcp", "dns"}) /\ Len(binds) <= MaxBinds /\ Len(binds) \in Nat
  BY DEF PortInv
<1>2. CASE Len(binds) < MaxBinds
  <2>1. binds' = Append(binds, p)
    BY <1>2 DEF Binding
  <2>2. /\ Len(binds') = Len(binds) + 1 /\ binds' \in Seq({"dhcp", "dns"})
        /\ \A k \in 1 .. Len(binds) : k \in DOMAIN binds' /\ binds'[k] = binds[k]
        /\ Len(binds) + 1 \in DOMAIN binds' /\ binds'[Len(binds) + 1] = p
    BY <1>1, <2>1
  <2>3. \A q : Bound(q) => Bound(q)'
    BY <1>1, <2>2 DEF Bound
  <2>4. Len(binds') <= MaxBinds
    BY <1>1, <1>2, <2>2, Sizes
  <2> QED BY <2>2, <2>3, <2>4 DEF Bound
<1>3. CASE ~(Len(binds) < MaxBinds)
  BY <1>1, <1>3 DEF Binding, Bound
<1> QED BY <1>2, <1>3

LEMMA DhcpBeginKeeps ==
  ASSUME NetInv, UNCHANGED httpVars, BootDhcp \/ Dhcp
  PROVE  NetInv'
<1>1. /\ cfg' = [cfg EXCEPT !.ip = None, !.up = FALSE] /\ binds' = Binding("dhcp")
      /\ dhcp' = [dhcp EXCEPT !.state = 1] /\ asked' = asked \cup {Discover}
      /\ UNCHANGED <<ringVars, arp, granted, dns, cache, result, now, sub>>
  BY DEF BootDhcp, Dhcp, DhcpBegin, dnsVars
<1>2. /\ sub = "out"
      /\ \/ pc = "boot" /\ pc' = "bootOffer" /\ job' = job
         \/ pc = "idle" /\ pc' = "offer" /\ job' = [Begun EXCEPT !.ip = cfg.ip]
  BY DEF BootDhcp, Dhcp, DhcpBegin, Command, At
<1>3. LeaseInv'
  <2>1. /\ cfg' \in [ip : Addresses, ns : {None} \cup {l[2] : l \in Leases}, up : BOOLEAN]
        /\ ~cfg'.up
    BY <1>1 DEF NetInv, LeaseInv, Addresses
  <2>2. dhcp' \in [state : 0 .. 3, lease : Leases \cup {NoLease}] /\ dhcp'.state = 1
    BY <1>1 DEF NetInv, LeaseInv
  <2> QED BY <2>1, <2>2 DEF LeaseInv
<1>4. TaskInv'
  <2>1. job' \in JobType
    BY <1>2, JobsTyped DEF NetInv, TaskInv, LeaseInv
  <2> QED BY <1>1, <1>2, <2>1 DEF NetInv, TaskInv, Waits, Steps
<1>5. PortInv'
  <2>1. /\ binds' \in Seq({"dhcp", "dns"}) /\ Len(binds') <= MaxBinds
        /\ \A q : Bound(q) => Bound(q)'
        /\ Len(binds) < MaxBinds => Len(binds') = Len(binds) + 1 /\ Bound("dhcp")'
    BY <1>1, BindingKeeps DEF NetInv
  <2>2. pc = "idle" => Bound("dns") /\ Bound("dhcp")
    BY DEF NetInv, PortInv, Booted
  <2>3. pc = "boot" => Len(binds) = 0 /\ Len(binds) < MaxBinds
    BY Sizes DEF NetInv, PortInv
  <2> QED BY <1>2, <2>1, <2>2, <2>3 DEF PortInv, Booted
<1>6. GoodQuery(Discover, dns.id)
  BY FrameIs DEF GoodQuery, Discover
<1> QED BY <1>1, <1>2, <1>3, <1>4, <1>5, <1>6, CommandKeeps DEF HttpSteps, Asking

LEMMA DhcpRequestKeeps == ASSUME NetInv, DhcpRequest, UNCHANGED httpVars PROVE NetInv'
<1>1. /\ UNCHANGED <<ringVars, arp, cfg, binds, dhcp, granted, dns, cache, result, now, sub, job>>
      /\ asked' = asked \cup {Request(dhcp.lease)} /\ dhcp.state = 2
      /\ sub = "out"
      /\ \/ pc = "offer" /\ pc' = "ack"
         \/ pc = "bootOffer" /\ pc' = "bootAck"
  BY DEF DhcpRequest, dnsVars
<1>2. GoodQuery(Request(dhcp.lease), dns.id)
  <2>1. dhcp.lease \in Leases
    BY <1>1 DEF NetInv, LeaseInv
  <2>2. dhcp.lease = <<dhcp.lease[1], dhcp.lease[2]>>
    BY <2>1, WireAssumption
  <2> QED BY <2>1, <2>2, FrameIs DEF GoodQuery, Request
<1>3. LeaseInv'
  BY <1>1 DEF NetInv, LeaseInv, Leasing
<1>4. TaskInv'
  BY <1>1 DEF NetInv, TaskInv, Waits, Steps
<1>5. PortInv'
  BY <1>1 DEF NetInv, PortInv, Booted, Bound
<1> QED BY <1>1, <1>2, <1>3, <1>4, <1>5, CommandKeeps DEF HttpSteps, Asking

LEMMA DhcpEndKeeps == ASSUME NetInv, DhcpEnd, UNCHANGED httpVars PROVE NetInv'
<1>1. /\ UNCHANGED <<ringVars, arp, asked, granted, dns, cache, result, now, sub>>
      /\ dhcp' = [dhcp EXCEPT !.state = 0]
      /\ pc \in {"offer", "bootOffer", "ack", "bootAck"} /\ sub = "out"
      /\ pc' = "idle" /\ job' = Ended
      /\ cfg' = IF dhcp.state = 3 THEN Configured(dhcp.lease)
                ELSE IF Booted THEN [cfg EXCEPT !.ip = job.ip]
                ELSE [cfg EXCEPT !.ip = Static, !.up = TRUE]
      /\ binds' = IF Booted THEN binds ELSE Binding("dns")
  BY DEF DhcpEnd, dnsVars
<1>2. LeaseInv'
  <2>1. /\ cfg \in [ip : Addresses, ns : {None} \cup {l[2] : l \in Leases}, up : BOOLEAN]
        /\ ~cfg.up /\ job.ip \in Addresses /\ Static \in Addresses
        /\ dhcp \in [state : 0 .. 3, lease : Leases \cup {NoLease}]
    BY <1>1 DEF NetInv, LeaseInv, Leasing, TaskInv, JobType, Addresses
  <2>2. /\ cfg' \in [ip : Addresses, ns : {None} \cup {l[2] : l \in Leases}, up : BOOLEAN]
        /\ cfg'.up /\ cfg'.ip # Static => granted # {} /\ cfg'.ip \in {l[1] : l \in Leases}
    <3>1. CASE dhcp.state = 3
      <4>1. dhcp.lease \in Leases /\ granted # {}
        BY <3>1 DEF NetInv, LeaseInv
      <4>2. cfg' = [ip |-> dhcp.lease[1], ns |-> dhcp.lease[2], up |-> TRUE]
        BY <1>1, <3>1 DEF Configured
      <4> QED BY <4>1, <4>2 DEF Addresses
    <3>2. CASE dhcp.state # 3 /\ Booted
      BY <1>1, <2>1, <3>2
    <3>3. CASE dhcp.state # 3 /\ ~Booted
      BY <1>1, <2>1, <3>3
    <3> QED BY <3>1, <3>2, <3>3
  <2> QED BY <1>1, <2>1, <2>2 DEF LeaseInv, Leasing
<1>3. TaskInv'
  BY <1>1, JobsTyped DEF NetInv, TaskInv, Waits, Steps
<1>4. PortInv'
  <2>1. CASE Booted
    BY <1>1, <2>1 DEF NetInv, PortInv, Booted, Bound
  <2>2. CASE ~Booted
    <3>1. Len(binds) < MaxBinds /\ Bound("dhcp")
      BY <1>1, <2>2, Sizes DEF NetInv, PortInv, Booted
    <3>2. /\ binds' \in Seq({"dhcp", "dns"}) /\ Len(binds') <= MaxBinds
          /\ Bound("dns")' /\ Bound("dhcp")'
      BY <1>1, <2>2, <3>1, BindingKeeps DEF NetInv
    <3> QED BY <1>1, <3>2 DEF PortInv
  <2> QED BY <2>1, <2>2
<1> QED BY <1>1, <1>2, <1>3, <1>4, CommandKeeps DEF HttpSteps, Asking

LEMMA PingKeeps == ASSUME NetInv, UNCHANGED httpVars, NEW t \in Targets, Ping(t) PROVE NetInv'
<1>1. /\ UNCHANGED <<ringVars, arp, cfg, binds, dhcp, asked, granted, dns, cache, result, now, sub>>
      /\ pc = "idle" /\ sub = "out"
      /\ PingGo([Begun EXCEPT !.dst = t, !.seq = 1])
  BY DEF Ping, Command, At, ipVars, dnsVars
<1>2. [Begun EXCEPT !.dst = t, !.seq = 1] \in JobType
  BY JobsTyped DEF NetInv
<1>3. [Begun EXCEPT !.dst = t, !.seq = 1].seq = 1 /\ [Begun EXCEPT !.dst = t, !.seq = 1].dst = t
  BY DEF Begun, NoJob
<1>4. pc' = "pingArp" /\ job' \in JobType /\ job'.dst = t
  BY <1>1, <1>2, <1>3 DEF PingGo
<1>5. TaskInv' /\ LeaseInv'
  BY <1>1, <1>4, LeaseStays DEF NetInv, TaskInv, Waits, Steps, Leasing
<1>6. PortInv'
  BY <1>1, <1>4, PortStays DEF NetInv, Booted, Steps, Waits
<1> QED BY <1>1, <1>4, <1>5, <1>6, CommandKeeps DEF HttpSteps, Asking

\* The next request of a ping, or its end.
LEMMA PingGoes ==
  ASSUME NetInv, At("pingArp") \/ At("pong"), PingGo(PingNext), UNCHANGED sub
  PROVE  TaskInv' /\ pc' \in {"idle", "pingArp"}
<1>1. sub = "out" /\ job \in JobType /\ job.dst \in Targets
  BY DEF At, NetInv, TaskInv
<1>2. Ended \in JobType
  BY JobsTyped DEF NetInv
<1>3. Ended.seq = 0
  BY DEF Ended, NoJob
<1>4. CASE job.seq < Pings
  <2>1. PingNext = [job EXCEPT !.seq = @ + 1]
    BY <1>4 DEF PingNext
  <2>2. /\ [job EXCEPT !.seq = @ + 1] \in JobType /\ [job EXCEPT !.seq = @ + 1].seq # 0
        /\ [job EXCEPT !.seq = @ + 1].dst = job.dst
    BY <1>1, <1>4, Sizes DEF JobType
  <2> QED BY <1>1, <2>1, <2>2 DEF PingGo, TaskInv, Steps, Waits
<1>5. CASE ~(job.seq < Pings)
  <2>1. PingNext = Ended
    BY <1>5 DEF PingNext
  <2>2. pc' = "idle" /\ job' = Ended
    BY <1>3, <2>1 DEF PingGo
  <2> QED BY <1>1, <1>2, <2>2 DEF TaskInv, Steps, Waits
<1> QED BY <1>4, <1>5

LEMMA PingStepKeeps ==
  ASSUME NetInv, UNCHANGED httpVars, PingSend \/ PingDone
  PROVE  NetInv'
<1>1. UNCHANGED <<ringVars, arp, cfg, binds, dhcp, granted, dns, cache, result, now, sub>>
  BY DEF PingSend, PingDone, ipVars, dnsVars
<1>2. pc \in {"pingArp", "pong"} /\ sub = "out" /\ Booted
  BY DEF PingSend, PingDone, At, Booted
<1>3. TaskInv' /\ pc' \in {"idle", "pingArp", "pong"}
  <2>1. CASE PingGo(PingNext)
    BY <1>1, <1>2, <2>1, PingGoes DEF At
  <2>2. CASE pc = "pingArp" /\ pc' = "pong" /\ job' = job
    BY <1>1, <1>2, <2>2 DEF NetInv, TaskInv, Steps, Waits
  <2> QED BY <2>1, <2>2 DEF PingSend, PingDone, At
<1>4. asked \subseteq asked' /\ \A q \in asked' \ asked : GoodQuery(q, dns.id)
  <2>1. job.dst \in Targets
    BY <1>2 DEF NetInv, TaskInv
  <2>2. GoodQuery(EchoTo(job.dst, job.seq), dns.id)
    BY <2>1, FrameIs DEF GoodQuery, EchoTo
  <2>3. /\ asked \subseteq asked'
        /\ asked' \subseteq asked \cup {EchoTo(job.dst, job.seq)}
    BY DEF PingSend, PingDone, Sends, ipVars
  <2> QED BY <2>2, <2>3
<1>5. LeaseInv'
  BY <1>1, <1>3, LeaseStays DEF NetInv, Leasing
<1>6. PortInv'
  BY <1>1, <1>2, <1>3, PortStays DEF NetInv, Steps, Waits
<1> QED BY <1>1, <1>2, <1>3, <1>4, <1>5, <1>6, CommandKeeps DEF HttpSteps, Asking

----------------------------------------------------------------------------
(* The resolver                                                              *)

\* Entries that are not there any more do not bring names back.
LEMMA CachePart ==
  ASSUME CacheInv, NEW c,
         c = [i \in 1 .. CacheSlots |-> c[i]], \A i \in 1 .. CacheSlots : c[i] \in {cache[i], NoName},
         cache' = c, now' = now
  PROVE  /\ cache' = [i \in 1 .. CacheSlots |-> cache'[i]] /\ CacheOnce'
         /\ \A i \in 1 .. CacheSlots : cache'[i] = NoName \/ GoodEntry(cache'[i], now')
<1>1. DOMAIN cache = 1 .. CacheSlots /\ DOMAIN cache' = 1 .. CacheSlots
  BY DEF CacheInv
<1>2. \A i, j \in 1 .. CacheSlots : cache[i] # NoName /\ cache[i].name = cache[j].name => i = j
  BY <1>1 DEF CacheInv, CacheOnce
<1>3. \A i \in 1 .. CacheSlots : cache[i] # NoName => cache[i].name # None
  BY WireAssumption DEF CacheInv, GoodEntry, Kept, Names
<1>4. NoName.name = None
  BY DEF NoName
<1>5. CacheOnce'
  <2> SUFFICES ASSUME NEW i \in 1 .. CacheSlots, NEW j \in 1 .. CacheSlots,
                      c[i] # NoName, c[i].name = c[j].name
               PROVE  i = j
    BY <1>1 DEF CacheOnce
  <2>1. c[i] = cache[i] /\ cache[i].name # None
    BY <1>3
  <2>2. c[j] = cache[j]
    BY <1>4, <2>1
  <2> QED BY <1>2, <2>1, <2>2
<1> QED BY <1>5 DEF CacheInv

\* A name that is looked up: the old entry is dropped, and a fresh one is
\* younger than its time to live.
LEMMA DroppedKeeps ==
  ASSUME CacheInv, NEW name \in Names, cache' = Dropped(name), now' = now
  PROVE  /\ cache' = [i \in 1 .. CacheSlots |-> cache'[i]] /\ CacheOnce'
         /\ \A i \in 1 .. CacheSlots : cache'[i] = NoName \/ GoodEntry(cache'[i], now')
         /\ {i \in Held(name) : Fresh(cache[i])} = {} =>
              \A i \in 1 .. CacheSlots : cache'[i].name # name
<1>1. DOMAIN cache = 1 .. CacheSlots
  BY DEF CacheInv
<1>2. /\ cache' = [i \in 1 .. CacheSlots |-> cache'[i]]
      /\ \A i \in 1 .. CacheSlots :
           cache'[i] = IF i \in Held(name) /\ ~Fresh(cache[i]) THEN NoName ELSE cache[i]
  BY <1>1 DEF Dropped
<1>3. \A i \in 1 .. CacheSlots : cache'[i] \in {cache[i], NoName}
  BY <1>2
<1>4. PICK c : c = cache'
  OBVIOUS
<1>5. /\ CacheOnce'
      /\ \A i \in 1 .. CacheSlots : cache'[i] = NoName \/ GoodEntry(cache'[i], now')
  BY <1>2, <1>3, <1>4, CachePart
<1>6. ASSUME {i \in Held(name) : Fresh(cache[i])} = {}, NEW i \in 1 .. CacheSlots
      PROVE  cache'[i].name # name
  <2>1. name # None
    BY WireAssumption DEF Names
  <2>2. CASE i \in Held(name)
    BY <1>2, <1>6, <2>1, <2>2 DEF NoName
  <2>3. CASE i \notin Held(name)
    BY <1>1, <1>2, <2>3 DEF Held
  <2> QED BY <2>2, <2>3
<1> QED BY <1>2, <1>5, <1>6

LEMMA HitIsYoung ==
  ASSUME CacheInv, NEW i \in 1 .. CacheSlots, cache[i] # NoName, Fresh(cache[i])
  PROVE  LET r == FromCache(cache[i])
         IN r.age < r.ttl /\ r.name = cache[i].name /\ r.ip = cache[i].ip
<1>1. PICK e : e = cache[i]
  OBVIOUS
<1>2. e \in Kept /\ e.at <= now /\ e.ts = e.at % TsWrap /\ now \in Nat
  BY <1>1 DEF CacheInv, GoodEntry
<1>3. e.at \in Nat /\ e.ts \in Nat /\ e.ttl \in Nat /\ e.ttl # 0
  BY <1>2, Sizes DEF Kept
<1>4. e.ts <= e.at
  BY <1>2, <1>3, Wrapped
<1>5. now - e.ts < e.ttl
  BY <1>1, <1>3 DEF Fresh, Elapsed
<1>6. now - e.at < e.ttl
  BY <1>2, <1>3, <1>4, <1>5
<1>7. /\ FromCache(e).age = now - e.at /\ FromCache(e).ttl = e.ttl
      /\ FromCache(e).name = e.name /\ FromCache(e).ip = e.ip
  BY DEF FromCache, Returned, NoResult
<1> QED BY <1>1, <1>6, <1>7

\* What dns_resolve returns at once is an address, or a hit of the cache.
LEMMA ResolveEffect ==
  ASSUME NetInv, pc = "idle", sub = "out", NEW name \in Askable, NEW by \in {None, "http"},
         Resolve(name, by)
  PROVE  /\ UNCHANGED <<ringVars, ipVars, dns, now, sub>>
         /\ TaskInv' /\ CacheInv'
         /\ pc' \in {"idle", "resolved", "reset"} /\ (pc' # "idle" => job'.by = by)
         /\ \/ result' = result
            \/ IsAddress(name) /\ result' = Returned(name, name, "address")
            \/ \E i \in 1 .. CacheSlots : cache[i] # NoName /\ result' = FromCache(cache[i])
         /\ \A i \in 1 .. CacheSlots : cache'[i] \in {cache[i], NoName}
<1> DEFINE next == [Begun EXCEPT !.name = name, !.by = by]
           hit  == {i \in Held(name) : Fresh(cache[i])}
<1>1. UNCHANGED <<ringVars, ipVars, dns, now, sub>>
  BY DEF Resolve
<1>2. next \in JobType /\ next.name = name /\ next.by = by
      /\ [NoJob EXCEPT !.cmds = next.cmds] \in JobType
  <2>1. next \in JobType /\ Begun \in JobType
    BY JobsTyped DEF NetInv
  <2>2. next.cmds = Begun.cmds /\ Begun.cmds = job.cmds + 1 /\ next.name = name /\ next.by = by
    BY DEF Begun, NoJob
  <2> QED BY <2>1, <2>2, JobsTyped DEF NetInv
<1>3. /\ now \in Nat /\ dns \in DnsType /\ DOMAIN cache = 1 .. CacheSlots
      /\ cache = [i \in 1 .. CacheSlots |-> cache[i]]
      /\ CacheInv
  BY DEF NetInv, CacheInv
<1>4. CASE IsAddress(name)
  <2>1. /\ result' = Returned(name, name, "address") /\ cache' = cache
        /\ \/ pc' = "idle" /\ job' = [NoJob EXCEPT !.cmds = next.cmds]
           \/ pc' = "resolved" /\ job' = next
    BY <1>4 DEF Resolve
  <2>2. TaskInv'
    BY <1>1, <1>2, <2>1 DEF TaskInv, Steps, Waits
  <2>3. result'.why # "cache"
    BY <2>1 DEF Returned, NoResult
  <2>4. CacheInv'
    BY <1>1, <1>3, <2>1, <2>3 DEF CacheInv, CacheOnce, CacheFresh, Asking
  <2> QED BY <1>1, <1>2, <1>4, <2>1, <2>2, <2>4
<1>5. CASE ~IsAddress(name)
  <2>1. name \in Names /\ cache' = Dropped(name)
    BY <1>5 DEF Resolve, IsAddress
  <2>2. /\ cache' = [i \in 1 .. CacheSlots |-> cache'[i]] /\ CacheOnce'
        /\ \A i \in 1 .. CacheSlots : cache'[i] = NoName \/ GoodEntry(cache'[i], now')
        /\ hit = {} => \A i \in 1 .. CacheSlots : cache'[i].name # name
    BY <1>1, <1>3, <2>1, DroppedKeeps
  <2>3. \A i \in 1 .. CacheSlots : cache'[i] \in {cache[i], NoName}
    BY <1>3, <2>1 DEF Dropped
  <2>4. CASE hit # {}
    <3>1. /\ result' = FromCache(cache[Lowest(hit)])
          /\ \/ pc' = "idle" /\ job' = [NoJob EXCEPT !.cmds = next.cmds]
             \/ pc' = "resolved" /\ job' = next
      BY <1>5, <2>4 DEF Resolve
    <3>2. hit \in SUBSET Nat
      BY <1>3 DEF Held
    <3>3. PICK i \in hit : i = Lowest(hit)
      <4> HIDE DEF hit
      <4> QED BY <2>4, <3>2, LowestIsLeast
    <3>4. i \in 1 .. CacheSlots /\ cache[i].name = name /\ Fresh(cache[i])
      BY <1>3, <3>3 DEF Held
    <3>5. cache[i] # NoName
      BY <2>1, <3>4, WireAssumption DEF Names, NoName
    <3>6. result' = FromCache(cache[i])
      BY <3>1, <3>3
    <3>7. result'.age < result'.ttl
      BY <1>3, <3>4, <3>5, <3>6, HitIsYoung
    <3>8. TaskInv'
      BY <1>1, <1>2, <3>1 DEF TaskInv, Steps, Waits
    <3>9. CacheInv'
      BY <1>1, <1>3, <2>2, <3>1, <3>7 DEF CacheInv, CacheFresh, Asking
    <3> QED BY <1>1, <1>2, <2>3, <3>1, <3>4, <3>5, <3>6, <3>8, <3>9
  <2>5. CASE hit = {}
    <3>1. pc' = "reset" /\ job' = next /\ result' = result
      BY <1>5, <2>5 DEF Resolve
    <3>2. TaskInv'
      BY <1>1, <1>2, <3>1 DEF TaskInv, Steps, Waits
    <3>3. CacheInv'
      BY <1>1, <1>2, <1>3, <2>1, <2>2, <2>5, <3>1 DEF CacheInv, CacheFresh
    <3> QED BY <1>1, <1>2, <2>3, <3>1, <3>2, <3>3
  <2> QED BY <2>4, <2>5
<1> QED BY <1>4, <1>5

\* What a step of the resolver leaves alone.
LEMMA ResolverKeeps ==
  ASSUME NetInv, UNCHANGED <<ringVars, arp, cfg, binds, dhcp, granted>>,
         asked \subseteq asked', \A q \in asked' \ asked : GoodQuery(q, dns'.id), dns.id <= dns'.id,
         Booted, pc' \in Steps \ Leasing, TaskInv', CacheInv', ConnInv', GetInv'
  PROVE  NetInv'
<1>1. dns.id \in Nat /\ dns'.id \in Nat
  BY Sizes DEF NetInv, CacheInv, DnsType
<1>2. WireInv' /\ ArpShape'
  BY <1>1, WireStays DEF NetInv, ringVars, ArpShape
<1>3. LeaseInv'
  BY LeaseStays DEF NetInv
<1>4. PortInv'
  BY PortStays DEF NetInv, Leasing
<1> QED BY <1>2, <1>3, <1>4 DEF NetInv

LEMMA NslookupKeeps ==
  ASSUME NetInv, UNCHANGED httpVars, NEW name \in Names \cup Targets, Nslookup(name)
  PROVE  NetInv'
<1>1. pc = "idle" /\ sub = "out" /\ Resolve(name, None) /\ name \in Askable
  BY DEF Nslookup, Command, At, Askable
<1>2. /\ UNCHANGED <<ringVars, ipVars, dns, now, sub>>
      /\ TaskInv' /\ CacheInv'
      /\ pc' \in {"idle", "resolved", "reset"} /\ (pc' # "idle" => job'.by = None)
  BY <1>1, ResolveEffect
<1>3. ConnInv'
  BY <1>1, <1>2, ConnStays DEF NetInv, HttpSteps
<1>4. GetInv'
  BY <1>1, <1>2, GetStays DEF NetInv, HttpSteps, Asking, None
<1>5. dns.id <= dns'.id /\ asked' = asked
  BY <1>2, Sizes DEF NetInv, CacheInv, DnsType, ipVars
<1> QED BY <1>1, <1>2, <1>3, <1>4, <1>5, ResolverKeeps DEF ipVars, Booted, Steps, Leasing

\* dns_resolve returns, to the prompt or to http_get.
LEMMA LeaveEffect ==
  ASSUME NetInv, sub = "out", Leave(Back), pc \in Asking
  PROVE  /\ TaskInv' /\ pc' \in {"idle", "resolved"}
         /\ pc' = "resolved" => job' = job
<1>1. /\ UNCHANGED sub /\ pc' = Back
      /\ job' = IF pc' = "idle" THEN Ended ELSE job
  BY DEF Leave
<1>2. pc' \in {"idle", "resolved"}
  BY <1>1 DEF Back
<1>3. job' \in JobType
  BY <1>1, JobsTyped DEF NetInv, TaskInv
<1> QED BY <1>1, <1>2, <1>3 DEF TaskInv, Steps, Waits

\* Steps of the resolver that go on asking, or return.
LEMMA AskingKeeps ==
  ASSUME NetInv, UNCHANGED <<ringVars, arp, cfg, binds, dhcp, granted, httpVars>>,
         asked \subseteq asked', \A q \in asked' \ asked : GoodQuery(q, dns'.id), dns.id <= dns'.id,
         pc \in Asking, TaskInv', CacheInv',
         pc' \in {"idle"} \/ (pc' \in Asking \cup {"resolved"} /\ job'.by = job.by)
  PROVE  NetInv'
<1>1. ConnInv'
  BY ConnStays DEF NetInv, HttpSteps, Asking
<1>2. GetInv'
  BY GetStays DEF NetInv, HttpSteps, Asking
<1> QED BY <1>1, <1>2, ResolverKeeps DEF Booted, Asking, Steps, Waits, Leasing

LEMMA DnsResetKeeps == ASSUME NetInv, DnsReset, UNCHANGED httpVars PROVE NetInv'
<1>1. /\ UNCHANGED <<ringVars, arp, cfg, binds, dhcp, asked, granted, cache, result, now, sub, job>>
      /\ pc = "reset" /\ pc' = "ask" /\ sub = "out"
      /\ dns' = [dns EXCEPT !.ready = FALSE, !.ip = None, !.ttl = 0]
  BY DEF DnsReset, At, ipVars
<1>2. dns' \in DnsType /\ dns'.id = dns.id /\ dns.id \in Nat
  <2>1. dns \in DnsType
    BY DEF NetInv, CacheInv
  <2>2. dns.id \in Nat
    BY <2>1, Sizes DEF DnsType
  <2> QED BY <1>1, <2>1, <2>2 DEF DnsType
<1>3. CacheInv'
  BY <1>1, <1>2, CacheStays DEF NetInv, Asking
<1>4. TaskInv'
  BY <1>1 DEF NetInv, TaskInv, Waits, Steps
<1>5. dns.id <= dns'.id
  BY <1>2
<1> QED BY <1>1, <1>3, <1>4, <1>5, AskingKeeps DEF Asking

\* A result that did not come out of the cache says nothing of its age.
LEMMA ReturnedIs ==
  ASSUME NEW name, NEW ip, NEW why
  PROVE  /\ Returned(name, ip, why).name = name /\ Returned(name, ip, why).ip = ip
         /\ Returned(name, ip, why).why = why
BY DEF Returned, NoResult

LEMMA ReturnKeeps ==
  ASSUME CacheInv, UNCHANGED <<cache, now>>, dns' \in DnsType,
         NEW name, NEW ip, NEW why, why # "cache", result' = Returned(name, ip, why),
         pc' \notin Asking
  PROVE  CacheInv'
<1>1. result'.why # "cache"
  BY ReturnedIs
<1> QED BY <1>1 DEF CacheInv, CacheOnce, CacheFresh

LEMMA DnsAskKeeps == ASSUME NetInv, DnsAsk, UNCHANGED httpVars PROVE NetInv'
<1>1. /\ UNCHANGED <<ringVars, arp, cfg, binds, dhcp, granted, cache, now>>
      /\ pc = "ask" /\ sub = "out"
  BY DEF DnsAsk, At
<1>2. dns \in DnsType /\ dns.id \in 0 .. MaxQueries
  BY DEF NetInv, CacheInv, DnsType
<1>5. dns.id \in Nat /\ (dns.id < MaxQueries => dns.id + 1 \in 0 .. MaxQueries)
  BY <1>2, Sizes
<1>3. CASE /\ result' = Returned(job.name, None, "no server")
           /\ Leave(Back) /\ UNCHANGED <<dns, asked>>
  <2>1. /\ TaskInv' /\ pc' \in {"idle", "resolved"}
        /\ pc' = "resolved" => job' = job
    BY <1>1, <1>3, LeaveEffect DEF Asking
  <2>2. CacheInv'
    <3>1. PICK name : name = job.name
      OBVIOUS
    <3>2. result' = Returned(name, None, "no server") /\ pc' \notin Asking
      BY <1>3, <2>1, <3>1 DEF Asking
    <3> QED BY <1>1, <1>2, <1>3, <3>2, ReturnKeeps DEF NetInv
  <2>3. dns.id <= dns'.id
    <3>1. dns' = dns
      BY <1>3
    <3> QED BY <1>5, <3>1
  <2> QED BY <1>1, <1>3, <2>1, <2>2, <2>3, AskingKeeps DEF Asking
<1>4. CASE /\ dns.id < MaxQueries
           /\ dns' = [dns EXCEPT !.id = @ + 1]
           /\ asked' = asked \cup Sends(cfg.ns, Query(job.name), TRUE).out
           /\ \/ pc' = "answer" /\ UNCHANGED <<job, sub, result>>
              \/ result' = Returned(job.name, None, "not sent") /\ Leave(Back)
  <2>1. dns' \in DnsType /\ dns'.id = dns.id + 1 /\ dns.id \in Nat
    <3>1. dns.id \in Nat /\ dns.id + 1 \in 0 .. MaxQueries
      BY <1>4, <1>5
    <3>2. dns'.id = dns.id + 1
      BY <1>2, <1>4 DEF DnsType
    <3> QED BY <1>2, <1>4, <3>1, <3>2 DEF DnsType
  <2>2. GoodQuery(Query(job.name), dns'.id)
    BY <2>1, FrameIs DEF GoodQuery, Query
  <2>3. asked \subseteq asked' /\ asked' \subseteq asked \cup {Query(job.name)}
    BY <1>4 DEF Sends
  <2>4. CASE pc' = "answer" /\ UNCHANGED <<job, sub, result>>
    <3>1. TaskInv'
      BY <1>1, <2>4 DEF NetInv, TaskInv, Waits, Steps
    <3>2. CacheInv'
      BY <1>1, <2>1, <2>4, CacheStays DEF NetInv, Asking
    <3> QED BY <1>1, <2>1, <2>2, <2>3, <2>4, <3>1, <3>2, AskingKeeps DEF Asking
  <2>5. CASE result' = Returned(job.name, None, "not sent") /\ Leave(Back)
    <3>1. /\ TaskInv' /\ pc' \in {"idle", "resolved"}
          /\ pc' = "resolved" => job' = job
      BY <1>1, <2>5, LeaveEffect DEF Asking
    <3>2. CacheInv'
      <4>1. PICK name : name = job.name
        OBVIOUS
      <4>2. result' = Returned(name, None, "not sent") /\ pc' \notin Asking
        BY <2>5, <3>1, <4>1 DEF Asking
      <4> QED BY <1>1, <2>1, <4>2, ReturnKeeps DEF NetInv
    <3> QED BY <1>1, <2>1, <2>2, <2>3, <3>1, <3>2, AskingKeeps DEF Asking
  <2> QED BY <1>4, <2>4, <2>5
<1> QED BY <1>3, <1>4 DEF DnsAsk

LEMMA CacheSlotIs ==
  ASSUME CacheInv
  PROVE  CacheSlot \in 1 .. CacheSlots
<1> DEFINE Idle == {i \in 1 .. CacheSlots : cache[i] = NoName}
<1>1. CacheSlot = IF Idle # {} THEN Lowest(Idle) ELSE 1
  BY DEF CacheInv, CacheSlot
<1>2. Idle \in SUBSET Nat
  OBVIOUS
<1>3. Idle # {} => Lowest(Idle) \in Idle
  <2> HIDE DEF Idle
  <2> QED BY <1>2, LowestIsLeast
<1> QED BY <1>1, <1>3, Sizes

\* The entry for an answer, in a cache that has none of that name.
LEMMA EntryKeeps ==
  ASSUME CacheInv, NEW k \in 1 .. CacheSlots, NEW name \in Names, NEW ip \in AnswerIps,
         NEW ttl \in Nat, ttl # 0, \A i \in 1 .. CacheSlots : cache[i].name # name,
         cache' = [cache EXCEPT ![k] = Entry(name, ip, ttl)], now' = now
  PROVE  /\ cache' = [i \in 1 .. CacheSlots |-> cache'[i]] /\ CacheOnce'
         /\ \A i \in 1 .. CacheSlots : cache'[i] = NoName \/ GoodEntry(cache'[i], now')
<1>1. /\ DOMAIN cache = 1 .. CacheSlots /\ now \in Nat
      /\ cache = [i \in 1 .. CacheSlots |-> cache[i]]
  BY DEF CacheInv
<1>2. PICK e : e = Entry(name, ip, ttl)
  OBVIOUS
<1>3. /\ e = [name |-> name, ip |-> ip, ttl |-> ttl, ts |-> now % TsWrap, at |-> now]
  BY <1>2 DEF Entry
<1>4. now % TsWrap \in 0 .. TsWrap - 1
  BY <1>1, Wrapped
<1>5. GoodEntry(e, now) /\ e.name = name
  BY <1>1, <1>3, <1>4 DEF GoodEntry, Kept
<1>6. /\ cache' = [i \in 1 .. CacheSlots |-> cache'[i]]
      /\ cache'[k] = e /\ \A i \in 1 .. CacheSlots : i # k => cache'[i] = cache[i]
  BY <1>1, <1>2
<1>7. CacheOnce'
  <2>1. \A i, j \in 1 .. CacheSlots : cache[i] # NoName /\ cache[i].name = cache[j].name => i = j
    BY <1>1 DEF CacheInv, CacheOnce
  <2> SUFFICES ASSUME NEW i \in 1 .. CacheSlots, NEW j \in 1 .. CacheSlots,
                      cache'[i] # NoName, cache'[i].name = cache'[j].name
               PROVE  i = j
    BY <1>6 DEF CacheOnce
  <2> QED BY <1>5, <1>6, <2>1
<1> QED BY <1>5, <1>6, <1>7 DEF CacheInv

LEMMA DnsAnswerKeeps == ASSUME NetInv, DnsAnswer, UNCHANGED httpVars PROVE NetInv'
<1>1. /\ UNCHANGED <<ringVars, arp, cfg, binds, dhcp, asked, granted, dns, now>>
      /\ pc = "answer" /\ sub = "out" /\ Leave(Back)
  BY DEF DnsAnswer, At, ipVars
<1>2. /\ TaskInv' /\ pc' \in {"idle", "resolved"}
      /\ pc' = "resolved" => job' = job
  BY <1>1, LeaveEffect DEF Asking
<1>3. dns \in DnsType /\ dns.id \in Nat /\ CacheInv /\ now \in Nat
  BY Sizes DEF NetInv, CacheInv, DnsType
<1>4. /\ result'.why # "cache"
      /\ cache' = [i \in 1 .. CacheSlots |-> cache'[i]] /\ CacheOnce'
      /\ \A i \in 1 .. CacheSlots : cache'[i] = NoName \/ GoodEntry(cache'[i], now')
  <2>1. CASE dns.ip # None
    <3>1. /\ cache' = [cache EXCEPT ![CacheSlot] = Entry(job.name, dns.ip, TtlOf(dns.ttl))]
          /\ result' = Returned(job.name, dns.ip, "answer")
      BY <2>1 DEF DnsAnswer
    <3>2. /\ job.name \in Names /\ \A i \in 1 .. CacheSlots : cache[i].name # job.name
      BY <1>1 DEF NetInv, CacheInv, Asking
    <3>3. TtlOf(dns.ttl) \in Nat /\ TtlOf(dns.ttl) # 0 /\ dns.ip \in AnswerIps
      BY <1>3, <2>1, Sizes DEF TtlOf, DnsType
    <3>4. CacheSlot \in 1 .. CacheSlots
      BY <1>3, CacheSlotIs
    <3>5. PICK k \in 1 .. CacheSlots, name \in Names, ip \in AnswerIps, ttl \in Nat :
            k = CacheSlot /\ name = job.name /\ ip = dns.ip /\ ttl = TtlOf(dns.ttl)
      BY <3>2, <3>3, <3>4
    <3>6. /\ cache' = [i \in 1 .. CacheSlots |-> cache'[i]] /\ CacheOnce'
          /\ \A i \in 1 .. CacheSlots : cache'[i] = NoName \/ GoodEntry(cache'[i], now')
      BY <1>1, <1>3, <3>1, <3>2, <3>3, <3>5, EntryKeeps
    <3> QED BY <3>1, <3>6, ReturnedIs
  <2>2. CASE dns.ip = None
    <3>1. cache' = cache /\ result' = Returned(job.name, None, "no such name")
      BY <2>2 DEF DnsAnswer
    <3>2. result'.why # "cache"
      <4>1. PICK name : name = job.name
        OBVIOUS
      <4>2. result' = Returned(name, None, "no such name")
        BY <3>1, <4>1
      <4> QED BY <4>2 DEF Returned, NoResult
    <3> QED BY <1>1, <1>3, <3>1, <3>2 DEF CacheInv, CacheOnce
  <2> QED BY <2>1, <2>2
<1>5. CacheInv'
  BY <1>1, <1>2, <1>3, <1>4 DEF CacheInv, CacheFresh, Asking
<1>6. dns.id <= dns'.id
  BY <1>1, <1>3
<1> QED BY <1>1, <1>2, <1>5, <1>6, AskingKeeps DEF Asking

LEMMA DnsTimeoutKeeps == ASSUME NetInv, DnsTimeout, UNCHANGED httpVars PROVE NetInv'
<1>1. /\ UNCHANGED <<ringVars, arp, cfg, binds, dhcp, asked, granted, dns, cache, now>>
      /\ pc = "answer" /\ sub = "out"
  BY DEF DnsTimeout, At, ipVars
<1>2. dns \in DnsType /\ dns.id \in Nat /\ dns.id <= dns'.id
  BY <1>1, Sizes DEF NetInv, CacheInv, DnsType
<1>3. CASE job.tries < MaxRetries
  <2>1. pc' = "reset" /\ job' = [job EXCEPT !.tries = @ + 1] /\ UNCHANGED <<sub, result>>
    BY <1>3 DEF DnsTimeout, Tried
  <2>2. /\ job' \in JobType /\ job'.name = job.name /\ job'.by = job.by
    BY <1>3, <2>1, Sizes DEF NetInv, TaskInv, JobType
  <2>3. TaskInv'
    BY <1>1, <2>1, <2>2 DEF TaskInv, Waits, Steps
  <2>4. CacheInv'
    BY <1>1, <1>2, <2>1, <2>2, CacheStays DEF NetInv, Asking
  <2> QED BY <1>1, <1>2, <2>1, <2>2, <2>3, <2>4, AskingKeeps DEF Asking
<1>4. CASE ~(job.tries < MaxRetries)
  <2>1. result' = Returned(job.name, None, "timeout") /\ Leave(Back)
    BY <1>4 DEF DnsTimeout
  <2>2. /\ TaskInv' /\ pc' \in {"idle", "resolved"}
        /\ pc' = "resolved" => job' = job
    BY <1>1, <2>1, LeaveEffect DEF Asking
  <2>3. CacheInv'
    <3>1. PICK name : name = job.name
      OBVIOUS
    <3>2. result' = Returned(name, None, "timeout") /\ pc' \notin Asking
      BY <2>1, <2>2, <3>1 DEF Asking
    <3> QED BY <1>1, <1>2, <3>2, ReturnKeeps DEF NetInv
  <2> QED BY <1>1, <1>2, <2>2, <2>3, AskingKeeps DEF Asking
<1> QED BY <1>3, <1>4

LEMMA CacheFlushKeeps == ASSUME NetInv, CacheFlush, UNCHANGED httpVars PROVE NetInv'
<1>1. /\ UNCHANGED <<ringVars, arp, cfg, binds, dhcp, asked, granted, dns, result, now, pc, sub>>
      /\ pc = "idle" /\ cache' = [i \in DOMAIN cache |-> NoName]
      /\ job' = [NoJob EXCEPT !.cmds = job.cmds + 1]
  BY DEF CacheFlush, Command, At, ipVars
<1>2. dns \in DnsType /\ dns.id \in Nat /\ dns.id <= dns'.id
  BY <1>1, Sizes DEF NetInv, CacheInv, DnsType
<1>3. TaskInv'
  BY <1>1, JobsTyped DEF NetInv, TaskInv, Waits
<1>4. CacheInv'
  <2>1. /\ cache' = [i \in 1 .. CacheSlots |-> cache'[i]]
        /\ \A i \in 1 .. CacheSlots : cache'[i] = NoName
    BY <1>1 DEF NetInv, CacheInv
  <2> QED BY <1>1, <2>1 DEF NetInv, CacheInv, CacheOnce, CacheFresh, Asking
<1>5. ConnInv' /\ GetInv'
  BY <1>1, ConnStays, GetStays DEF NetInv, HttpSteps, Asking
<1> QED BY <1>1, <1>2, <1>3, <1>4, <1>5, ResolverKeeps DEF Booted, Steps, Leasing

LEMMA SecondKeeps == ASSUME NetInv, Second, UNCHANGED httpVars PROVE NetInv'
<1>1. /\ UNCHANGED <<ringVars, ipVars, dns, cache, result, pc, sub, job>> /\ now' = now + 1
  BY DEF Second, taskVars
<1>2. now \in Nat /\ dns.id \in Nat /\ dns.id <= dns'.id /\ asked' \ asked = {}
  BY <1>1, Sizes DEF NetInv, CacheInv, DnsType, ipVars
<1>3. CacheInv'
  <2>1. \A i \in 1 .. CacheSlots : GoodEntry(cache[i], now) => GoodEntry(cache[i], now + 1)
    BY <1>2 DEF GoodEntry, Kept
  <2> QED BY <1>1, <1>2, <2>1 DEF NetInv, CacheInv, CacheOnce, CacheFresh
<1>4. WireInv' /\ ArpShape' /\ TaskInv' /\ LeaseInv'
  BY <1>1, <1>2, WireStays, LeaseStays DEF NetInv, ipVars, ringVars, ArpShape, TaskInv
<1>5. PortInv' /\ ConnInv' /\ GetInv'
  BY <1>1, PortStays, ConnStays, GetStays DEF NetInv, ipVars
<1> QED BY <1>3, <1>4, <1>5 DEF NetInv

----------------------------------------------------------------------------
(* The client                                                                *)

LEMMA ClientKeeps ==
  ASSUME NetInv, UNCHANGED <<ringVars, ipVars, dnsVars, sub>>, sub = "out",
         pc \in HttpSteps \cup {"resolved"}, pc' \in HttpSteps \cup {"idle"},
         job' \in {job, Ended}, ConnInv', GetInv'
  PROVE  NetInv'
<1>1. dns.id \in Nat /\ dns.id <= dns'.id /\ asked' \ asked = {}
  BY Sizes DEF NetInv, CacheInv, DnsType, ipVars, dnsVars
<1>2. TaskInv'
  <2>1. job' \in JobType
    BY JobsTyped DEF NetInv, TaskInv
  <2> QED BY <2>1 DEF TaskInv, Steps, Waits, HttpSteps
<1>3. CacheInv'
  BY CacheStays DEF NetInv, CacheInv, dnsVars, Asking, HttpSteps
<1> QED BY <1>1, <1>2, <1>3, ResolverKeeps DEF ipVars, dnsVars, Booted, Steps, Waits, Leasing, HttpSteps

LEMMA WgetKeeps == ASSUME NetInv, NEW u \in Urls, Wget(u) PROVE NetInv'
<1>1. pc = "idle" /\ sub = "out" /\ UNCHANGED <<conns, server>>
  BY DEF Wget, Command, At
<1>2. CASE HostOf(u) = None
  <2>1. /\ UNCHANGED <<ringVars, ipVars, dns, cache, result, now, pc, sub, httpVars>>
        /\ job' = [NoJob EXCEPT !.cmds = job.cmds + 1]
    BY <1>1, <1>2 DEF Wget, httpVars, dnsVars
  <2>2. dns \in DnsType /\ dns.id \in Nat /\ dns.id <= dns'.id /\ asked' \ asked = {}
    BY <2>1, Sizes DEF NetInv, CacheInv, DnsType, ipVars
  <2>3. TaskInv'
    BY <1>1, <2>1, JobsTyped DEF NetInv, TaskInv, Waits
  <2>4. CacheInv'
    BY <1>1, <2>1, <2>2, CacheStays DEF NetInv, Asking
  <2>5. ConnInv' /\ GetInv'
    BY <1>1, <2>1, ConnStays, GetStays DEF NetInv, HttpSteps, Asking
  <2> QED BY <1>1, <2>1, <2>2, <2>3, <2>4, <2>5, ResolverKeeps DEF Booted, Steps, Leasing, ipVars
<1>3. CASE HostOf(u) # None
  <2>1. Resolve(HostOf(u), "http") /\ http' = NoHttp /\ HostOf(u) \in Askable
    BY <1>3 DEF Wget, Askable
  <2>2. /\ UNCHANGED <<ringVars, ipVars, dns, now, sub>>
        /\ TaskInv' /\ CacheInv'
        /\ pc' \in {"idle", "resolved", "reset"}
    BY <1>1, <2>1, ResolveEffect
  <2>3. dns.id \in Nat /\ dns.id <= dns'.id /\ asked' \ asked = {}
    BY <2>2, Sizes DEF NetInv, CacheInv, DnsType, ipVars
  <2>4. NoHttp \in HttpType
    BY Sizes DEF NoHttp, HttpType
  <2>5. ConnInv'
    BY <1>1, <2>1, <2>2, <2>4 DEF NetInv, ConnInv, Getting, HttpSteps
  <2>6. GetInv'
    BY <2>1, <2>2 DEF GetInv, WholeResponse, NoHttp, None, HttpSteps
  <2> QED BY <1>1, <2>2, <2>3, <2>5, <2>6, ResolverKeeps DEF Booted, Steps, Leasing, ipVars
<1> QED BY <1>2, <1>3

\* The step of task 0 in a get, as the lemmas about the client need it.
LEMMA StepIs ==
  ASSUME NEW p \in HttpSteps, NEW q, HttpAt(q), Step(p)
  PROVE  /\ UNCHANGED <<ringVars, ipVars, dnsVars, sub, job>> /\ pc' = p /\ pc = q /\ sub = "out"
BY DEF HttpAt, Step, At

LEMMA FailsIs ==
  ASSUME NetInv, NEW q \in HttpSteps \cup {"resolved"}, HttpAt(q), NEW e \in -5 .. 0, Fails(e)
  PROVE  /\ UNCHANGED <<ringVars, ipVars, dnsVars, sub>> /\ pc' = "idle" /\ pc = q /\ sub = "out"
         /\ job' = Ended
         /\ http' \in HttpType /\ http'.why = http.why /\ http'.len = http.len
         /\ http'.slot = http.slot
<1>1. http \in HttpType /\ http' = [http EXCEPT !.error = e]
  BY DEF NetInv, ConnInv, Fails
<1> QED BY <1>1 DEF HttpAt, Fails, Ends, At, HttpType

\* A get is over, and its connection closed or on its way there.
LEMMA FailsKeeps ==
  ASSUME NetInv, NEW q \in HttpSteps \cup {"resolved"}, HttpAt(q), NEW e \in -5 .. 0, Fails(e),
         UNCHANGED server, conns' \in [1 .. Conns -> ConnType],
         \A i \in 1 .. Conns : conns'[i].st \in Leaving
  PROVE  NetInv'
<1>1. /\ UNCHANGED <<ringVars, ipVars, dnsVars, sub>> /\ pc' = "idle" /\ pc = q /\ sub = "out"
      /\ job' = Ended
      /\ http' \in HttpType /\ http'.why = http.why /\ http'.len = http.len
  BY FailsIs
<1>2. ConnInv'
  BY <1>1 DEF NetInv, ConnInv, Getting, HttpSteps
<1>3. GetInv'
  BY <1>1 DEF NetInv, GetInv, WholeResponse, BodyLen, HttpSteps, Asking
<1> QED BY <1>1, <1>2, <1>3, ClientKeeps

\* What tcp_close makes of the connection of a get.
LEMMA ClosedIs ==
  ASSUME NetInv, pc \in HttpSteps, conns' = ClosedSlot
  PROVE  /\ conns' \in [1 .. Conns -> ConnType]
         /\ \A i \in 1 .. Conns : conns'[i].st \in Leaving
<1>1. /\ http.slot \in 1 .. Conns /\ conns \in [1 .. Conns -> ConnType]
      /\ conns[http.slot].st \in Going
      /\ \A i \in 1 .. Conns : i # http.slot => conns[i].st \in Leaving
  BY DEF NetInv, GetInv, ConnInv, Getting
<1>2. PICK c : c = conns[http.slot]
  OBVIOUS
<1>3. c \in ConnType /\ c.st \in Going
  BY <1>1, <1>2
<1>4. PICK d : d = IF C!ClosedByUser(c) = {} THEN c ELSE CHOOSE x \in C!ClosedByUser(c) : TRUE
  OBVIOUS
<1>5. d \in ConnType /\ d.st \in Leaving
  <2>1. CASE c.st = "CLOSED"
    <3>1. C!ClosedByUser(c) = {}
      BY <2>1 DEF C!ClosedByUser, C!Move
    <3> QED BY <1>3, <1>4, <2>1, <3>1 DEF Leaving
  <2>2. CASE c.st \in {"SYN_SENT", "ESTABLISHED", "CLOSE_WAIT"}
    <3>1. /\ C!ClosedByUser(c) # {}
          /\ \A x \in C!ClosedByUser(c) : x \in ConnType /\ x.st \in Leaving
      BY <1>3, <2>2 DEF C!ClosedByUser, C!Move, C!To, ConnType, Leaving
    <3> QED BY <1>4, <3>1
  <2> QED BY <1>3, <2>1, <2>2 DEF Going
<1>6. conns' = [conns EXCEPT ![http.slot] = d]
  BY <1>2, <1>4 DEF ClosedSlot
<1> QED BY <1>1, <1>5, <1>6

LEMMA ClosesKeeps ==
  ASSUME NetInv, NEW q \in HttpSteps, HttpAt(q), NEW e \in -5 .. 0, Closes(e)
  PROVE  NetInv'
<1>1. pc = q
  BY DEF HttpAt, At
<1> QED BY <1>1, ClosedIs, FailsKeeps DEF Closes

\* A step of the get that leaves the connections and the server alone.
LEMMA LookingKeeps ==
  ASSUME NetInv, NEW p \in HttpSteps, NEW q \in HttpSteps, HttpAt(q), Step(p),
         UNCHANGED <<conns, server>>, http' \in HttpType,
         http'.slot = http.slot, http'.len = http.len, http'.why \in {http.why, "deadline"},
         p # "close" => http'.why = None /\ q # "close",
         p \in {"connect", "connected", "send"} => q \in {"connect", "connected", "send"},
         p \in {"look", "read", "close"} => conns[http.slot].st # "SYN_SENT",
         p = "read" => http'.seen = conns[http.slot].st
  PROVE  NetInv'
<1>1. UNCHANGED <<ringVars, ipVars, dnsVars, sub, job>> /\ pc' = p /\ pc = q /\ sub = "out"
  BY StepIs
<1>2. ConnInv'
  BY <1>1 DEF NetInv, ConnInv, Getting
<1>3. GetInv'
  BY <1>1 DEF NetInv, GetInv, WholeResponse, BodyLen, HttpSteps, Asking, None
<1> QED BY <1>1, <1>2, <1>3, ClientKeeps

LEMMA FreeSlot ==
  ASSUME NetInv, Free # {}
  PROVE  Lowest(Free) \in 1 .. Conns
<1>1. Free \in SUBSET Nat /\ Free \subseteq 1 .. Conns
  BY DEF Free
<1> HIDE DEF Free
<1> QED BY <1>1, LowestIsLeast

LEMMA HttpConnectKeeps == ASSUME NetInv, HttpConnect PROVE NetInv'
<1>1. HttpAt("resolved") /\ pc = "resolved" /\ http = NoHttp
  BY DEF HttpConnect, HttpAt, At, NetInv, GetInv
<1>2. ASSUME NEW e \in -5 .. 0, Fails(e), UNCHANGED <<conns, server>> PROVE NetInv'
  <2>1. /\ conns \in [1 .. Conns -> ConnType]
        /\ \A i \in 1 .. Conns : conns[i].st \in Leaving
    BY <1>1 DEF NetInv, ConnInv, Getting, HttpSteps
  <2> QED BY <1>1, <1>2, <2>1, FailsKeeps
<1>3. CASE /\ Free # {}
           /\ conns' = [conns EXCEPT ![Lowest(Free)] = [st |-> "SYN_SENT", unread |-> 0]]
           /\ server' \in {[total |-> s[1], stated |-> s[2], sent |-> 0] : s \in Servers}
           /\ http' = [http EXCEPT !.slot = Lowest(Free), !.left = Rounds]
           /\ Step("connect")
  <2>1. PICK k \in 1 .. Conns : k = Lowest(Free)
    BY <1>3, FreeSlot
  <2>2. UNCHANGED <<ringVars, ipVars, dnsVars, sub, job>> /\ pc' = "connect" /\ sub = "out"
    BY <1>1, <1>3 DEF HttpAt, At, Step
  <2>3. http' = [slot |-> k, left |-> Rounds, len |-> 0, seen |-> None, error |-> 0, why |-> None]
    BY <1>1, <1>3, <2>1 DEF NoHttp
  <2>4. http' \in HttpType
    BY <2>3, Sizes DEF HttpType
  <2>5. /\ server' \in [total : Nat, stated : Int, sent : Nat] /\ server'.sent = 0
        /\ server'.sent <= server'.total
    BY <1>3, HttpAssumption
  <2>6. /\ conns \in [1 .. Conns -> ConnType]
        /\ \A i \in 1 .. Conns : conns[i].st \in Leaving
    BY <1>1 DEF NetInv, ConnInv, Getting, HttpSteps
  <2>7. [st |-> "SYN_SENT", unread |-> 0] \in ConnType
    BY Sizes DEF ConnType, Going
  <2>8. /\ conns' \in [1 .. Conns -> ConnType]
        /\ conns'[k] = [st |-> "SYN_SENT", unread |-> 0]
        /\ \A i \in 1 .. Conns : i # k => conns'[i] = conns[i]
    BY <1>3, <2>1, <2>6, <2>7
  <2>9. ConnInv'
    BY <2>2, <2>3, <2>4, <2>5, <2>6, <2>8 DEF ConnInv, Getting, Going, HttpSteps
  <2>10. GetInv'
    BY <2>2, <2>3, <2>5, <2>8 DEF GetInv, WholeResponse, None, Asking, HttpSteps
  <2> QED BY <1>1, <2>2, <2>9, <2>10, ClientKeeps DEF HttpSteps
<1> QED BY <1>2, <1>3 DEF HttpConnect

LEMMA HttpAwaitKeeps == ASSUME NetInv, HttpAwait PROVE NetInv'
<1>1. HttpAt("connect") /\ pc = "connect" /\ UNCHANGED <<conns, server>> /\ http \in HttpType
      /\ http.why = None /\ http.slot \in 1 .. Conns
  BY DEF HttpAwait, HttpAt, At, NetInv, ConnInv, GetInv, HttpSteps
<1>2. CASE Step("connected") /\ UNCHANGED http
  BY <1>1, <1>2, LookingKeeps DEF HttpSteps
<1>3. CASE St = "CLOSED" /\ Fails(-2)
  <2>1. /\ conns \in [1 .. Conns -> ConnType]
        /\ \A i \in 1 .. Conns : conns[i].st \in Leaving
    BY <1>1, <1>3 DEF NetInv, ConnInv, Getting, HttpSteps, St, Leaving
  <2> QED BY <1>1, <1>3, <2>1, FailsKeeps DEF HttpSteps
<1>4. CASE /\ http.left # 0 /\ \E n \in Later(http.left) : http' = [http EXCEPT !.left = n]
           /\ Step("connect")
  <2>1. PICK n \in Later(http.left) : http' = [http EXCEPT !.left = n]
    BY <1>4
  <2>2. http.left \in Nat /\ n \in 0 .. Rounds
    BY <1>1, <2>1, Sizes DEF HttpType, Later
  <2>3. http' \in HttpType /\ http'.slot = http.slot /\ http'.len = http.len /\ http'.why = http.why
    BY <1>1, <2>1, <2>2 DEF HttpType
  <2> QED BY <1>1, <1>4, <2>3, LookingKeeps DEF HttpSteps
<1> QED BY <1>1, <1>2, <1>3, <1>4 DEF HttpAwait

LEMMA HttpConnectedKeeps == ASSUME NetInv, HttpConnected \/ HttpSend PROVE NetInv'
<1>1. PICK q \in {"connected", "send"} : HttpAt(q) /\ pc = q
  BY DEF HttpConnected, HttpSend, HttpAt, At
<1>2. http \in HttpType /\ http.why = None
  BY <1>1 DEF NetInv, ConnInv, GetInv, HttpSteps
<1>3. CASE Closes(-3) \/ Closes(-4)
  BY <1>1, <1>3, ClosesKeeps DEF HttpSteps
<1>4. CASE Step("send") /\ UNCHANGED httpVars
  BY <1>1, <1>2, <1>4, LookingKeeps DEF HttpSteps, httpVars
<1>5. CASE /\ St = "ESTABLISHED" /\ http' = [http EXCEPT !.left = Rounds]
           /\ Step("look") /\ UNCHANGED <<conns, server>>
  <2>1. http' \in HttpType /\ http'.slot = http.slot /\ http'.len = http.len /\ http'.why = http.why
    BY <1>2, <1>5, Sizes DEF HttpType
  <2> QED BY <1>1, <1>2, <1>5, <2>1, LookingKeeps DEF HttpSteps, St
<1> QED BY <1>3, <1>4, <1>5 DEF HttpConnected, HttpSend

LEMMA HttpLookKeeps == ASSUME NetInv, HttpLook \/ HttpDeadline PROVE NetInv'
<1>1. HttpAt("look") /\ pc = "look" /\ UNCHANGED <<conns, server>>
  BY DEF HttpLook, HttpDeadline, HttpAt, At
<1>2. /\ http \in HttpType /\ http.why = None /\ http.slot \in 1 .. Conns
      /\ conns[http.slot].st \in Going \ {"SYN_SENT"}
  BY <1>1 DEF NetInv, ConnInv, GetInv, HttpSteps, Getting
<1>3. CASE http' = [http EXCEPT !.seen = St] /\ Step("read")
  <2>1. /\ http' \in HttpType /\ http'.slot = http.slot /\ http'.len = http.len
        /\ http'.why = http.why /\ http'.seen = conns[http.slot].st
    BY <1>2, <1>3 DEF HttpType, St
  <2> QED BY <1>1, <1>2, <1>3, <2>1, LookingKeeps DEF HttpSteps
<1>4. CASE http' = [http EXCEPT !.why = "deadline"] /\ Step("close")
  <2>1. /\ http' \in HttpType /\ http'.slot = http.slot /\ http'.len = http.len
        /\ http'.why = "deadline"
    BY <1>2, <1>4 DEF HttpType
  <2> QED BY <1>1, <1>2, <1>4, <2>1, LookingKeeps DEF HttpSteps
<1> QED BY <1>3, <1>4 DEF HttpLook, HttpDeadline

LEMMA HttpCloseKeeps == ASSUME NetInv, HttpClose PROVE NetInv'
BY ClosesKeeps DEF HttpClose, HttpSteps

\* What is read, and when the get is over: everything the server sent, if it
\* has closed and nothing is left but what did not fit.
LEMMA ReadIs ==
  ASSUME NetInv, HttpRead
  PROVE  \E n \in Nat, len \in 0 .. RespBuf, why \in {None, "complete", "reset", "closed", "full"} :
           /\ len = http.len + n /\ n <= conns[http.slot].unread
           /\ conns' = [conns EXCEPT ![http.slot] = C!Took(conns[http.slot], n)]
           /\ server' = server
           /\ \/ /\ why = None /\ Step("look")
                 /\ \E l \in 0 .. Rounds : http' = [http EXCEPT !.len = len, !.left = l]
              \/ /\ why # None /\ Step("close")
                 /\ http' = [http EXCEPT !.len = len, !.why = why]
           /\ why = "complete" => (IF len > 1 THEN len - 1 ELSE 0) >= server.stated
           /\ why = "closed" => len = Lowest({server.total, RespBuf})
<1>1. HttpAt("read") /\ pc = "read"
  BY DEF HttpRead, HttpAt, At
<1>2. /\ http \in HttpType /\ http.slot \in 1 .. Conns /\ conns[http.slot] \in ConnType
      /\ conns[http.slot].st \in Going \ {"SYN_SENT"}
      /\ server \in [total : Nat, stated : Int, sent : Nat]
      /\ conns[http.slot].st \in {"ESTABLISHED", "CLOSE_WAIT"} =>
            http.len + conns[http.slot].unread = server.sent
      /\ conns[http.slot].st = "CLOSE_WAIT" => server.sent = server.total
      /\ http.seen \in {"CLOSE_WAIT", "CLOSED"} => conns[http.slot].st \in {"CLOSE_WAIT", "CLOSED"}
  BY <1>1 DEF NetInv, ConnInv, GetInv, HttpSteps, Getting
<1>3. PICK c : c = conns[http.slot]
  OBVIOUS
<1>4. PICK n : n = IF c.st \notin C!Readable THEN 0 ELSE Lowest({c.unread, Space})
  OBVIOUS
<1>5. PICK len : len = http.len + n
  OBVIOUS
<1>6. PICK why : why = IF Complete(len) THEN "complete"
                       ELSE IF http.seen \in {"CLOSE_WAIT", "CLOSED"}
                            THEN IF c.st = "CLOSED" THEN "reset" ELSE "closed"
                       ELSE IF len >= RespBuf THEN "full" ELSE None
  OBVIOUS
<1>7. /\ conns' = [conns EXCEPT ![http.slot] = C!Took(@, n)]
      /\ IF why = None
         THEN /\ \E l \in Left(n) : http' = [http EXCEPT !.len = len, !.left = l]
              /\ Step("look")
         ELSE http' = [http EXCEPT !.len = len, !.why = why] /\ Step("close")
      /\ server' = server
  BY <1>3, <1>4, <1>5, <1>6 DEF HttpRead
<1>8. /\ c.unread \in Nat /\ http.len \in 0 .. RespBuf /\ http.left \in 0 .. Rounds
      /\ Space = RespBuf - http.len /\ Space \in Nat /\ RespBuf \in Nat /\ Rounds \in Nat
  BY <1>2, <1>3, Sizes DEF ConnType, HttpType, Space
<1>9. Lowest({c.unread, Space}) = IF c.unread < Space THEN c.unread ELSE Space
  <2>1. PICK a \in Nat, b \in Nat : a = c.unread /\ b = Space
    BY <1>8
  <2> QED BY <2>1, LowestOfTwo
<1>10. n \in Nat /\ n <= c.unread /\ n <= Space
  BY <1>4, <1>8, <1>9
<1>11. len \in 0 .. RespBuf
  BY <1>5, <1>8, <1>10
<1>12. \A l \in Left(n) : l \in 0 .. Rounds
  BY <1>8 DEF Left, Later
<1>13. why = "complete" => (IF len > 1 THEN len - 1 ELSE 0) >= server.stated
  <2> SUFFICES ASSUME why = "complete" PROVE (IF len > 1 THEN len - 1 ELSE 0) >= server.stated
    OBVIOUS
  <2>1. Complete(len)
    BY <1>6 DEF None
  <2>2. Stated(len) >= 0 /\ len >= 1 + Stated(len)
    BY <2>1 DEF Complete
  <2>3. server.stated \in Int
    BY <1>2
  <2>4. CASE len >= 1
    BY <1>11, <2>2, <2>3, <2>4, Sizes DEF Stated
  <2>5. CASE ~(len >= 1)
    BY <2>2, <2>5 DEF Stated
  <2> QED BY <2>4, <2>5
<1>14. why = "closed" => len = Lowest({server.total, RespBuf})
  <2> SUFFICES ASSUME why = "closed" PROVE len = Lowest({server.total, RespBuf})
    OBVIOUS
  <2>1. c.st = "CLOSE_WAIT"
    BY <1>2, <1>3, <1>6 DEF None
  <2>2. n = Lowest({c.unread, Space})
    BY <1>4, <2>1 DEF C!Readable
  <2>3. PICK total \in Nat : total = server.total
    BY <1>2
  <2>4. http.len + c.unread = total
    BY <1>2, <1>3, <2>1, <2>3
  <2>5. len = IF total < RespBuf THEN total ELSE RespBuf
    BY <1>5, <1>8, <1>9, <2>2, <2>4
  <2>6. Lowest({total, RespBuf}) = IF total < RespBuf THEN total ELSE RespBuf
    BY <1>8, LowestOfTwo
  <2> QED BY <2>3, <2>5, <2>6
<1>15. why \in {None, "complete", "reset", "closed", "full"}
  BY <1>6
<1>16. conns' = [conns EXCEPT ![http.slot] = C!Took(conns[http.slot], n)]
  BY <1>2, <1>7
<1>17. \/ /\ why = None /\ Step("look")
          /\ \E l \in 0 .. Rounds : http' = [http EXCEPT !.len = len, !.left = l]
       \/ /\ why # None /\ Step("close")
          /\ http' = [http EXCEPT !.len = len, !.why = why]
  BY <1>7, <1>12
<1>18. len = http.len + n /\ n <= conns[http.slot].unread /\ server' = server
  BY <1>3, <1>5, <1>7, <1>10
<1> QED BY <1>10, <1>11, <1>13, <1>14, <1>15, <1>16, <1>17, <1>18

LEMMA HttpReadKeeps == ASSUME NetInv, HttpRead PROVE NetInv'
<1>1. HttpAt("read") /\ pc = "read"
  BY DEF HttpRead, HttpAt, At
<1>2. PICK n \in Nat, len \in 0 .. RespBuf, why \in {None, "complete", "reset", "closed", "full"} :
         /\ len = http.len + n /\ n <= conns[http.slot].unread
         /\ conns' = [conns EXCEPT ![http.slot] = C!Took(conns[http.slot], n)]
         /\ server' = server
         /\ \/ /\ why = None /\ Step("look")
               /\ \E l \in 0 .. Rounds : http' = [http EXCEPT !.len = len, !.left = l]
            \/ /\ why # None /\ Step("close")
               /\ http' = [http EXCEPT !.len = len, !.why = why]
         /\ why = "complete" => (IF len > 1 THEN len - 1 ELSE 0) >= server.stated
         /\ why = "closed" => len = Lowest({server.total, RespBuf})
  BY ReadIs
<1>3. /\ http \in HttpType /\ http.why = None /\ http.slot \in 1 .. Conns
      /\ conns \in [1 .. Conns -> ConnType]
      /\ conns[http.slot].st \in Going \ {"SYN_SENT"}
      /\ server \in [total : Nat, stated : Int, sent : Nat] /\ server.sent <= server.total
      /\ conns[http.slot].st \in {"ESTABLISHED", "CLOSE_WAIT"} =>
            http.len + conns[http.slot].unread = server.sent
      /\ conns[http.slot].st = "CLOSE_WAIT" => server.sent = server.total
      /\ \A i \in 1 .. Conns : i # http.slot => conns[i].st \in Leaving
  BY <1>1 DEF NetInv, ConnInv, GetInv, HttpSteps, Getting
<1>4. /\ http' \in HttpType /\ http'.slot = http.slot /\ http'.len = len /\ http'.why = why
  BY <1>2, <1>3 DEF HttpType
<1>5. /\ UNCHANGED <<ringVars, ipVars, dnsVars, sub, job>> /\ sub = "out"
      /\ pc' \in {"look", "close"} /\ (pc' = "look" => why = None)
  BY <1>1, <1>2 DEF Step, HttpAt, At
<1>6. PICK d : d = C!Took(conns[http.slot], n)
  OBVIOUS
<1>7. conns[http.slot] \in ConnType /\ conns[http.slot].unread \in 0 .. RecvBuf
  BY <1>3 DEF ConnType
<1>8. conns[http.slot].unread - n \in 0 .. RecvBuf
  <2>1. PICK u : u = conns[http.slot].unread
    OBVIOUS
  <2>2. u \in 0 .. RecvBuf /\ n \in Nat /\ n <= u
    BY <1>2, <1>7, <2>1
  <2> QED BY <2>1, <2>2, Sizes
<1>9. d \in ConnType /\ d.st = conns[http.slot].st /\ d.unread = conns[http.slot].unread - n
  <2>1. PICK c \in ConnType : c = conns[http.slot]
    BY <1>7
  <2>2. d = [c EXCEPT !.unread = c.unread - n]
    BY <1>6, <2>1 DEF C!Took
  <2> QED BY <1>8, <2>1, <2>2 DEF ConnType
<1>10. /\ conns' \in [1 .. Conns -> ConnType] /\ conns'[http.slot] = d
       /\ \A i \in 1 .. Conns : i # http.slot => conns'[i] = conns[i]
  <2>1. conns' = [conns EXCEPT ![http.slot] = d]
    BY <1>2, <1>6
  <2> QED BY <1>3, <1>9, <2>1
<1>11. ConnInv'
  <2>1. \A i \in 1 .. Conns : conns'[i].st \in (IF i = http.slot THEN Going ELSE Leaving)
    BY <1>3, <1>9, <1>10
  <2>2. \A i : Getting(i)' <=> i = http.slot
    BY <1>4, <1>5 DEF Getting, HttpSteps
  <2>3. server' \in [total : Nat, stated : Int, sent : Nat] /\ server'.sent <= server'.total
    BY <1>2, <1>3
  <2> QED BY <1>4, <1>10, <2>1, <2>2, <2>3 DEF ConnInv
<1>12. conns[http.slot].st \in {"ESTABLISHED", "CLOSE_WAIT"} => len + d.unread = server.sent
  <2>1. http.len \in 0 .. RespBuf
    BY <1>3 DEF HttpType
  <2>2. PICK u \in Nat, h \in Nat : u = conns[http.slot].unread /\ h = http.len
    BY <1>7, <2>1, Sizes
  <2>3. d.unread = u - n /\ len = h + n /\ n \in Nat
    BY <1>2, <1>9, <2>2
  <2>4. len + d.unread = h + u
    BY <2>2, <2>3
  <2> QED BY <1>3, <2>2, <2>4
<1>13. GetInv'
  <2>1. WholeResponse'
    BY <1>2, <1>4 DEF WholeResponse, BodyLen
  <2>2. /\ http'.slot \in 1 .. Conns
        /\ pc' # "close" => http'.why = None
        /\ conns'[http'.slot].st \in {"ESTABLISHED", "CLOSE_WAIT"} /\ pc' # "close" =>
             http'.len + conns'[http'.slot].unread = server'.sent
        /\ conns'[http'.slot].st = "CLOSE_WAIT" => server'.sent = server'.total
        /\ conns'[http'.slot].st # "SYN_SENT"
    BY <1>2, <1>3, <1>4, <1>5, <1>9, <1>10, <1>12
  <2> QED BY <1>5, <2>1, <2>2 DEF GetInv, Asking
<1> QED BY <1>1, <1>5, <1>11, <1>13, ClientKeeps DEF HttpSteps

----------------------------------------------------------------------------
(* The peers                                                                 *)

LEMMA PeerOutcome ==
  ASSUME NEW c \in ConnType, NEW d \in C!ByPeer(c), d # c
  PROVE  /\ d \in ConnType
         /\ c.st \in Leaving => d.st \in Leaving /\ d.unread = c.unread
         /\ c.st \in Going => d.st \in Going \ {"SYN_SENT"}
         /\ d.st = "ESTABLISHED" => c.st \in {"SYN_SENT", "ESTABLISHED"}
         /\ d.st = "CLOSE_WAIT" => c.st = "ESTABLISHED"
         /\ c.st \in {"CLOSE_WAIT", "CLOSED"} => d.st = "CLOSED"
         /\ c.st # "ESTABLISHED" => d.unread = c.unread
         /\ d.unread - c.unread \in Nat
<1>1. c.unread \in 0 .. RecvBuf /\ RecvBuf \in Nat /\ c.st \in Leaving \cup Going
      /\ c = [st |-> c.st, unread |-> c.unread]
  BY Sizes DEF ConnType
<1>2. CASE d \in C!Delivered(c)
  <2>1. c.st = "ESTABLISHED" /\ d \in {[st |-> s, unread |-> c.unread + n] :
          s \in {"ESTABLISHED", "CLOSE_WAIT"}, n \in 0 .. RecvBuf - c.unread}
    BY <1>2 DEF C!Delivered
  <2>2. PICK s \in {"ESTABLISHED", "CLOSE_WAIT"}, n \in 0 .. RecvBuf - c.unread :
          d = [st |-> s, unread |-> c.unread + n]
    BY <2>1
  <2>3. c.unread + n \in 0 .. RecvBuf /\ (c.unread + n) - c.unread \in Nat
    BY <1>1
  <2> QED BY <2>1, <2>2, <2>3 DEF ConnType, Leaving, Going
<1>3. ASSUME NEW s, d = C!To(c, s)
      PROVE  d = [st |-> s, unread |-> c.unread] /\ d.st = s /\ d.unread = c.unread
             /\ d.unread - c.unread \in Nat
  BY <1>1, <1>3 DEF C!To
<1>4. CASE d \in C!Answered(c)
  <2>1. PICK s : /\ d = C!To(c, s)
                 /\ <<c.st, s>> \in {<<"LISTEN", "SYN_RECEIVED">>, <<"SYN_SENT", "ESTABLISHED">>,
                      <<"SYN_RECEIVED", "ESTABLISHED">>, <<"FIN_WAIT_1", "FIN_WAIT_2">>,
                      <<"FIN_WAIT_1", "TIME_WAIT">>, <<"FIN_WAIT_1", "CLOSING">>,
                      <<"CLOSING", "TIME_WAIT">>, <<"FIN_WAIT_2", "TIME_WAIT">>,
                      <<"LAST_ACK", "CLOSED">>}
    BY <1>4 DEF C!Answered, C!Move
  <2>2. d = [st |-> s, unread |-> c.unread] /\ d.st = s /\ d.unread = c.unread
        /\ d.unread - c.unread \in Nat
    BY <1>3, <2>1
  <2>3. c.st \notin {"LISTEN", "SYN_RECEIVED"}
    BY <1>1 DEF Leaving, Going
  <2>4. \/ c.st = "SYN_SENT" /\ s = "ESTABLISHED"
        \/ /\ c.st \in {"FIN_WAIT_1", "FIN_WAIT_2", "CLOSING", "LAST_ACK"}
           /\ s \in {"FIN_WAIT_2", "TIME_WAIT", "CLOSING", "CLOSED"}
    BY <2>1, <2>3
  <2>5. d \in ConnType
    BY <1>1, <2>2, <2>4 DEF ConnType, Leaving, Going
  <2> QED BY <2>2, <2>4, <2>5 DEF Leaving, Going
<1>5. CASE d \in C!Dropped(c) \cup C!GaveUp(c)
  <2>1. d = C!To(c, "CLOSED") /\ c.st # "CLOSED"
    BY <1>5 DEF C!Dropped, C!GaveUp, C!Timed
  <2>2. d = [st |-> "CLOSED", unread |-> c.unread] /\ d.st = "CLOSED" /\ d.unread = c.unread
        /\ d.unread - c.unread \in Nat
    BY <1>3, <2>1
  <2>3. d \in ConnType
    BY <1>1, <2>2 DEF ConnType, Leaving
  <2> QED BY <2>1, <2>2, <2>3 DEF Leaving, Going
<1> QED BY <1>2, <1>4, <1>5 DEF C!ByPeer

LEMMA PeerMovesKeeps == ASSUME NetInv, NEW i \in 1 .. Conns, PeerMoves(i) PROVE NetInv'
<1>1. PICK d \in C!ByPeer(conns[i]) :
        /\ d # conns[i] /\ conns' = [conns EXCEPT ![i] = d]
        /\ IF i # http.slot THEN UNCHANGED server
           ELSE /\ server' = [server EXCEPT !.sent = @ + (d.unread - conns[i].unread)]
                /\ server'.sent <= server.total
                /\ d.st = "CLOSE_WAIT" => server'.sent = server.total
  BY DEF PeerMoves
<1>2. UNCHANGED netVars /\ http' = http
  BY DEF PeerMoves
<1>3. PICK c \in ConnType : c = conns[i]
  BY DEF NetInv, ConnInv
<1>4. /\ d \in ConnType
      /\ c.st \in Leaving => d.st \in Leaving /\ d.unread = c.unread
      /\ c.st \in Going => d.st \in Going \ {"SYN_SENT"}
      /\ d.st = "ESTABLISHED" => c.st \in {"SYN_SENT", "ESTABLISHED"}
      /\ d.st = "CLOSE_WAIT" => c.st = "ESTABLISHED"
      /\ c.st \in {"CLOSE_WAIT", "CLOSED"} => d.st = "CLOSED"
      /\ c.st # "ESTABLISHED" => d.unread = c.unread
      /\ d.unread - c.unread \in Nat
  BY <1>1, <1>3, PeerOutcome
<1>5. /\ conns \in [1 .. Conns -> ConnType] /\ http \in HttpType
      /\ server \in [total : Nat, stated : Int, sent : Nat] /\ server.sent <= server.total
      /\ \A k \in 1 .. Conns : conns[k].st \in (IF Getting(k) THEN Going ELSE Leaving)
  BY DEF NetInv, ConnInv
<1>6. /\ conns' \in [1 .. Conns -> ConnType] /\ conns'[i] = d
      /\ \A k \in 1 .. Conns : k # i => conns'[k] = conns[k]
  BY <1>1, <1>4, <1>5
<1>7. /\ server' \in [total : Nat, stated : Int, sent : Nat] /\ server'.sent <= server'.total
      /\ server'.total = server.total /\ server'.stated = server.stated
      /\ i = http.slot => server'.sent = server.sent + (d.unread - c.unread)
      /\ i # http.slot => server'.sent = server.sent
  BY <1>1, <1>3, <1>4, <1>5
<1>8. pc' = pc /\ job' = job /\ \A k : Getting(k)' <=> Getting(k)
  BY <1>2 DEF netVars, taskVars, Getting
<1>9. ConnInv'
  BY <1>2, <1>3, <1>4, <1>5, <1>6, <1>7, <1>8 DEF ConnInv
<1>10. GetInv'
  <2>1. WholeResponse'
    BY <1>2, <1>7 DEF NetInv, GetInv, WholeResponse, BodyLen
  <2>2. pc \in Asking \cup {"resolved"} /\ job.by = "http" => http = NoHttp
    BY DEF NetInv, GetInv
  <2>3. CASE pc \notin HttpSteps
    BY <1>2, <1>8, <2>1, <2>2, <2>3 DEF GetInv
  <2>4. CASE pc \in HttpSteps /\ i # http.slot
    BY <1>2, <1>6, <1>7, <1>8, <2>1, <2>2, <2>4 DEF NetInv, GetInv
  <2>5. CASE pc \in HttpSteps /\ i = http.slot
    <3>1. /\ http.slot \in 1 .. Conns
          /\ pc # "close" => http.why = None
          /\ c.st \in {"ESTABLISHED", "CLOSE_WAIT"} /\ pc # "close" => http.len + c.unread = server.sent
          /\ c.st = "SYN_SENT" => c.unread = 0 /\ server.sent = 0 /\ http.len = 0
          /\ pc \in {"connect", "connected", "send"} => http.len = 0
          /\ pc = "read" /\ http.seen \in {"CLOSE_WAIT", "CLOSED"} => c.st \in {"CLOSE_WAIT", "CLOSED"}
      BY <1>3, <2>5 DEF NetInv, GetInv
    <3>2. c.st \in Going
      BY <1>3, <1>5, <2>5 DEF Getting
    <3>3. d.st \in Going \ {"SYN_SENT"} /\ conns'[http'.slot] = d /\ http'.slot = http.slot
      BY <1>2, <1>4, <1>6, <2>5, <3>2
    <3>4. server'.sent = server.sent + (d.unread - c.unread)
      BY <1>7, <2>5
    <3>5. d.st \in {"ESTABLISHED", "CLOSE_WAIT"} /\ pc # "close" => http.len + d.unread = server'.sent
      <4>1. /\ http.len \in Nat /\ server.sent \in Nat /\ c.unread \in Nat /\ d.unread \in Nat
        BY <1>4, <1>5, Sizes DEF HttpType, ConnType
      <4>2. d.st \in {"ESTABLISHED", "CLOSE_WAIT"} /\ pc # "close" => http.len + c.unread = server.sent
        BY <1>4, <3>1, <4>1
      <4> QED BY <3>4, <4>1, <4>2
    <3>6. d.st = "CLOSE_WAIT" => server'.sent = server'.total
      BY <1>1, <1>7, <2>5
    <3>7. pc = "read" /\ http.seen \in {"CLOSE_WAIT", "CLOSED"} => d.st = "CLOSED"
      BY <1>4, <3>1
    <3> QED BY <1>2, <1>8, <2>1, <2>2, <3>1, <3>3, <3>5, <3>6, <3>7 DEF GetInv
  <2> QED BY <2>3, <2>4, <2>5
<1>11. /\ UNCHANGED <<ring, cardAt, rxOffset, rxBuf, arp, cfg, binds, dhcp, asked, granted>>
       /\ UNCHANGED <<dns, cache, result, now, pc, sub, job>>
  BY <1>2 DEF netVars, ringVars, ipVars, dnsVars, taskVars
<1>12. WireInv' /\ ArpShape' /\ TaskInv' /\ LeaseInv'
  <2>1. dns.id \in Nat /\ dns.id <= dns'.id /\ asked' \ asked = {}
    BY <1>11, Sizes DEF NetInv, CacheInv, DnsType
  <2> QED BY <1>11, <2>1, WireStays, LeaseStays DEF NetInv, ArpShape, TaskInv
<1>13. PortInv' /\ CacheInv'
  BY <1>11, PortStays, CacheStays DEF NetInv, CacheInv
<1> QED BY <1>9, <1>10, <1>12, <1>13 DEF NetInv

----------------------------------------------------------------------------
(* The invariant                                                             *)

LEMMA NetStarts == HttpInit => NetInv
<1> SUFFICES ASSUME HttpInit PROVE NetInv
  OBVIOUS
<1> USE DEF HttpInit, Init
<1>1. WireInv
  BY Sizes DEF WireInv, GoodFrame
<1>2. ArpShape
  BY DEF ArpShape
<1>3. TaskInv
  <2>1. NoJob \in JobType
    BY Sizes DEF NoJob, JobType, Askable, Addresses
  <2> QED BY <2>1 DEF TaskInv, Steps, Waits
<1>4. LeaseInv
  BY DEF LeaseInv, Addresses, Leasing
<1>5. PortInv
  BY Sizes DEF PortInv, Booted
<1>6. CacheInv
  <2>1. dns \in DnsType
    BY Sizes DEF DnsType
  <2>2. result.why # "cache"
    BY DEF NoResult, None
  <2> QED BY <2>1, <2>2 DEF CacheInv, CacheOnce, CacheFresh, Asking
<1>7. ConnInv
  <2>1. C!Closed \in ConnType /\ C!Closed.st \in Leaving
    BY Sizes DEF C!Closed, ConnType, Leaving
  <2>2. NoHttp \in HttpType
    BY Sizes DEF NoHttp, HttpType
  <2> QED BY <2>1, <2>2 DEF ConnInv, NoServer, Getting, HttpSteps
<1>8. GetInv
  BY DEF GetInv, WholeResponse, NoHttp, None, HttpSteps
<1> QED BY <1>1, <1>2, <1>3, <1>4, <1>5, <1>6, <1>7, <1>8 DEF NetInv

LEMMA NetStutters == ASSUME NetInv, UNCHANGED vars PROVE NetInv'
<1>1. /\ UNCHANGED <<ring, cardAt, rxOffset, rxBuf, arp, cfg, binds, dhcp, asked, granted>>
      /\ UNCHANGED <<dns, cache, result, now, pc, sub, job, httpVars>>
  BY DEF vars, netVars, ringVars, ipVars, dnsVars, taskVars
<1>2. WireInv' /\ ArpShape' /\ TaskInv' /\ LeaseInv'
  <2>1. dns.id \in Nat /\ dns.id <= dns'.id /\ asked' \ asked = {}
    BY <1>1, Sizes DEF NetInv, CacheInv, DnsType
  <2> QED BY <1>1, <2>1, WireStays, LeaseStays DEF NetInv, ArpShape, TaskInv
<1>3. PortInv' /\ CacheInv' /\ ConnInv' /\ GetInv'
  BY <1>1, PortStays, CacheStays, ConnStays, GetStays DEF NetInv, CacheInv
<1> QED BY <1>2, <1>3 DEF NetInv

LEMMA NetStep == NetInv /\ [HttpNext]_vars => NetInv'
<1> SUFFICES ASSUME NetInv, [HttpNext]_vars PROVE NetInv'
  OBVIOUS
<1>1. CASE Next /\ UNCHANGED httpVars
  <2>1. CASE Poll
    BY <1>1, <2>1, PollTaskKeeps
  <2>2. CASE NetPoll
    BY <1>1, <2>2, NetPollKeeps
  <2>3. CASE Commands
    BY <1>1, <2>3, DhcpBeginKeeps, CacheFlushKeeps, NslookupKeeps, PingKeeps DEF Commands
  <2>4. CASE Goes
    BY <1>1, <2>4, DhcpRequestKeeps, DhcpEndKeeps, DnsResetKeeps, DnsAskKeeps, DnsAnswerKeeps,
       DnsTimeoutKeeps, PingStepKeeps DEF Goes
  <2>5. CASE Second
    BY <1>1, <2>5, SecondKeeps
  <2>6. CASE \E f \in OnTheWire : Arrives(f)
    BY <1>1, <2>6, ArrivesKeeps
  <2> QED BY <1>1, <2>1, <2>2, <2>3, <2>4, <2>5, <2>6 DEF Next
<1>2. CASE \E u \in Urls : Wget(u)
  BY <1>2, WgetKeeps
<1>3. CASE HttpGoes
  BY <1>3, HttpConnectKeeps, HttpAwaitKeeps, HttpConnectedKeeps, HttpLookKeeps, HttpReadKeeps,
     HttpCloseKeeps DEF HttpGoes
<1>4. CASE \E i \in 1 .. Conns : PeerMoves(i)
  BY <1>4, PeerMovesKeeps
<1>5. CASE UNCHANGED vars
  BY <1>5, NetStutters
<1> QED BY <1>1, <1>2, <1>3, <1>4, <1>5 DEF HttpNext

(***************************************************************************)
(* The network, the resolver and the client keep NetInv, whoever polls, and  *)
(* at whichever of the Windows.                                              *)
(***************************************************************************)
THEOREM NetInvariant == HttpSpec => []NetInv
BY NetStarts, NetStep, PTL DEF HttpSpec

(***************************************************************************)
(* An address in use was leased and acknowledged, and who waits for an answer *)
(* of DHCP or of the name server has its port bound (ip.c, udp_bind).        *)
(***************************************************************************)
THEOREM AddressesAreLeased == HttpSpec => []DhcpSound
<1>1. NetInv => DhcpSound
  <2> SUFFICES ASSUME NetInv PROVE DhcpSound
    OBVIOUS
  <2>1. LeaseAcked
    BY DEF NetInv, LeaseInv, LeaseAcked
  <2>2. PortsHeard
    <3>1. TaskInv /\ PortInv
      BY DEF NetInv
    <3>2. CASE Booted
      BY <3>1, <3>2 DEF PortInv, PortsHeard
    <3>3. CASE pc = "boot"
      BY <3>1, <3>3 DEF PortInv, PortsHeard, Booted
    <3>4. CASE pc \in {"bootOffer", "bootAck"}
      BY <3>1, <3>4 DEF PortInv, PortsHeard, Booted
    <3> QED BY <3>2, <3>3, <3>4 DEF Booted
  <2> QED BY <2>1, <2>2 DEF DhcpSound
<1> QED BY <1>1, NetInvariant, PTL

(***************************************************************************)
(* A get that ends because the server has closed has the whole response, and *)
(* no connection of a get outlives it (http.c, http_get).                    *)
(***************************************************************************)
THEOREM GetsAreWhole == HttpSpec => []GetSound
<1>1. NetInv => GetSound
  <2> SUFFICES ASSUME NetInv PROVE GetSound
    OBVIOUS
  <2>1. WholeResponse
    BY DEF NetInv, GetInv
  <2>2. ConnectionsReleased
    BY DEF NetInv, ConnInv, Getting, HttpSteps, Leaving, ConnectionsReleased
  <2> QED BY <2>1, <2>2 DEF GetSound
<1> QED BY <1>1, NetInvariant, PTL

----------------------------------------------------------------------------
(* The ARP cache, with netpoll kept out between the choice of an entry and    *)
(* its use                                                                    *)

LEMMA StoredTrue ==
  ASSUME ArpShape, ArpTruth, NEW ip, NEW mac, <<ip, mac>> \in Hosts,
         arp' = ArpStored(arp, ArpSlot(ip), ip, mac)
  PROVE  ArpTruth'
<1>1. PICK k \in 1 .. ArpSlots : k = ArpSlot(ip)
  BY ArpSlotIs
<1>2. (\E i \in 1 .. ArpSlots : arp[i].ip = ip) => arp[k].ip = ip
  BY <1>1, ArpSlotIs
<1>3. PICK e : e = [ip |-> ip, mac |-> mac]
  OBVIOUS
<1>4. e.ip = ip /\ e.mac = mac /\ ip # None
  <2>1. <<ip, mac>>[1] # None
    BY WireAssumption
  <2> QED BY <1>3, <2>1
<1>5. DOMAIN arp = 1 .. ArpSlots /\ DOMAIN arp' = 1 .. ArpSlots
      /\ arp'[k] = e /\ \A i \in 1 .. ArpSlots : i # k => arp'[i] = arp[i]
  BY <1>1, <1>3 DEF ArpShape, ArpStored
<1>6. \A i \in 1 .. ArpSlots : i # k => arp[i].ip # ip
  <2> SUFFICES ASSUME NEW i \in 1 .. ArpSlots, arp[i].ip = ip PROVE i = k
    OBVIOUS
  <2>1. arp[k].ip = ip /\ arp[i] # NoArp
    BY <1>2, <1>4 DEF NoArp
  <2> QED BY <1>5, <2>1 DEF ArpTruth
<1> SUFFICES ASSUME NEW i \in 1 .. ArpSlots, arp'[i] # NoArp
             PROVE  /\ <<arp'[i].ip, arp'[i].mac>> \in Hosts
                    /\ \A j \in 1 .. ArpSlots : arp'[j].ip = arp'[i].ip => i = j
  BY <1>5 DEF ArpTruth
<1>7. CASE i = k
  <2>1. <<arp'[i].ip, arp'[i].mac>> \in Hosts
    BY <1>4, <1>5, <1>7
  <2>2. \A j \in 1 .. ArpSlots : arp'[j].ip = arp'[i].ip => i = j
    BY <1>4, <1>5, <1>6, <1>7
  <2> QED BY <2>1, <2>2
<1>8. CASE i # k
  <2>1. arp'[i] = arp[i] /\ arp[i] # NoArp
    BY <1>5, <1>8
  <2>2. <<arp[i].ip, arp[i].mac>> \in Hosts
        /\ \A j \in 1 .. ArpSlots : arp[j].ip = arp[i].ip => i = j
    BY <1>5, <2>1 DEF ArpTruth
  <2>3. ASSUME NEW j \in 1 .. ArpSlots, arp'[j].ip = arp'[i].ip PROVE i = j
    <3>1. j # k
      BY <1>4, <1>5, <1>6, <1>8, <2>1, <2>3
    <3> QED BY <1>5, <2>1, <2>2, <2>3, <3>1
  <2> QED BY <2>1, <2>2, <2>3
<1> QED BY <1>7, <1>8

LEMMA ArpStays ==
  ASSUME ArpInv, arp' = arp, sub' # "caching" \/ UNCHANGED <<sub, rxBuf, job>>
  PROVE  ArpInv'
BY DEF ArpInv, ArpTruth, ArpSlot

LEMMA ArpStep ==
  ASSUME "caching" \notin Windows, NetInv, ArpInv, [HttpNext]_vars
  PROVE  ArpInv'
<1>2. CASE Poll
  <2>1. CASE PollHeader \/ PollCopy
    BY <2>1, ArpStays DEF PollHeader, PollCopy, ipVars
  <2>2. CASE PollHandle
    <3>1. GoodFrame(rxBuf, asked, granted) /\ Handle(rxBuf) /\ pc' = pc /\ rxBuf.kind # "arp"
          /\ sub' = "out"
      BY <2>2 DEF NetInv, WireInv, PollHandle
    <3>2. arp' = arp
      BY <3>1, HandleEffect
    <3> QED BY <3>1, <3>2, ArpStays
  <2>3. CASE PollArpSlot
    BY <2>3 DEF PollArpSlot, ArpInv, ArpTruth, ArpSlot, ringVars, ipVars, NetInv, TaskInv, JobType
  <2>4. CASE PollArpStore
    <3>1. /\ rxBuf.kind = "arp" /\ job.slot = ArpSlot(rxBuf.from) /\ sub' = "out"
          /\ arp' = ArpStored(arp, ArpSlot(rxBuf.from), rxBuf.from, rxBuf.val)
      BY <2>4 DEF PollArpStore, ArpInv
    <3>2. <<rxBuf.from, rxBuf.val>> \in Hosts
      BY <3>1 DEF NetInv, WireInv, GoodFrame, Blank, Frame, None
    <3>3. ArpTruth'
      BY <3>1, <3>2, StoredTrue DEF NetInv, ArpInv
    <3> QED BY <3>1, <3>3 DEF ArpInv
  <2> QED BY <1>2, <2>1, <2>2, <2>3, <2>4 DEF Poll
<1>3. CASE NetPoll
  <2>1. PICK f : f = ring[rxOffset] /\ GoodFrame(f, asked, granted)
    BY DEF NetInv, WireInv
  <2>2. Handle(f) /\ pc' = pc /\ sub' = sub /\ sub # "caching"
    BY <1>3, <2>1 DEF NetPoll, taskVars
  <2>3. \/ arp' = arp
        \/ f.kind = "arp" /\ arp' = ArpStored(arp, ArpSlot(f.from), f.from, f.val)
    BY <2>1, <2>2, HandleEffect
  <2>4. ArpTruth'
    <3>1. CASE arp' = arp
      BY <3>1 DEF ArpInv, ArpTruth
    <3>2. CASE f.kind = "arp" /\ arp' = ArpStored(arp, ArpSlot(f.from), f.from, f.val)
      <4>1. <<f.from, f.val>> \in Hosts
        BY <2>1, <3>2 DEF GoodFrame, Blank, Frame, None
      <4> QED BY <3>2, <4>1, StoredTrue DEF NetInv, ArpInv
    <3> QED BY <2>3, <3>1, <3>2
  <2> QED BY <2>2, <2>4 DEF ArpInv
<1>4. CASE Commands \/ Goes
  <2>1. arp' = arp
    BY <1>4 DEF Commands, Goes, BootDhcp, Dhcp, DhcpBegin, CacheFlush, Nslookup, Resolve, Ping,
       DhcpRequest, DhcpEnd, DnsReset, DnsAsk, DnsAnswer, DnsTimeout, PingSend, PingDone, ipVars
  <2>2. sub' = sub /\ sub = "out"
    BY <1>4 DEF Commands, Goes, BootDhcp, Dhcp, DhcpBegin, CacheFlush, Nslookup, Resolve, Ping,
       DhcpRequest, DhcpEnd, DnsReset, DnsAsk, DnsAnswer, DnsTimeout, PingSend, PingDone,
       Command, At, Leave
  <2> QED BY <2>1, <2>2, ArpStays
<1>5. CASE Second \/ \E f \in OnTheWire : Arrives(f)
  <2>1. UNCHANGED <<arp, sub, rxBuf, job>>
    BY <1>5 DEF Second, Arrives, ipVars, ringVars, taskVars
  <2> QED BY <2>1, ArpStays
<1>6. CASE (\E u \in Urls : Wget(u)) \/ HttpGoes
  <2>1. arp' = arp /\ sub' = sub /\ sub = "out"
    BY <1>6 DEF Wget, Command, At, Resolve, HttpGoes, HttpConnect, HttpAwait, HttpConnected,
       HttpSend, HttpLook, HttpRead, HttpDeadline, HttpClose, Closes, Fails, Ends, Step, HttpAt, ipVars
  <2> QED BY <2>1, ArpStays
<1>7. CASE (\E i \in 1 .. Conns : PeerMoves(i)) \/ UNCHANGED vars
  <2>1. UNCHANGED <<arp, sub, rxBuf, job>>
    BY <1>7 DEF PeerMoves, vars, netVars, ipVars, ringVars, taskVars
  <2> QED BY <2>1, ArpStays
<1> QED BY <1>2, <1>3, <1>4, <1>5, <1>6, <1>7 DEF HttpNext, Next

LEMMA ArpStarts == HttpInit => ArpInv
BY DEF HttpInit, Init, ArpInv, ArpTruth

(***************************************************************************)
(* The tables are well-formed; with netpoll kept out of arp_cache_add, an    *)
(* entry of the ARP cache is what its owner announced, and an address has one *)
(* (ip.c, arp_cache_add).  The cache of the resolver holds a name once and    *)
(* gives out no address that is too old (dns.c, dns_cache_lookup).            *)
(***************************************************************************)
THEOREM TablesAreTrue == ASSUME "caching" \notin Windows PROVE HttpSpec => []TablesTrue
<1>1. NetInv /\ ArpInv /\ [HttpNext]_vars => ArpInv'
  BY ArpStep
<1>2. NetInv /\ ArpInv => TablesTrue
  <2> SUFFICES ASSUME NetInv, ArpInv PROVE TablesTrue
    OBVIOUS
  <2>1. \A i \in DOMAIN ring : ring[i].from \in From
    <3>1. \A i \in 0 .. Ring - 1 : GoodFrame(ring[i], asked, granted)
      BY DEF NetInv, WireInv
    <3>2. ASSUME NEW f, GoodFrame(f, asked, granted) PROVE f.from \in From
      <4>1. CASE f = Blank
        BY <4>1 DEF Blank, Frame, From
      <4>2. CASE f.kind = "arp" /\ <<f.from, f.val>> \in Hosts
        <5>1. PICK h \in Hosts : h = <<f.from, f.val>>
          BY <4>2
        <5>2. h[1] = f.from
          BY <5>1
        <5> QED BY <5>2 DEF From, Local
      <4>3. CASE <<f.from, f.val>> \in Leases
        <5>1. PICK l \in Leases : l = <<f.from, f.val>>
          BY <4>3
        <5>2. l[1] = f.from
          BY <5>1
        <5> QED BY <5>2 DEF From
      <4>4. CASE Answered(f.val, f.from)
        BY <4>4 DEF Answered, From, AnswerIps
      <4>5. CASE f.from \in Targets
        BY <4>5 DEF From
      <4> QED BY <3>2, <4>1, <4>2, <4>3, <4>4, <4>5 DEF GoodFrame
    <3>3. DOMAIN ring = 0 .. Ring - 1
      BY DEF NetInv, WireInv
    <3> QED BY <3>1, <3>2, <3>3
  <2>2. \A i \in DOMAIN arp : arp[i].ip = None <=> arp[i].mac = None
    <3>1. ASSUME NEW i \in DOMAIN arp, arp[i] # NoArp PROVE arp[i].ip # None /\ arp[i].mac # None
      <4>1. PICK h \in Hosts : h = <<arp[i].ip, arp[i].mac>>
        BY <3>1 DEF ArpInv, ArpTruth
      <4>2. h[1] = arp[i].ip /\ h[2] = arp[i].mac
        BY <4>1
      <4> QED BY <4>2, WireAssumption
    <3> QED BY <3>1 DEF NoArp
  <2>3. cardAt \in 0 .. Ring - 1 /\ rxOffset \in 0 .. Ring - 1
    BY DEF NetInv, WireInv
  <2>4. Len(binds) <= MaxBinds /\ dhcp.state \in 0 .. 3
    BY DEF NetInv, PortInv, LeaseInv
  <2>5. dns.id \in 0 .. MaxQueries /\ dns.ready \in BOOLEAN
    BY DEF NetInv, CacheInv, DnsType
  <2>6. \A i \in DOMAIN cache : cache[i].ttl \in Nat /\ cache[i].ts \in 0 .. TsWrap - 1
    <3>1. NoName.ttl \in Nat /\ NoName.ts \in 0 .. TsWrap - 1
      BY Sizes DEF NoName
    <3>2. DOMAIN cache = 1 .. CacheSlots
      BY DEF NetInv, CacheInv
    <3>3. \A i \in 1 .. CacheSlots : cache[i] = NoName \/ GoodEntry(cache[i], now)
      BY DEF NetInv, CacheInv
    <3> QED BY <3>1, <3>2, <3>3 DEF GoodEntry, Kept
  <2>7. /\ sub \in {"out", "header", "copied", "caching"}
        /\ job.tries \in 0 .. MaxRetries /\ job.seq \in 0 .. Pings
    BY DEF NetInv, TaskInv, JobType
  <2>8. TypeOK
    BY <2>1, <2>2, <2>3, <2>4, <2>5, <2>6, <2>7 DEF TypeOK, From, AnswerIps
  <2>9. HttpTypeOK
    BY Sizes DEF NetInv, ConnInv, ConnType, HttpType, HttpTypeOK
  <2> QED BY <2>8, <2>9 DEF TablesTrue, NetInv, CacheInv, ArpInv
<1> QED BY <1>1, <1>2, ArpStarts, NetInvariant, PTL DEF HttpSpec

----------------------------------------------------------------------------
(* The answers, with netpoll kept out between the reset and the query         *)

\* Whatever is returned or kept was answered for its name.
LEMMA TruthStays ==
  ASSUME NetInv, AnswerInv,
         \/ result' = result
         \/ result'.ip = None
         \/ IsAddress(result'.name)
         \/ Answered(result'.name, result'.ip)
         \/ \E i \in 1 .. CacheSlots : cache[i] # NoName /\ result' = FromCache(cache[i]),
         cache' = cache \/ (/\ cache' = [i \in 1 .. CacheSlots |-> cache'[i]]
                            /\ \A i \in 1 .. CacheSlots : \/ cache'[i] \in {cache[i], NoName}
                                                          \/ Answered(cache'[i].name, cache'[i].ip))
  PROVE  ResolvedTruth'
<1>1. \A i \in 1 .. CacheSlots : cache[i] # NoName => Answered(cache[i].name, cache[i].ip)
  BY DEF AnswerInv, ResolvedTruth, NetInv, CacheInv
<1>2. DOMAIN cache = 1 .. CacheSlots
  BY DEF NetInv, CacheInv
<1>3. \A i \in DOMAIN cache' : cache'[i] # NoName => Answered(cache'[i].name, cache'[i].ip)
  <2>1. CASE cache' = cache
    BY <1>1, <1>2, <2>1
  <2>2. CASE cache' # cache
    BY <1>1, <2>2
  <2> QED BY <2>1, <2>2
<1>4. result'.ip # None => IsAddress(result'.name) \/ Answered(result'.name, result'.ip)
  <2>1. CASE result' = result
    BY <2>1 DEF AnswerInv, ResolvedTruth
  <2>2. ASSUME NEW i \in 1 .. CacheSlots, cache[i] # NoName, result' = FromCache(cache[i])
        PROVE  Answered(result'.name, result'.ip)
    <3>1. FromCache(cache[i]).name = cache[i].name /\ FromCache(cache[i]).ip = cache[i].ip
      BY DEF FromCache, Returned, NoResult
    <3> QED BY <1>1, <2>2, <3>1
  <2> QED BY <2>1, <2>2
<1>5. \A name, ip : Answered(name, ip)' <=> Answered(name, ip)
  BY DEF Answered
<1>6. \A name : IsAddress(name)' <=> IsAddress(name)
  BY DEF IsAddress
<1> QED BY <1>3, <1>4 DEF ResolvedTruth, Answered, IsAddress

\* A frame is handled while task 0 does not stand between its reset and its query.
LEMMA AnswerHandled ==
  ASSUME NetInv, AnswerInv, NEW f, GoodFrame(f, asked, granted), Handle(f),
         pc # "ask", UNCHANGED <<pc, job>>
  PROVE  AnswerInv'
<1>1. /\ UNCHANGED <<asked, cache, result>> /\ dns'.id = dns.id
      /\ \/ dns' = dns
         \/ /\ f.kind = "answer" /\ Answered(f.val, f.from) /\ AskedFor(asked, f.num, f.val)
            /\ f.num = dns.id /\ dns'.ip = f.from
  BY HandleEffect
<1>2. ResolvedTruth'
  BY <1>1, TruthStays
<1>3. CASE dns' = dns
  BY <1>1, <1>2, <1>3 DEF AnswerInv, Answered
<1>4. CASE /\ Answered(f.val, f.from) /\ AskedFor(asked, f.num, f.val)
           /\ f.num = dns.id /\ dns'.ip = f.from
  <2>1. ASSUME pc = "answer" PROVE Answered(job.name, dns'.ip)
    <3>1. PICK q \in asked : q.kind = "query" /\ q.num = dns.id /\ q.val = f.val
      BY <1>4 DEF AskedFor
    <3>2. q.val = job.name
      BY <2>1, <3>1 DEF AnswerInv
    <3> QED BY <1>4, <3>1, <3>2
  <2> QED BY <1>1, <1>2, <2>1 DEF AnswerInv, Answered
<1> QED BY <1>1, <1>3, <1>4

LEMMA AnswerAsk == ASSUME NetInv, AnswerInv, DnsAsk PROVE AnswerInv'
<1>1. pc = "ask" /\ sub = "out" /\ cache' = cache
  BY DEF DnsAsk, At
<1>2. job.name \in Names /\ ~dns.ready /\ dns.ip = None
  BY <1>1 DEF AnswerInv, Asking
<1>3. CASE /\ result' \in {Returned(job.name, None, "no server"), Returned(job.name, None, "not sent")}
           /\ Leave(Back)
  <2>1. pc' \in {"idle", "resolved"}
    BY <1>1, <1>3, LeaveEffect DEF Asking
  <2>2. result'.ip = None
    BY <1>3 DEF Returned, NoResult
  <2>3. ResolvedTruth'
    BY <1>1, <2>2, TruthStays
  <2> QED BY <2>1, <2>3 DEF AnswerInv, Asking
<1>4. CASE /\ dns' = [dns EXCEPT !.id = @ + 1]
           /\ asked' = asked \cup Sends(cfg.ns, Query(job.name), TRUE).out
           /\ pc' = "answer" /\ UNCHANGED <<job, sub, result>>
  <2>1. dns \in DnsType /\ dns.id \in Nat
    BY Sizes DEF NetInv, CacheInv, DnsType
  <2>2. dns'.id = dns.id + 1 /\ ~dns'.ready
    BY <1>2, <1>4, <2>1 DEF DnsType
  <2>3. asked' \subseteq asked \cup {Query(job.name)}
    BY <1>4 DEF Sends
  <2>4. ASSUME NEW q \in asked', q.kind = "query", q.num = dns'.id PROVE q.val = job.name
    <3>1. CASE q \in asked
      <4>1. GoodQuery(q, dns.id)
        BY <3>1 DEF NetInv, WireInv
      <4>2. q.num \in Nat /\ q.num <= dns.id
        BY <2>4, <4>1 DEF GoodQuery
      <4>3. FALSE
        BY <2>1, <2>2, <2>4, <4>2
      <4> QED BY <4>3
    <3>2. CASE q = Query(job.name)
      BY <3>2, FrameIs DEF Query
    <3> QED BY <2>3, <3>1, <3>2
  <2>5. ResolvedTruth'
    BY <1>1, <1>4, TruthStays
  <2> QED BY <1>2, <1>4, <2>2, <2>4, <2>5 DEF AnswerInv
<1> QED BY <1>3, <1>4 DEF DnsAsk

LEMMA AnswerReturns == ASSUME NetInv, AnswerInv, DnsAnswer \/ DnsTimeout PROVE AnswerInv'
<1>1. pc = "answer" /\ sub = "out"
  BY DEF DnsAnswer, DnsTimeout, At
<1>2. job.name \in Names
  BY <1>1 DEF AnswerInv, Asking
<1>3. ASSUME Leave(Back), ResolvedTruth' PROVE AnswerInv'
  <2>1. pc' \in {"idle", "resolved"}
    BY <1>1, <1>3, LeaveEffect DEF Asking
  <2> QED BY <1>3, <2>1 DEF AnswerInv, Asking
<1>4. CASE DnsAnswer /\ dns.ip # None
  <2>1. /\ cache' = [cache EXCEPT ![CacheSlot] = Entry(job.name, dns.ip, TtlOf(dns.ttl))]
        /\ result' = Returned(job.name, dns.ip, "answer") /\ dns.ready /\ Leave(Back)
    BY <1>4 DEF DnsAnswer
  <2>2. Answered(job.name, dns.ip)
    BY <1>1, <1>4, <2>1 DEF AnswerInv
  <2>3. result'.name = job.name /\ result'.ip = dns.ip
    BY <2>1 DEF Returned, NoResult
  <2>4. PICK e : e = Entry(job.name, dns.ip, TtlOf(dns.ttl))
    OBVIOUS
  <2>5. e.name = job.name /\ e.ip = dns.ip
    BY <2>4 DEF Entry
  <2>6. cache = [i \in 1 .. CacheSlots |-> cache[i]]
    BY DEF NetInv, CacheInv
  <2>7. /\ cache' = [i \in 1 .. CacheSlots |-> cache'[i]]
        /\ \A i \in 1 .. CacheSlots : cache'[i] = cache[i] \/ cache'[i] = e
    BY <2>1, <2>4, <2>6
  <2>8. ResolvedTruth'
    BY <2>2, <2>3, <2>5, <2>7, TruthStays
  <2> QED BY <1>3, <2>1, <2>8
<1>5. CASE DnsAnswer /\ dns.ip = None
  <2>1. cache' = cache /\ result' = Returned(job.name, None, "no such name") /\ Leave(Back)
    BY <1>5 DEF DnsAnswer
  <2>2. result'.ip = None
    BY <2>1 DEF Returned, NoResult
  <2> QED BY <1>3, <2>1, <2>2, TruthStays
<1>6. CASE DnsTimeout
  <2>1. cache' = cache
    BY <1>6 DEF DnsTimeout
  <2>2. CASE pc' = "reset" /\ job' = Tried /\ result' = result
    <3>1. job'.name \in Names
      BY <1>2, <2>2 DEF Tried, NetInv, TaskInv, JobType
    <3>2. ResolvedTruth'
      BY <2>1, <2>2, TruthStays
    <3> QED BY <2>2, <3>1, <3>2 DEF AnswerInv
  <2>3. CASE result' = Returned(job.name, None, "timeout") /\ Leave(Back)
    <3>1. result'.ip = None
      BY <2>3 DEF Returned, NoResult
    <3> QED BY <1>3, <2>1, <2>3, <3>1, TruthStays
  <2> QED BY <1>6, <2>2, <2>3 DEF DnsTimeout
<1> QED BY <1>4, <1>5, <1>6

LEMMA AnswerResolve ==
  ASSUME NetInv, AnswerInv, pc = "idle", sub = "out", NEW name \in Askable, NEW by \in {None, "http"},
         Resolve(name, by)
  PROVE  AnswerInv'
<1>1. /\ pc' \in {"idle", "resolved", "reset"} /\ CacheInv'
      /\ \/ result' = result
         \/ IsAddress(name) /\ result' = Returned(name, name, "address")
         \/ \E i \in 1 .. CacheSlots : cache[i] # NoName /\ result' = FromCache(cache[i])
      /\ \A i \in 1 .. CacheSlots : cache'[i] \in {cache[i], NoName}
  BY ResolveEffect
<1>2. IsAddress(name) /\ result' = Returned(name, name, "address") => IsAddress(result'.name)
  BY ReturnedIs
<1>3. cache' = [i \in 1 .. CacheSlots |-> cache'[i]]
  BY <1>1 DEF CacheInv
<1>4. ResolvedTruth'
  BY <1>1, <1>2, <1>3, TruthStays
<1>5. pc' = "reset" => job'.name \in Names
  BY <1>1 DEF CacheInv, Asking
<1> QED BY <1>1, <1>4, <1>5 DEF AnswerInv, Asking

LEMMA AnswerStep ==
  ASSUME "ask" \notin Windows, NetInv, AnswerInv, [HttpNext]_vars
  PROVE  AnswerInv'
<1>1. CASE Poll
  <2>1. CASE PollHandle
    <3>1. GoodFrame(rxBuf, asked, granted) /\ Handle(rxBuf) /\ UNCHANGED <<pc, job>>
      BY <2>1 DEF NetInv, WireInv, PollHandle
    <3>2. pc # "ask"
      BY <2>1 DEF PollHandle, NetInv, TaskInv, Waits
    <3> QED BY <3>1, <3>2, AnswerHandled
  <2>2. CASE PollHeader \/ PollCopy \/ PollArpSlot \/ PollArpStore
    <3>1. UNCHANGED <<result, cache, asked, dns, pc>> /\ job'.name = job.name
      BY <2>2 DEF PollHeader, PollCopy, PollArpSlot, PollArpStore, ipVars, dnsVars, NetInv, TaskInv, JobType
    <3> QED BY <3>1 DEF AnswerInv, ResolvedTruth, Answered
  <2> QED BY <1>1, <2>1, <2>2 DEF Poll
<1>2. CASE NetPoll
  <2>1. PICK f : f = ring[rxOffset] /\ GoodFrame(f, asked, granted)
    BY DEF NetInv, WireInv
  <2>2. Handle(f) /\ UNCHANGED <<pc, job>> /\ pc # "ask"
    BY <1>2, <2>1 DEF NetPoll, taskVars
  <2> QED BY <2>1, <2>2, AnswerHandled
<1>3. CASE BootDhcp \/ Dhcp \/ DhcpRequest \/ DhcpEnd \/ PingSend \/ PingDone
           \/ \E t \in Targets : Ping(t)
  <2>1. UNCHANGED <<result, cache, dns>>
    BY <1>3 DEF BootDhcp, Dhcp, DhcpBegin, DhcpRequest, DhcpEnd, PingSend, PingDone, Ping, dnsVars
  <2>2. pc' \notin Asking
    BY <1>3 DEF BootDhcp, Dhcp, DhcpBegin, DhcpRequest, DhcpEnd, PingSend, PingDone, Ping, PingGo, Asking
  <2> QED BY <2>1, <2>2 DEF AnswerInv, ResolvedTruth, Answered, Asking
<1>4. CASE CacheFlush
  <2>1. pc = "idle" /\ pc' = pc /\ result' = result /\ cache' = [i \in DOMAIN cache |-> NoName]
    BY <1>4 DEF CacheFlush, Command, At
  <2>2. ResolvedTruth'
    BY <2>1 DEF AnswerInv, ResolvedTruth, Answered
  <2> QED BY <2>1, <2>2 DEF AnswerInv, Asking
<1>5. CASE \E n \in Names \cup Targets : Nslookup(n)
  <2>1. PICK n \in Names \cup Targets : Nslookup(n)
    BY <1>5
  <2> QED BY <2>1, AnswerResolve DEF Nslookup, Command, At, Askable
<1>6. CASE DnsReset
  <2>1. /\ pc = "reset" /\ pc' = "ask" /\ UNCHANGED <<result, cache, job>>
        /\ dns' = [dns EXCEPT !.ready = FALSE, !.ip = None, !.ttl = 0]
    BY <1>6 DEF DnsReset, At
  <2>2. ~dns'.ready /\ dns'.ip = None
    BY <2>1 DEF NetInv, CacheInv, DnsType
  <2> QED BY <2>1, <2>2 DEF AnswerInv, ResolvedTruth, Answered, Asking
<1>7. CASE Second \/ (\E f \in OnTheWire : Arrives(f)) \/ (\E i \in 1 .. Conns : PeerMoves(i))
           \/ UNCHANGED vars
  <2>1. UNCHANGED <<result, cache, asked, dns, pc, job>>
    BY <1>7 DEF Second, Arrives, PeerMoves, vars, netVars, ipVars, dnsVars, taskVars
  <2> QED BY <2>1 DEF AnswerInv, ResolvedTruth, Answered
<1>8. CASE \E u \in Urls : Wget(u)
  <2>1. PICK u \in Urls : Wget(u)
    BY <1>8
  <2>2. pc = "idle" /\ sub = "out"
    BY <2>1 DEF Wget, Command, At
  <2>3. CASE HostOf(u) = None
    <3>1. UNCHANGED <<result, cache, pc>>
      BY <2>1, <2>3 DEF Wget, dnsVars
    <3> QED BY <2>2, <3>1 DEF AnswerInv, ResolvedTruth, Answered, Asking
  <2>4. CASE HostOf(u) # None
    <3>1. Resolve(HostOf(u), "http") /\ HostOf(u) \in Askable
      BY <2>1, <2>4 DEF Wget, Askable
    <3> QED BY <2>2, <3>1, AnswerResolve
  <2> QED BY <2>3, <2>4
<1>9. CASE HttpGoes
  <2>1. UNCHANGED <<result, cache>> /\ pc' \notin Asking
    BY <1>9 DEF HttpGoes, HttpConnect, HttpAwait, HttpConnected, HttpSend, HttpLook, HttpRead,
       HttpDeadline, HttpClose, Closes, Fails, Ends, Step, dnsVars, Asking
  <2> QED BY <2>1 DEF AnswerInv, ResolvedTruth, Answered, Asking
<1> QED BY <1>1, <1>2, <1>3, <1>4, <1>5, <1>6, <1>7, <1>8, <1>9, AnswerAsk, AnswerReturns
    DEF HttpNext, Next, Commands, Goes

LEMMA AnswerStarts == HttpInit => AnswerInv
BY DEF HttpInit, Init, AnswerInv, ResolvedTruth, NoResult, Asking

(***************************************************************************)
(* With netpoll kept out between the reset of the answer and the query, what  *)
(* dns_resolve returns, and what the cache keeps, was answered for that name  *)
(* (dns.c, dns_resolve).  Let in there it breaks it: the run net_stale_answer. *)
(***************************************************************************)
THEOREM AnswersAreForTheName == ASSUME "ask" \notin Windows PROVE HttpSpec => []ResolvedTruth
<1>1. NetInv /\ AnswerInv /\ [HttpNext]_vars => AnswerInv'
  BY AnswerStep
<1>2. AnswerInv => ResolvedTruth
  BY DEF AnswerInv
<1> QED BY <1>1, <1>2, AnswerStarts, NetInvariant, PTL DEF HttpSpec

=============================================================================
