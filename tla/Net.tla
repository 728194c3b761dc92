---------------------------------- MODULE Net ----------------------------------
(***************************************************************************)
(* The network below TCP: the receive ring of drivers/net.c, ARP, ICMP, UDP *)
(* and DHCP of net/ip.c, the resolver of net/dns.c, and the shell commands  *)
(* that wait in loops around ip_poll.                                       *)
(*                                                                          *)
(* Two contexts poll one card: task 0 while a command waits, and the netpoll *)
(* daemon, which preempts task 0 and is not preempted itself (TicksOnlyIdle *)
(* of Sched): what netpoll does is one step.  Windows names the points      *)
(* inside a poll and inside dns_resolve at which it may come.               *)
(*                                                                          *)
(* The network answers what was asked, late, more than once, or never.      *)
(***************************************************************************)
EXTENDS Integers, Sequences, FiniteSets

CONSTANTS
  Ring,        \* positions of the receive ring; one frame takes one
  ArpSlots,    \* ARP_CACHE_SIZE
  MaxBinds,    \* UDP_MAX_BINDS
  CacheSlots,  \* DNS_CACHE_SIZE
  MaxRetries,  \* DNS_MAX_RETRIES
  DefaultTtl,  \* the 300 seconds for an answer without a time to live
  TsWrap,      \* the width of DnsCacheEntry.timestamp, in seconds
  MaxNow,      \* bound: seconds since the boot
  MaxQueries,  \* bound: the values of dns_query_id
  Pings,       \* echo requests of one ping command
  MaxCmds,     \* bound: commands given
  Hosts,       \* <<address, MAC>> pairs of the machines on the wire
  Leases,      \* <<address, name server>> pairs the DHCP server may grant
  Answers,     \* <<name, address, ttl>> the name server may answer; Nowhere: no such name
  Targets,     \* addresses the user pings
  Windows,     \* the points at which netpoll may interrupt a poll or a query
  Mixes        \* the sets of commands that are followed together

None     == "none"
Anyone   == "all"          \* 255.255.255.255
Gateway  == "gw"
Static   == "static"
Names    == {a[1] : a \in Answers}
Local    == {h[1] : h \in Hosts}
NoLease  == <<None, None>>

ASSUME NetAssumption ==
  /\ Ring \in Nat \ {0}
  /\ ArpSlots \in Nat \ {0} /\ CacheSlots \in Nat \ {0} /\ MaxBinds \in Nat \ {0, 1}
  /\ MaxRetries \in Nat /\ Pings \in Nat \ {0} /\ MaxQueries \in Nat /\ MaxNow \in Nat
  /\ DefaultTtl \in Nat \ {0} /\ TsWrap \in Nat \ {0}

\* The two ports that are bound fit, and nothing on the wire is called nothing.
ASSUME WireAssumption ==
  /\ \A h \in Hosts : h = <<h[1], h[2]>> /\ h[1] # None /\ h[2] # None
  /\ \A l \in Leases : l = <<l[1], l[2]>>
  /\ Leases # {}
  /\ \A a \in Answers : a[1] # None /\ a[3] \in Nat

VARIABLES
  ring,     \* the receive buffer; what was handed out of it, or never came, is Blank
  cardAt,   \* where the card writes next
  rxOffset, \* where net_recv reads next
  rxBuf,    \* rx_buf of ip.c, while somebody is to look at it
  arp, cfg, binds, ping, dhcp, dns, cache,
  now,      \* seconds
  asked,    \* what the network has been asked so far
  granted,  \* history: the leases that were acknowledged
  owed,     \* history: the frames that came and are not handled yet, in order,
            \* and whether every frame was so far handled when its turn came
  pc, sub,  \* where task 0 stands: in its command, in a poll
  job,      \* the locals of the command
  result,   \* what dns_resolve last returned
  mix

ringVars == <<ring, cardAt, rxOffset, rxBuf>>
ipVars   == <<arp, cfg, binds, ping, dhcp, asked, granted, owed>>
dnsVars  == <<dns, cache, result, now>>
taskVars == <<pc, sub, job>>
netVars  == <<ringVars, ipVars, dnsVars, taskVars, mix>>

Frame(kind, from, val, num, to) ==
  [kind |-> kind, from |-> from, val |-> val, num |-> num, to |-> to]
Blank  == Frame(None, None, None, 0, None)
NoArp  == [ip |-> None, mac |-> None]
NoName == [name |-> None, ip |-> None, ttl |-> 0, ts |-> 0, at |-> 0]
NoPing == [got |-> FALSE, seq |-> 0]
NoJob  == [name |-> None, tries |-> 0, seq |-> 0, dst |-> None, ip |-> None, by |-> None,
           slot |-> 0, cmds |-> 0]
NoResult == [name |-> None, ip |-> None, why |-> None, age |-> 0, ttl |-> 0]

\* kernel_main, phase 9: the first DHCP cycle runs before there are other tasks.
Init ==
  /\ ring = [i \in 0 .. Ring - 1 |-> Blank] /\ cardAt = 0 /\ rxOffset = 0
  /\ rxBuf = Blank /\ owed = [frames |-> <<>>, kept |-> TRUE]
  /\ arp = [i \in 1 .. ArpSlots |-> NoArp]
  /\ cfg = [ip |-> None, ns |-> None, up |-> FALSE]
  /\ binds = <<>> /\ ping = NoPing
  /\ dhcp = [state |-> 0, lease |-> NoLease]
  /\ dns = [id |-> 0, ready |-> FALSE, ip |-> None, ttl |-> 0]
  /\ cache = [i \in 1 .. CacheSlots |-> NoName]
  /\ now = 0 /\ asked = {} /\ granted = {} /\ result = NoResult
  /\ pc = "boot" /\ sub = "out" /\ job = NoJob
  /\ mix \in Mixes

Lowest(S) == CHOOSE i \in S : \A j \in S : i <= j
Booted == pc \notin {"boot", "bootOffer", "bootAck"}

----------------------------------------------------------------------------
(* The wire.  A machine announces itself at any time, asked by an ARP request *)
(* or not; everything else is an answer.                                    *)
Announcement(h) == Frame("arp", h[1], h[2], 0, Anyone)
\* What we send that is answered: dhcp_send_discover, dhcp_send_request,
\* dns_send_query with the id it counts up, icmp_ping.
Discover   == Frame("discover", None, None, 0, None)
Request(l) == Frame("request", l[2], l[1], 0, None)
Query(n)   == Frame("query", cfg.ip, n, dns.id + 1, None)
EchoTo(dst, seq) == Frame("echo", cfg.ip, dst, seq, None)

Offered == IF "dhcp" \in mix THEN Leases ELSE {CHOOSE l \in Leases : TRUE}
Replies(q) ==
  CASE q.kind = "discover" -> {Frame("offer", l[1], l[2], 0, Anyone) : l \in Offered}
    [] q.kind = "request"  -> {Frame("ack", q.val, q.from, 0, Anyone)}
    [] q.kind = "query"    -> {Frame("answer", a[2], a[1], q.num, q.from) :
                                 a \in {x \in Answers : x[1] = q.val}}
    [] q.kind = "echo"     -> {Frame("pong", q.val, None, q.num, q.from)}
    [] OTHER               -> {}
Speakers == {h \in Hosts : "crowd" \in mix \/ h[1] = Gateway \/ \E l \in Leases : l[2] = h[1]}
OnTheWire ==
  (UNION {Replies(q) : q \in asked}) \cup {Announcement(h) : h \in Speakers}
Ttl(f) == (CHOOSE a \in Answers : a[1] = f.val /\ a[2] = f.from)[3]

\* The card: one frame more in the ring, if it has room.
Arrives(f) ==
  /\ ring[cardAt] = Blank
  /\ ring' = [ring EXCEPT ![cardAt] = f]
  /\ cardAt' = (cardAt + 1) % Ring
  /\ owed' = [owed EXCEPT !.frames = Append(@, f)]
  /\ granted' = IF f.kind = "ack" THEN granted \cup {f.from} ELSE granted
  /\ UNCHANGED <<rxOffset, rxBuf, arp, cfg, binds, ping, dhcp, asked, dnsVars,
                 taskVars, mix>>

----------------------------------------------------------------------------
(* drivers/net.c, net_recv: the frame at rx_offset, and on to the next one. *)
Waiting == ring[rxOffset] # Blank
NextOffset == (rxOffset + 1) % Ring

Received ==
  /\ rxOffset' = NextOffset
  /\ ring' = [ring EXCEPT ![rxOffset] = Blank]
  /\ UNCHANGED cardAt
HandledNow(f) ==
  LET inTurn == owed.frames # <<>> /\ Head(owed.frames) = f
  IN [frames |-> IF inTurn THEN Tail(owed.frames) ELSE owed.frames,
      kept |-> owed.kept /\ inTurn]

----------------------------------------------------------------------------
(* net/ip.c, sending: the next hop, its MAC, and what goes out.             *)
HasMac(ip) == \E i \in DOMAIN arp : arp[i].ip = ip
NextHop(dst) == IF cfg.up /\ dst \notin Local THEN Gateway ELSE dst

\* ip_send: what reaches the wire, and whether the caller is told it was sent.
\* Without the MAC that is an ARP request only.
Sends(dst, f, udp) ==
  LET sent == (cfg.up \/ udp) /\ (dst = Anyone \/ HasMac(NextHop(dst)))
  IN [sent |-> sent, out |-> IF sent THEN {f} ELSE {}]

(* arp_cache_add: the entry of that address, else a free one, else the first. *)
ArpSlot(ip) ==
  LET own  == {i \in DOMAIN arp : arp[i].ip = ip}
      free == {i \in DOMAIN arp : arp[i] = NoArp}
  IN IF own # {} THEN Lowest(own) ELSE IF free # {} THEN Lowest(free) ELSE 1
\* Mutants: an evicted entry keeps its address; a second entry for one address
ArpStoredHalf(a, i, ip, mac) ==
  [a EXCEPT ![i] = [ip |-> IF @ = NoArp THEN ip ELSE @.ip, mac |-> mac]]
ArpStored(a, i, ip, mac) == [a EXCEPT ![i] = [ip |-> ip, mac |-> mac]]

(* What the handlers do with a frame.  A frame for another address is left   *)
(* alone once the interface is configured.  The answers to an ARP request and *)
(* to an echo request leave no trace in the state.                          *)
ForUs(f) == f.to \in {Anyone, cfg.ip} \/ ~cfg.up
HandleArp(f) ==
  /\ arp' = ArpStored(arp, ArpSlot(f.from), f.from, f.val)
  /\ UNCHANGED <<ping, dhcp, dns>>
HandlePong(f) ==
  /\ ping' = [got |-> TRUE, seq |-> f.num]
  /\ UNCHANGED <<arp, dhcp, dns>>

\* dhcp_recv, if its port was bound
\* Mutant: an offer is taken for the acknowledgment
DhcpNextHasty(f) == IF f.kind = "offer" /\ dhcp.state = 1
                    THEN [state |-> 3, lease |-> <<f.from, f.val>>] ELSE dhcp
DhcpNext(f) ==
  IF f.kind = "offer" /\ dhcp.state = 1 THEN [state |-> 2, lease |-> <<f.from, f.val>>]
  ELSE IF f.kind = "ack" /\ dhcp.state = 2 THEN [dhcp EXCEPT !.state = 3]
  ELSE dhcp
Bound(p) == \E k \in DOMAIN binds : binds[k] = p
HandleDhcp(f) ==
  /\ dhcp' = IF Bound("dhcp") THEN DhcpNext(f) ELSE dhcp
  /\ UNCHANGED <<arp, ping, dns>>

\* dns_recv: an answer to another query is dropped; no such name is an answer.
\* Mutant: the number of the query is not looked at
MatchesAny(f) == TRUE
Matches(f) == f.num = dns.id
HandleDns(f) ==
  /\ dns' = IF Bound("dns") /\ Matches(f)
            THEN [dns EXCEPT !.ready = TRUE, !.ip = f.from, !.ttl = Ttl(f)] ELSE dns
  /\ UNCHANGED <<arp, ping, dhcp>>

Handle(f) ==
  /\ CASE f.kind = "arp" -> HandleArp(f)
       [] f.kind = "pong" /\ ForUs(f) -> HandlePong(f)
       [] f.kind \in {"offer", "ack"} /\ ForUs(f) -> HandleDhcp(f)
       [] f.kind = "answer" /\ ForUs(f) -> HandleDns(f)
       [] OTHER -> UNCHANGED <<arp, ping, dhcp, dns>>
  /\ owed' = HandledNow(f)
  /\ UNCHANGED <<cfg, binds, asked, granted, cache, result, now>>

----------------------------------------------------------------------------
(* ip_poll in netpoll: one step.  It needs a point where task 0 can be      *)
(* interrupted.                                                             *)
NetPoll ==
  /\ Booted /\ sub \in Windows \cup {"out"} /\ pc \notin {"ask"} \ Windows
  /\ Waiting /\ Received /\ Handle(ring[rxOffset])
  /\ rxBuf' = IF sub \in {"copied", "caching"} THEN ring[rxOffset] ELSE rxBuf
  /\ UNCHANGED <<taskVars, mix>>

(* ip_poll in task 0, when its command waits.                               *)
Polling == pc \in {"bootOffer", "bootAck", "offer", "ack", "answer", "pingArp", "pong"}
PollHeader ==
  /\ Polling /\ sub = "out" /\ Waiting
  /\ sub' = "header"
  /\ UNCHANGED <<ringVars, ipVars, dnsVars, pc, job, mix>>
PollCopy ==
  /\ sub = "header"
  /\ Received /\ rxBuf' = ring[rxOffset]
  /\ sub' = "copied"
  /\ UNCHANGED <<ipVars, dnsVars, pc, job, mix>>
PollHandle ==
  /\ sub = "copied" /\ rxBuf.kind # "arp"
  /\ Handle(rxBuf)
  /\ sub' = "out" /\ rxBuf' = Blank
  /\ UNCHANGED <<ring, cardAt, rxOffset, pc, job, mix>>
PollArpSlot ==
  /\ sub = "copied" /\ rxBuf.kind = "arp"
  /\ job' = [job EXCEPT !.slot = ArpSlot(rxBuf.from)]
  /\ sub' = "caching"
  /\ UNCHANGED <<ringVars, ipVars, dnsVars, pc, mix>>
PollArpStore ==
  /\ sub = "caching"
  /\ arp' = ArpStored(arp, job.slot, rxBuf.from, rxBuf.val)
  /\ owed' = HandledNow(rxBuf)
  /\ job' = [job EXCEPT !.slot = 0]
  /\ sub' = "out" /\ rxBuf' = Blank
  /\ UNCHANGED <<ring, cardAt, rxOffset, cfg, binds, ping, dhcp, asked, granted, dnsVars, pc, mix>>
Poll == PollHeader \/ PollCopy \/ PollHandle \/ PollArpSlot \/ PollArpStore

----------------------------------------------------------------------------
(* Commands.  A deadline may have passed whenever the loop tests it.        *)
At(p) == pc = p /\ sub = "out"
Command(c) == At("idle") /\ c \in mix /\ job.cmds < MaxCmds
Begun == [NoJob EXCEPT !.cmds = job.cmds + 1]
Ended == [NoJob EXCEPT !.cmds = job.cmds]
Leave(p) == pc' = p /\ job' = (IF p = "idle" THEN Ended ELSE job) /\ UNCHANGED sub

\* udp_bind takes a slot every time it is called.
Binding(p) == IF Len(binds) < MaxBinds THEN Append(binds, p) ELSE binds

DhcpBegin(next) ==
  /\ cfg' = [cfg EXCEPT !.ip = None, !.up = FALSE]
  /\ binds' = Binding("dhcp")
  /\ dhcp' = [dhcp EXCEPT !.state = 1]
  /\ asked' = asked \cup {Discover}
  /\ pc' = next
  /\ UNCHANGED <<ringVars, arp, ping, granted, owed, dnsVars, sub, mix>>
BootDhcp == At("boot") /\ DhcpBegin("bootOffer") /\ UNCHANGED job
Dhcp == Command("dhcp") /\ DhcpBegin("offer") /\ job' = [Begun EXCEPT !.ip = cfg.ip]

DhcpRequest ==
  /\ pc \in {"offer", "bootOffer"} /\ sub = "out" /\ dhcp.state = 2
  /\ asked' = asked \cup {Request(dhcp.lease)}
  /\ pc' = IF pc = "offer" THEN "ack" ELSE "bootAck"
  /\ UNCHANGED <<ringVars, arp, cfg, binds, ping, dhcp, granted, owed, dnsVars, sub, job, mix>>

\* The end: a lease, or the old address; at boot the static one, and then
\* dns_init binds its port.  A late acknowledgment of an earlier cycle may have
\* come with the offer: then nothing is requested.
Configured(l) == [ip |-> l[1], ns |-> l[2], up |-> TRUE]
DhcpEnd ==
  /\ pc \in {"offer", "bootOffer", "ack", "bootAck"} /\ sub = "out"
  /\ pc \in {"offer", "bootOffer"} => dhcp.state # 2
  /\ cfg' = IF dhcp.state = 3 THEN Configured(dhcp.lease)
            ELSE IF Booted THEN [cfg EXCEPT !.ip = job.ip]
            ELSE [cfg EXCEPT !.ip = Static, !.up = TRUE]
  /\ dhcp' = [dhcp EXCEPT !.state = 0]
  /\ binds' = IF Booted THEN binds ELSE Binding("dns")
  /\ pc' = "idle" /\ job' = Ended
  /\ UNCHANGED <<ringVars, arp, ping, asked, granted, owed, dnsVars, sub, mix>>

----------------------------------------------------------------------------
(* net/dns.c.  A cache entry that is too old is dropped; the slot of a new   *)
(* one is a free one, else the first.                                       *)
Held(name) == {i \in DOMAIN cache : cache[i].name = name}
\* tick_count is 64 bits wide, the stored time 32.
Elapsed(e) == now - e.ts
Fresh(e) == e.ttl = 0 \/ Elapsed(e) < e.ttl
Entry(name, ip, ttl) ==
  [name |-> name, ip |-> ip, ttl |-> ttl, ts |-> now % TsWrap, at |-> now]
CacheSlot ==
  LET free == {i \in DOMAIN cache : cache[i] = NoName}
  IN IF free # {} THEN Lowest(free) ELSE 1
Dropped(name) ==
  [i \in DOMAIN cache |-> IF i \in Held(name) /\ ~Fresh(cache[i]) THEN NoName ELSE cache[i]]

Returned(name, ip, why) == [NoResult EXCEPT !.name = name, !.ip = ip, !.why = why]
FromCache(e) == [Returned(e.name, e.ip, "cache") EXCEPT !.age = now - e.at, !.ttl = e.ttl]

\* ip_from_str: a dotted address stands for itself.
IsAddress(name) == name \notin Names

\* Where dns_resolve returns to
Back == IF job.by = None THEN "idle" ELSE "resolved"
Resolve(name, by) ==
  LET hit  == {i \in Held(name) : Fresh(cache[i])}
      next == [Begun EXCEPT !.name = name, !.by = by]
      Known(r) == /\ result' = r
                  /\ IF by = None THEN pc' = "idle" /\ job' = [NoJob EXCEPT !.cmds = next.cmds]
                                  ELSE pc' = "resolved" /\ job' = next
  IN /\ UNCHANGED <<ringVars, ipVars, dns, now, sub, mix>>
     /\ IF IsAddress(name) THEN Known(Returned(name, name, "address")) /\ UNCHANGED cache
        ELSE /\ cache' = Dropped(name)
             /\ IF hit # {} THEN Known(FromCache(cache[Lowest(hit)]))
                ELSE pc' = "reset" /\ job' = next /\ UNCHANGED result
Nslookup(name) == Command("resolve") /\ Resolve(name, None)

DnsReset ==
  /\ At("reset")
  /\ dns' = [dns EXCEPT !.ready = FALSE, !.ip = None, !.ttl = 0]
  /\ pc' = "ask"
  /\ UNCHANGED <<ringVars, ipVars, cache, result, now, sub, job, mix>>

\* dns_send_query: a name server whose MAC is not known is a failure at once.
DnsAsk ==
  LET s == Sends(cfg.ns, Query(job.name), TRUE)
  IN /\ At("ask")
     /\ IF ~cfg.up \/ cfg.ns = None
        THEN /\ result' = Returned(job.name, None, "no server")
             /\ Leave(Back) /\ UNCHANGED <<dns, asked>>
        ELSE /\ dns.id < MaxQueries
             /\ dns' = [dns EXCEPT !.id = @ + 1]
             /\ asked' = asked \cup s.out
             /\ IF s.sent THEN /\ pc' = "answer" /\ UNCHANGED <<job, sub, result>>
                          ELSE /\ result' = Returned(job.name, None, "not sent")
                               /\ Leave(Back)
     /\ UNCHANGED <<ringVars, arp, cfg, binds, ping, dhcp, granted, owed, cache, now, mix>>

TtlOf(t) == IF t = 0 THEN DefaultTtl ELSE t
DnsAnswer ==
  /\ At("answer") /\ dns.ready
  /\ IF dns.ip # None
     THEN /\ cache' = [cache EXCEPT ![CacheSlot] = Entry(job.name, dns.ip, TtlOf(dns.ttl))]
          /\ result' = Returned(job.name, dns.ip, "answer")
     ELSE /\ result' = Returned(job.name, None, "no such name")
          /\ UNCHANGED cache
  /\ Leave(Back)
  /\ UNCHANGED <<ringVars, ipVars, dns, now, mix>>

Tried == [job EXCEPT !.tries = @ + 1]
DnsTimeout ==
  /\ At("answer") /\ ~dns.ready
  /\ IF job.tries < MaxRetries
     THEN /\ pc' = "reset" /\ job' = Tried
          /\ UNCHANGED <<sub, result>>
     ELSE /\ result' = Returned(job.name, None, "timeout")
          /\ Leave(Back)
  /\ UNCHANGED <<ringVars, ipVars, dns, cache, now, mix>>

CacheFlush ==
  /\ Command("resolve")
  /\ cache' = [i \in DOMAIN cache |-> NoName]
  /\ job' = [NoJob EXCEPT !.cmds = job.cmds + 1]
  /\ UNCHANGED <<ringVars, ipVars, dns, result, now, pc, sub, mix>>

Second ==
  /\ "age" \in mix /\ now < MaxNow
  /\ now' = now + 1
  /\ UNCHANGED <<ringVars, ipVars, dns, cache, result, taskVars, mix>>

----------------------------------------------------------------------------
(* cmd_ping: for each request the MAC first, then the echo, then the reply. *)
PingNext == IF job.seq < Pings THEN [job EXCEPT !.seq = @ + 1] ELSE Ended
PingGo(j) == pc' = (IF j.seq = 0 THEN "idle" ELSE "pingArp") /\ job' = j

Ping(dst) ==
  /\ Command("ping")
  /\ PingGo([Begun EXCEPT !.dst = dst, !.seq = 1])
  /\ UNCHANGED <<ringVars, ipVars, dnsVars, sub, mix>>

\* The MAC is known, or a second has passed.
PingSend ==
  LET s == Sends(job.dst, EchoTo(job.dst, job.seq), FALSE)
  IN /\ At("pingArp")
     /\ ping' = NoPing
     /\ asked' = asked \cup s.out
     /\ IF s.sent THEN pc' = "pong" /\ UNCHANGED job ELSE PingGo(PingNext)
     /\ UNCHANGED <<ringVars, arp, cfg, binds, dhcp, granted, owed, dnsVars, sub, mix>>

\* The reply, or two seconds.
PingDone ==
  /\ At("pong")
  /\ PingGo(PingNext)
  /\ UNCHANGED <<ringVars, ipVars, dnsVars, sub, mix>>

----------------------------------------------------------------------------
Commands ==
  \/ BootDhcp \/ Dhcp \/ CacheFlush
  \/ \E n \in Names \cup Targets : Nslookup(n)
  \/ \E t \in Targets : Ping(t)
Goes ==
  \/ DhcpRequest \/ DhcpEnd
  \/ DnsReset \/ DnsAsk \/ DnsAnswer \/ DnsTimeout
  \/ PingSend \/ PingDone
Next == Poll \/ NetPoll \/ Commands \/ Goes \/ Second \/ \E f \in OnTheWire : Arrives(f)

\* Task 0 goes on with its poll and its command, and deadlines pass: a wait loop
\* looks at the clock after every poll, however many frames there are (SF).
\* Whether a frame arrives, or a user types, is not promised.
Fairness == WF_netVars(Poll) /\ SF_netVars(Goes \/ BootDhcp)
Spec == Init /\ [][Next]_netVars /\ Fairness

----------------------------------------------------------------------------
(* Properties *)

TypeOK ==
  /\ \A i \in DOMAIN ring : ring[i].from \in {None} \cup Local \cup {l[1] : l \in Leases}
                                             \cup {a[2] : a \in Answers} \cup Targets
  /\ cardAt \in 0 .. Ring - 1 /\ rxOffset \in 0 .. Ring - 1
  /\ \A i \in DOMAIN arp : arp[i].ip = None <=> arp[i].mac = None
  /\ Len(binds) <= MaxBinds /\ dhcp.state \in 0 .. 3
  /\ dns.id \in 0 .. MaxQueries /\ dns.ready \in BOOLEAN
  /\ \A i \in DOMAIN cache : cache[i].ttl \in Nat /\ cache[i].ts \in 0 .. TsWrap - 1
  /\ sub \in {"out", "header", "copied", "caching"}
  /\ job.tries \in 0 .. MaxRetries /\ job.seq \in 0 .. Pings

\* Every frame the card put in the ring is handed to a handler once, whole and
\* in order, whoever polls: "Process one incoming packet (call from poll loop or
\* IRQ handler)" (ip.h:126).
EachFrameOnce == owed.kept

\* An entry of the ARP cache is one the address's owner announced, and an
\* address has one entry: two would make the answer depend on the slot.
ArpTruth ==
  \A i \in DOMAIN arp : arp[i] # NoArp =>
    /\ <<arp[i].ip, arp[i].mac>> \in Hosts
    /\ \A j \in DOMAIN arp : arp[j].ip = arp[i].ip => i = j

\* What dns_resolve returns, and what the cache keeps, was answered for that
\* name and no other, however late answers to earlier queries come in.
Answered(name, ip) == \E a \in Answers : a[1] = name /\ a[2] = ip
ResolvedTruth ==
  /\ result.ip # None => IsAddress(result.name) \/ Answered(result.name, result.ip)
  /\ \A i \in DOMAIN cache : cache[i] # NoName => Answered(cache[i].name, cache[i].ip)

\* An address out of the cache is younger than its time to live, also when the
\* stored time has lost the high bits of the clock.
CacheFresh == result.why = "cache" => result.age < result.ttl

\* A name has one entry in the cache.
CacheOnce ==
  \A i, j \in DOMAIN cache : cache[i] # NoName /\ cache[i].name = cache[j].name => i = j

\* An address other than the static one is used only if the server offered it
\* and has acknowledged a lease.
LeaseAcked ==
  cfg.up /\ cfg.ip # Static => granted # {} /\ cfg.ip \in {l[1] : l \in Leases}

\* After the boot the resolver's port is bound for good, and DHCP's while it
\* waits, although every DHCP command takes a slot of the bindings.
PortsHeard ==
  /\ Booted => Bound("dns")
  /\ dhcp.state > 0 => Bound("dhcp")

\* The address in use was leased, and who waits for an answer hears it.
DhcpSound == LeaseAcked /\ PortsHeard

\* Every wait loop ends: a command comes back to the prompt.
CommandsEnd == pc # "idle" ~> pc = "idle"

=============================================================================
