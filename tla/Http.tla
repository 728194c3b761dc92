--------------------------------- MODULE Http ---------------------------------
(***************************************************************************)
(* net/http.c: one GET at a time, by task 0 (cmd_wget), over the resolver of *)
(* Net and connections of Connection, which netpoll moves on between any two *)
(* looks of http_get at them.                                               *)
(*                                                                          *)
(* Bytes are counted in units: the headers are one, the body some.          *)
(***************************************************************************)
EXTENDS Net

CONSTANTS
  Conns,       \* TCP_MAX_CONNECTIONS
  RecvBuf,     \* TCP_RECV_BUF_SIZE
  RespBuf,     \* HTTP_RESP_BUF_SIZE - 1
  Rounds,      \* the looks, 50 ms apart, within a deadline
  Urls,        \* the hosts the user names to wget
  Servers      \* what servers send: total units, and the length stated or -1

ASSUME HttpAssumption ==
  /\ Conns \in Nat \ {0} /\ RecvBuf \in Nat /\ RespBuf \in Nat /\ Rounds \in Nat
  /\ \A s \in Servers : s[1] \in Nat /\ s[2] \in Int

VARIABLES
  conns,   \* conns of tcp.c
  server,  \* what the peer of the connection sends, and how much it has sent
  http     \* the locals of http_get and its response

httpVars == <<conns, server, http>>
vars     == <<netVars, httpVars>>

C == INSTANCE Connection WITH Capacity <- RecvBuf, conn <- conns[1]

NoHttp == [slot |-> 0, left |-> 0, len |-> 0, seen |-> None, error |-> 0, why |-> None]
NoServer == [total |-> 0, stated |-> -1, sent |-> 0]

HttpInit ==
  /\ Init
  /\ conns = [i \in 1 .. Conns |-> C!Closed]
  /\ server = NoServer
  /\ http = NoHttp

St == conns[http.slot].st

----------------------------------------------------------------------------
(* netpoll and the peers: a connection moves on.  The peer of the current get *)
(* sends no more than it has, and its FIN behind the last of it.            *)
PeerMoves(i) ==
  /\ Booted /\ sub = "out"
  /\ \E d \in C!ByPeer(conns[i]) :
       LET n == d.unread - conns[i].unread IN
       /\ d # conns[i]
       /\ conns' = [conns EXCEPT ![i] = d]
       /\ IF i # http.slot THEN UNCHANGED server
          ELSE /\ server' = [server EXCEPT !.sent = @ + n]
               /\ server'.sent <= server.total
               /\ d.st = "CLOSE_WAIT" => server'.sent = server.total
  /\ UNCHANGED <<netVars, http>>

----------------------------------------------------------------------------
(* http_get *)
HttpAt(p) == At(p) /\ job.by = "http"
Step(p) == pc' = p /\ UNCHANGED <<ringVars, ipVars, dnsVars, sub, job, mix>>
Ends == pc' = "idle" /\ job' = Ended /\ UNCHANGED <<ringVars, ipVars, dnsVars, sub, mix>>
Fails(e) == http' = [http EXCEPT !.error = e] /\ Ends

\* http_parse_url: a URL may name no host, and wget is over.
HostOf(url) == IF url = "nohost" THEN None ELSE url
Wget(url) ==
  /\ Command("wget")
  /\ IF HostOf(url) = None
     THEN /\ job' = [NoJob EXCEPT !.cmds = job.cmds + 1]
          /\ UNCHANGED <<ringVars, ipVars, dnsVars, pc, sub, mix, http>>
     ELSE Resolve(HostOf(url), "http") /\ http' = NoHttp
  /\ UNCHANGED <<conns, server>>

Free == {i \in 1 .. Conns : conns[i].st = "CLOSED"}
HttpConnect ==
  /\ HttpAt("resolved")
  /\ IF result.ip = None THEN Fails(-1) /\ UNCHANGED <<conns, server>>
     ELSE IF Free = {} \/ ~cfg.up THEN Fails(-2) /\ UNCHANGED <<conns, server>>
     ELSE /\ conns' = [conns EXCEPT ![Lowest(Free)] = [st |-> "SYN_SENT", unread |-> 0]]
          /\ server' \in {[total |-> s[1], stated |-> s[2], sent |-> 0] : s \in Servers}
          /\ http' = [http EXCEPT !.slot = Lowest(Free), !.left = Rounds]
          /\ Step("connect")

\* tcp_close.
ClosedSlot ==
  [conns EXCEPT ![http.slot] = IF C!ClosedByUser(@) = {} THEN @
                               ELSE CHOOSE d \in C!ClosedByUser(@) : TRUE]
Closes(e) == conns' = ClosedSlot /\ Fails(e) /\ UNCHANGED server

\* sched_sleep: 50 ms, or longer.
Later(n) == 0 .. n - 1

HttpAwait ==
  /\ HttpAt("connect") /\ UNCHANGED <<conns, server>>
  /\ IF http.left = 0 \/ St = "ESTABLISHED" THEN Step("connected") /\ UNCHANGED http
     ELSE IF St = "CLOSED" THEN Fails(-2)
     ELSE /\ \E n \in Later(http.left) : http' = [http EXCEPT !.left = n]
          /\ Step("connect")
HttpConnected ==
  /\ HttpAt("connected")
  /\ IF St # "ESTABLISHED" THEN Closes(-3)
     ELSE Step("send") /\ UNCHANGED httpVars

\* A MAC that has left the cache makes the segment, and so the get, fail.
HttpSend ==
  /\ HttpAt("send")
  /\ IF St # "ESTABLISHED" \/ ~Sends(result.ip, Blank, FALSE).sent THEN Closes(-4)
     ELSE /\ http' = [http EXCEPT !.left = Rounds]
          /\ Step("look") /\ UNCHANGED <<conns, server>>

\* The state is looked at before the bytes are read, and netpoll may come
\* between: what comes after the look is seen the next time.
HttpLook ==
  /\ HttpAt("look") /\ http.left > 0
  /\ http' = [http EXCEPT !.seen = St]
  /\ Step("read") /\ UNCHANGED <<conns, server>>

\* http_parse_response: the headers are complete with their unit, and tell the
\* length or do not.
Stated(len) == IF len >= 1 THEN server.stated ELSE -1
Complete(len) == Stated(len) >= 0 /\ len >= 1 + Stated(len)
\* http_body_len
BodyLen == IF http.len > 1 THEN http.len - 1 ELSE 0
\* Mutant: the deadline is set anew in every round
LeftAlways(n) == {Rounds}
Left(n) == IF n > 0 THEN Later(Rounds) ELSE Later(http.left)

\* Mutant: the zero behind the bytes is forgotten
SpaceAndOne == RespBuf + 1 - http.len
Space == RespBuf - http.len

HttpRead ==
  /\ HttpAt("read")
  /\ LET c == conns[http.slot]
         n == IF c.st \notin C!Readable THEN 0 ELSE Lowest({c.unread, Space})
         len == http.len + n
         why == IF Complete(len) THEN "complete"
                ELSE IF http.seen \in {"CLOSE_WAIT", "CLOSED"}
                     THEN IF c.st = "CLOSED" THEN "reset" ELSE "closed"
                ELSE IF len >= RespBuf THEN "full" ELSE None
     IN /\ conns' = [conns EXCEPT ![http.slot] = C!Took(@, n)]
        /\ IF why = None
           THEN /\ \E l \in Left(n) : http' = [http EXCEPT !.len = len, !.left = l]
                /\ Step("look")
           ELSE http' = [http EXCEPT !.len = len, !.why = why] /\ Step("close")
  /\ UNCHANGED server
HttpDeadline ==
  /\ HttpAt("look") /\ http.left = 0
  /\ http' = [http EXCEPT !.why = "deadline"]
  /\ Step("close") /\ UNCHANGED <<conns, server>>

HttpClose ==
  /\ HttpAt("close")
  /\ Closes(IF http.len = 0 THEN -5 ELSE 0)

HttpGoes ==
  \/ HttpConnect \/ HttpAwait \/ HttpConnected \/ HttpSend
  \/ HttpLook \/ HttpRead \/ HttpDeadline \/ HttpClose

HttpNext ==
  \/ (Next /\ UNCHANGED httpVars)
  \/ \E n \in Urls : Wget(n)
  \/ HttpGoes
  \/ \E i \in 1 .. Conns : PeerMoves(i)

\* As in Net: task 0 goes on, nothing is promised of the network.
HttpFairness == WF_vars(Poll /\ UNCHANGED httpVars)
                /\ SF_vars(((Goes \/ BootDhcp) /\ UNCHANGED httpVars) \/ HttpGoes)
HttpSpec == HttpInit /\ [][HttpNext]_vars /\ HttpFairness

----------------------------------------------------------------------------
(* Properties *)

HttpTypeOK ==
  /\ \A i \in 1 .. Conns : conns[i].unread \in 0 .. RecvBuf
  /\ server.sent \in 0 .. server.total
  /\ http.slot \in 0 .. Conns /\ http.left \in 0 .. Rounds /\ http.len \in 0 .. RespBuf
  /\ http.error \in -5 .. 0

\* A get that ends because the server has closed holds all the server sent, or a
\* full buffer, and one that ends because the body is complete the length that the
\* headers state: nothing that came between the look at the state and the reading,
\* or waited when the FIN came, is left behind.  (A reset takes with it what was
\* not read; http_get does not tell that from a close.)
WholeResponse ==
  /\ http.why = "closed" => http.len = Lowest({server.total, RespBuf})
  /\ http.why = "complete" => BodyLen >= server.stated

\* When the prompt is back no connection of a get is left half open or open: its
\* slot is free, or is on the way there through the states of a close.
ConnectionsReleased ==
  pc = "idle" => \A i \in 1 .. Conns :
    conns[i].st \notin {"SYN_SENT", "ESTABLISHED", "CLOSE_WAIT"}

\* A get leaves neither a byte nor a connection behind.
GetSound == WholeResponse /\ ConnectionsReleased

\* What the tables of the network hold is what was announced, answered and is
\* still valid.
TablesTrue == TypeOK /\ HttpTypeOK /\ ArpTruth /\ CacheFresh /\ CacheOnce

=============================================================================
