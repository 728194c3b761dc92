--------------------------------- MODULE Tcp ---------------------------------
(***************************************************************************)
(* One connection of net/tcp.c and its peer.                                *)
(*                                                                          *)
(* tcp_connect, tcp_listen, tcp_send, tcp_read and tcp_close are called by  *)
(* task 0 (http_get); tcp_recv and tcp_tick by the netpoll daemon, which    *)
(* preempts task 0 and runs a whole round before task 0 goes on.  So a call *)
(* of task 0 is cut at the points of Windows, and what netpoll does is one  *)
(* step.                                                                    *)
(*                                                                          *)
(* Sequence numbers count from the initial one of each side.  The peer is a *)
(* TCP that keeps to RFC 793; the network loses, repeats, delays and        *)
(* reorders what both sides send.  The peer's n-th byte has the value n.    *)
(* snd_una, which tcp.c writes and never acts upon, is left out.            *)
(***************************************************************************)
EXTENDS Integers, Sequences

CONSTANTS
  BufSize,      \* TCP_RECV_BUF_SIZE
  MaxRetries,   \* TCP_MAX_RETRIES
  Roles,        \* the ways a connection is opened: "client", "server"
  MaxSend,      \* bound: the segments of data that task 0 sends
  MaxBytes,     \* bound: the bytes that the peer sends
  MaxSeg,       \* bound: the bytes of one segment of the peer
  Windows       \* the points of task 0 at which netpoll is let in

\* The points of a call of task 0:
\*   opening, closing   the state is set, the SYN (FIN) is not yet built
\*   sending            tcp_send has tested the state
\*   reading            at the head of the loop of recv_buf_read
\*   counting           a byte is taken, recv_count is read but not yet written
Points == {"user", "opening", "sending", "closing", "reading", "counting"}

ASSUME TcpAssumption ==
  /\ BufSize \in Nat \ {0}
  /\ MaxRetries \in Nat
  /\ Roles \subseteq {"client", "server"}
  /\ MaxSend \in Nat /\ MaxBytes \in Nat /\ MaxSeg \in Nat
  /\ Windows \subseteq Points

States == {"CLOSED", "LISTEN", "SYN_SENT", "SYN_RECEIVED", "ESTABLISHED",
           "FIN_WAIT_1", "FIN_WAIT_2", "CLOSE_WAIT", "CLOSING", "LAST_ACK",
           "TIME_WAIT"}

VARIABLES
  state, sndNxt, rcvNxt, retries,
  buf, head, tail, count,      \* recv_buf, recv_head, recv_tail, recv_count
  pc,       \* the point task 0 stands at
  reg,      \* the recv_count that task 0 has read
  role,     \* how the connection was opened
  got,      \* history: the bytes that tcp_read has returned
  out,      \* the segments with a sequence number that were ever sent
  pRcv,     \* the next sequence number the peer expects
  pNxt,     \* the peer's next sequence number
  pFin      \* the peer has sent its FIN

connVars == <<state, sndNxt, rcvNxt, retries, buf, head, tail, count>>
ring     == <<buf, head, tail, count>>
callVars == <<pc, reg, role, got>>
peerVars == <<pRcv, pNxt, pFin>>
vars     == <<connVars, callVars, out, peerVars>>

Init ==
  /\ state = "CLOSED"
  /\ sndNxt = 0 /\ rcvNxt = 0 /\ retries = 0
  /\ buf = [i \in 0 .. BufSize - 1 |-> 0]
  /\ head = 0 /\ tail = 0 /\ count = 0
  /\ pc = "user" /\ reg = 0 /\ role = "none" /\ got = <<>>
  /\ out = {}
  /\ pRcv = 0 /\ pNxt = 0 /\ pFin = FALSE

----------------------------------------------------------------------------
(* The peer and the network *)

\* The peer is past its handshake.
PeerOpen == pRcv >= 1 /\ rcvNxt >= 1

\* The sequence number that follows the peer's last byte.
PeerEnd == IF pFin THEN pNxt - 1 ELSE pNxt

\* A segment of the peer: ack = 0 where the flag ACK is not set.
Segment(syn, fin, seq, len, ack) ==
  [syn |-> syn, fin |-> fin, seq |-> seq, len |-> len, ack |-> ack]

\* What a peer past its handshake may have sent, in whatever portions, and the
\* network may hold.  A FIN may come without ACK: tcp_recv provides for it.
Sent ==
  {s \in [syn : {FALSE}, fin : BOOLEAN, seq : 1 .. pNxt, len : 0 .. MaxSeg,
          ack : 0 .. pRcv] :
     /\ s.len > 0 => s.seq + s.len <= PeerEnd
     /\ s.fin => pFin /\ s.seq + s.len = PeerEnd
     /\ s.ack = 0 => s.fin}

InFlight ==
  (IF pNxt = 0 THEN {}
   ELSE {Segment(TRUE, FALSE, 0, 0, IF role = "client" THEN 1 ELSE 0)})
  \cup (IF PeerOpen THEN Sent ELSE {})

\* A client sends its SYN; a server answers ours.
PeerSyn ==
  /\ pNxt = 0 /\ role # "none"
  /\ role = "client" => pRcv = 1
  /\ pNxt' = 1
  /\ UNCHANGED <<connVars, callVars, out, pRcv, pFin>>

PeerTake ==
  /\ \E s \in out : s.seq = pRcv
  /\ pRcv' = pRcv + 1
  /\ UNCHANGED <<connVars, callVars, out, pNxt, pFin>>

PeerSend ==
  /\ PeerOpen /\ ~pFin /\ pNxt <= MaxBytes
  /\ pNxt' = pNxt + 1
  /\ UNCHANGED <<connVars, callVars, out, pRcv, pFin>>

PeerClose ==
  /\ PeerOpen /\ ~pFin
  /\ pNxt' = pNxt + 1
  /\ pFin' = TRUE
  /\ UNCHANGED <<connVars, callVars, out, pRcv>>

Peer == PeerSyn \/ PeerTake \/ PeerSend \/ PeerClose

----------------------------------------------------------------------------
(* tcp_send_segment: a SYN, a FIN or a portion of data takes one number.    *)
Emit(kind, seq) ==
  /\ out'    = out \cup {[kind |-> kind, seq |-> seq]}
  /\ sndNxt' = seq + 1

----------------------------------------------------------------------------
(* Task 0 *)
Goto(p) == pc' = p /\ UNCHANGED <<reg, role, got>>

\* tcp_connect
Connect ==
  /\ pc = "user" /\ role = "none" /\ "client" \in Roles
  /\ state' = "SYN_SENT"
  /\ pc' = "opening" /\ role' = "client"
  /\ UNCHANGED <<sndNxt, rcvNxt, retries, ring, reg, got, out, peerVars>>

SendSyn ==
  /\ pc = "opening"
  /\ Emit("SYN", sndNxt)
  /\ Goto("user")
  /\ UNCHANGED <<state, rcvNxt, retries, ring, peerVars>>

\* tcp_listen
Listen ==
  /\ pc = "user" /\ role = "none" /\ "server" \in Roles
  /\ state' = "LISTEN" /\ role' = "server"
  /\ UNCHANGED <<sndNxt, rcvNxt, retries, ring, pc, reg, got, out, peerVars>>

\* tcp_send
Send ==
  /\ pc = "user" /\ state = "ESTABLISHED"
  /\ sndNxt <= MaxSend
  /\ Goto("sending")
  /\ UNCHANGED <<connVars, out, peerVars>>

SendData ==
  /\ pc = "sending"
  /\ Emit("DATA", sndNxt)
  /\ Goto("user")
  /\ UNCHANGED <<state, rcvNxt, retries, ring, peerVars>>

\* tcp_read: recv_buf_read takes one byte after the other.
Readable == {"ESTABLISHED", "CLOSE_WAIT", "FIN_WAIT_1", "FIN_WAIT_2"}

Read ==
  /\ pc = "user" /\ state \in Readable /\ count > 0
  /\ Goto("reading")
  /\ UNCHANGED <<connVars, out, peerVars>>

ReadByte ==
  /\ pc = "reading" /\ count > 0
  /\ got'  = Append(got, buf[head])
  /\ head' = (head + 1) % BufSize
  /\ reg'  = count
  /\ pc'   = "counting"
  /\ UNCHANGED <<state, sndNxt, rcvNxt, retries, buf, tail, count, role, out, peerVars>>

ReadCount ==
  /\ pc = "counting"
  /\ count' = reg - 1
  /\ pc' = "reading" /\ reg' = 0
  /\ UNCHANGED <<state, sndNxt, rcvNxt, retries, buf, head, tail, role, got, out, peerVars>>

\* The caller's buffer is full, or there is nothing left.
ReadEnd ==
  /\ pc = "reading"
  /\ Goto("user")
  /\ UNCHANGED <<connVars, out, peerVars>>

\* tcp_close
Close ==
  /\ pc = "user"
  /\ \/ state = "ESTABLISHED" /\ state' = "FIN_WAIT_1"
     \/ state = "CLOSE_WAIT"  /\ state' = "LAST_ACK"
  /\ retries' = 0
  /\ Goto("closing")
  /\ UNCHANGED <<sndNxt, rcvNxt, ring, out, peerVars>>

Abandon ==
  /\ pc = "user" /\ state \in {"LISTEN", "SYN_SENT"}
  /\ state' = "CLOSED"
  /\ UNCHANGED <<sndNxt, rcvNxt, retries, ring, callVars, out, peerVars>>

SendFin ==
  /\ pc = "closing"
  /\ Emit("FIN", sndNxt)
  /\ Goto("user")
  /\ UNCHANGED <<state, rcvNxt, retries, ring, peerVars>>

CallStep == SendSyn \/ SendData \/ ReadByte \/ ReadCount \/ ReadEnd \/ SendFin
Call     == Connect \/ Listen \/ Send \/ Read \/ Close \/ Abandon \/ CallStep

----------------------------------------------------------------------------
(* netpoll: tcp_recv of a segment s *)
Polls == pc \in {"user"} \cup Windows

\* A segment is found to belong to the connection in state st.
Arrives(s, st) == Polls /\ state = st /\ s \in InFlight

Becomes(st) == state' = st /\ UNCHANGED <<ring, callVars, peerVars>>

\* mutant: any acknowledgment will do
AcksAny(s) == s.ack > 0

\* Every acknowledgment of our SYN or FIN names the number after it.
Acks(s) == s.ack = sndNxt

RecvListen(s) ==
  /\ Arrives(s, "LISTEN") /\ s.syn
  /\ rcvNxt' = s.seq + 1
  /\ retries' = 0
  /\ Emit("SYN", 0)
  /\ Becomes("SYN_RECEIVED")

\* The peer's SYN with ACK.  (A SYN alone, from a peer that opens at the same
\* time, is not among the segments of InFlight.)
RecvSynSent(s) ==
  /\ Arrives(s, "SYN_SENT") /\ s.syn /\ Acks(s)
  /\ rcvNxt' = s.seq + 1
  /\ retries' = 0
  /\ Becomes("ESTABLISHED")
  /\ UNCHANGED <<sndNxt, out>>

RecvSynReceived(s) ==
  /\ Arrives(s, "SYN_RECEIVED") /\ Acks(s)
  /\ retries' = 0
  /\ Becomes("ESTABLISHED")
  /\ UNCHANGED <<sndNxt, rcvNxt, out>>

\* recv_buf_write: the bytes of s that fit in.
Fits(s) == IF s.len <= BufSize - count THEN s.len ELSE BufSize - count

Written(s, n) ==
  [i \in 0 .. BufSize - 1 |->
     IF \E k \in 0 .. n - 1 : i = (tail + k) % BufSize
     THEN s.seq + (CHOOSE k \in 0 .. n - 1 : i = (tail + k) % BufSize)
     ELSE buf[i]]

\* mutant: a segment is accepted wherever it starts
InOrderOrLater(s) == s.len > 0 /\ s.seq >= rcvNxt

InOrder(s) == s.len > 0 /\ s.seq = rcvNxt

\* ACK, payload and FIN of one segment.  (The retries are 0 in this state.)
RecvEstablished(s) ==
  LET n == IF InOrder(s) THEN Fits(s) ELSE 0 IN
  /\ Arrives(s, "ESTABLISHED")
  /\ buf'    = Written(s, n)
  /\ tail'   = (tail + n) % BufSize
  /\ count'  = count + n
  /\ rcvNxt' = IF s.fin THEN s.seq + s.len + 1 ELSE rcvNxt + n
  /\ state'  = IF s.fin THEN "CLOSE_WAIT" ELSE "ESTABLISHED"
  /\ UNCHANGED <<sndNxt, retries, head, callVars, out, peerVars>>

RecvFinWait1(s) ==
  /\ Arrives(s, "FIN_WAIT_1")
  /\ \/ /\ s.ack > 0 /\ Acks(s)
        /\ Becomes(IF s.fin THEN "TIME_WAIT" ELSE "FIN_WAIT_2")
     \/ s.ack = 0 /\ s.fin /\ Becomes("CLOSING")
  /\ rcvNxt' = IF s.fin THEN s.seq + 1 ELSE rcvNxt
  /\ UNCHANGED <<sndNxt, retries, out>>

RecvFinWait2(s) ==
  /\ Arrives(s, "FIN_WAIT_2") /\ s.fin
  /\ rcvNxt' = s.seq + 1
  /\ Becomes("TIME_WAIT")
  /\ UNCHANGED <<sndNxt, retries, out>>

RecvClosing(s) ==
  /\ Arrives(s, "CLOSING") /\ Acks(s)
  /\ Becomes("TIME_WAIT")
  /\ UNCHANGED <<sndNxt, rcvNxt, retries, out>>

\* mutant: the end of LAST_ACK is that of CLOSING
RecvLastAckWaits(s) ==
  /\ Arrives(s, "LAST_ACK") /\ Acks(s)
  /\ Becomes("TIME_WAIT")
  /\ UNCHANGED <<sndNxt, rcvNxt, retries, out>>

RecvLastAck(s) ==
  /\ Arrives(s, "LAST_ACK") /\ Acks(s)
  /\ Becomes("CLOSED")
  /\ UNCHANGED <<sndNxt, rcvNxt, retries, out>>

\* RST: whatever its sequence number, in whatever state.
RecvReset ==
  /\ Polls /\ state # "CLOSED"
  /\ Becomes("CLOSED")
  /\ UNCHANGED <<sndNxt, rcvNxt, retries, out>>

Recv ==
  \/ \E s \in InFlight :
       \/ RecvListen(s) \/ RecvSynSent(s) \/ RecvSynReceived(s)
       \/ RecvEstablished(s)
       \/ RecvFinWait1(s) \/ RecvFinWait2(s) \/ RecvClosing(s) \/ RecvLastAck(s)
  \/ RecvReset

----------------------------------------------------------------------------
(* netpoll: tcp_tick, when the time of the state has passed *)
TickSyn ==
  /\ Polls /\ state \in {"SYN_SENT", "SYN_RECEIVED"} /\ retries < MaxRetries
  /\ retries' = retries + 1
  /\ Emit("SYN", 0)
  /\ UNCHANGED <<state, rcvNxt, ring, callVars, peerVars>>

\* mutant: snd_nxt is not moved back
TickFinOn ==
  /\ Polls /\ state \in {"FIN_WAIT_1", "LAST_ACK"} /\ retries < MaxRetries
  /\ retries' = retries + 1
  /\ Emit("FIN", sndNxt)
  /\ UNCHANGED <<state, rcvNxt, ring, callVars, peerVars>>

TickFin ==
  /\ Polls /\ state \in {"FIN_WAIT_1", "LAST_ACK"} /\ retries < MaxRetries
  /\ retries' = retries + 1
  /\ Emit("FIN", sndNxt - 1)
  /\ UNCHANGED <<state, rcvNxt, ring, callVars, peerVars>>

\* States in which something is sent again until the retries are used up.
Retried == {"SYN_SENT", "SYN_RECEIVED", "FIN_WAIT_1", "LAST_ACK"}

\* mutant: the retries are tried again from zero
TickRestarts ==
  /\ Polls /\ state \in Retried /\ retries >= MaxRetries
  /\ retries' = 0
  /\ UNCHANGED <<state, sndNxt, rcvNxt, ring, callVars, out, peerVars>>

TickGiveUp ==
  /\ Polls /\ state \in Retried /\ retries >= MaxRetries
  /\ Becomes("CLOSED")
  /\ UNCHANGED <<sndNxt, rcvNxt, retries, out>>

\* A FIN that comes in TIME_WAIT restarts the time, which is not shown.
TickTimeWait ==
  /\ Polls /\ state = "TIME_WAIT"
  /\ Becomes("CLOSED")
  /\ UNCHANGED <<sndNxt, rcvNxt, retries, out>>

Timer == TickSyn \/ TickFin \/ TickGiveUp \/ TickTimeWait

Next == Call \/ Peer \/ Recv \/ Timer

\* Task 0 goes on with its call; netpoll comes back every 100 ms, so a timer
\* that has run out is seen.  Nothing is assumed of the peer and the network,
\* but that the peer does not repeat its FIN for ever in TIME_WAIT.
Spec == Init /\ [][Next]_vars /\ WF_vars(CallStep) /\ WF_vars(Timer)

----------------------------------------------------------------------------
(* Properties *)

TypeOK ==
  /\ state \in States
  /\ sndNxt \in 0 .. MaxSend + 2
  /\ rcvNxt \in 0 .. MaxBytes + 2
  /\ retries \in 0 .. MaxRetries
  /\ buf \in [0 .. BufSize - 1 -> 0 .. MaxBytes]
  /\ head \in 0 .. BufSize - 1 /\ tail \in 0 .. BufSize - 1
  /\ count \in 0 .. BufSize /\ reg \in 0 .. BufSize
  /\ pc \in Points
  /\ role \in {"none", "client", "server"}
  /\ got \in Seq(1 .. MaxBytes)
  /\ out \in SUBSET [kind : {"SYN", "DATA", "FIN"}, seq : 0 .. MaxSend + 1]
  /\ pRcv \in 0 .. MaxSend + 2 /\ pNxt \in 0 .. MaxBytes + 2
  /\ pFin \in BOOLEAN

\* What tcp_read returns is the peer's stream from its first byte on, whatever
\* the network did to the segments: nothing missing, repeated or out of order.
StreamIntact == \A i \in 1 .. Len(got) : got[i] = i

\* The bytes that the buffer holds, a byte that is being taken left out.
Unread == IF pc = "counting" THEN count - 1 ELSE count

\* Until the peer's FIN, every byte that was acknowledged has been read or is
\* waiting in the buffer: recv_count is the number of "bytes available".
AckedIsKept == state = "ESTABLISHED" => rcvNxt = 1 + Len(got) + Unread

\* The stream on its whole way: in order, and none of it lost once acknowledged.
StreamKept == TypeOK /\ StreamIntact /\ AckedIsKept

\* The same once the peer has closed: CLOSE_WAIT means that the whole stream
\* has come in, no byte before the FIN is missing.
NoGapAtClose == state = "CLOSE_WAIT" => rcvNxt = 2 + Len(got) + Unread

\* A sequence number is never used for two things, the FIN has one number
\* however often it is sent, and nothing is sent after it.
SendNumbering ==
  \A s, t \in out : /\ s.seq = t.seq => s.kind = t.kind
                    /\ s.kind = "FIN" => t.seq <= s.seq

\* FIN_WAIT_2 and TIME_WAIT are reached only when the peer has received
\* everything that was sent, the FIN included.
CloseIsAcknowledged ==
  state \in {"FIN_WAIT_2", "TIME_WAIT"} => pRcv = sndNxt

\* A connection does not stay for ever in a state that has a timer: it gets
\* on, or it is given up and its slot is free again.
TimersExpire ==
  state \in Retried \cup {"TIME_WAIT"} ~> state \notin Retried \cup {"TIME_WAIT"}

\* What http_get relies on: whatever segments come and in whatever order, the
\* connection moves only as Connection says; bytes come only while it is
\* established, none goes but by tcp_read.
User == INSTANCE Connection WITH Capacity <- BufSize,
                                 conn <- [st |-> state, unread |-> Unread]
ConnectionKept == User!Spec

============================================================================
