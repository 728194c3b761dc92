------------------------------ MODULE TcpProofs ------------------------------
(***************************************************************************)
(* A connection of net/tcp.c hands out the peer's stream, numbers what it  *)
(* sends, closes and changes its state as it should, for any size of the   *)
(* buffer, any number of bytes and of retries and whatever the network     *)
(* does, as long as netpoll is not let in where Cut says.                  *)
(***************************************************************************)
EXTENDS Tcp, SequenceTheorems, TLAPS

\* The points at which task 0 has changed one half of what belongs together: a
\* state whose SYN or FIN is not yet sent, a byte taken but not yet counted.
Cut == {"opening", "closing", "counting"}

NoCut == Windows \cap Cut = {}

FinSent == \E s \in out : s.kind = "FIN"

\* The buffer holds the bytes that follow those already read.
RingHoldsStream ==
  /\ pc = "counting" => reg = count /\ count >= 1
  /\ tail = (head + Unread) % BufSize
  /\ \A k \in 0 .. Unread - 1 : buf[(head + k) % BufSize] = Len(got) + 1 + k

\* Nothing is sent or received before the connection is opened, and nothing is
\* read before it is established.
Handshake ==
  /\ role = "none" => state = "CLOSED" /\ pc = "user"
  /\ role = "none" \/ state \in {"LISTEN", "SYN_SENT", "SYN_RECEIVED"} =>
       got = <<>> /\ count = 0 /\ pc \in {"user", "opening"}
  /\ role = "none" \/ state = "LISTEN" \/ pc = "opening" => sndNxt = 0
  /\ pc = "opening" => state = "SYN_SENT"
  /\ state \in {"SYN_SENT", "SYN_RECEIVED"} /\ pc # "opening" => sndNxt = 1
  /\ state = "SYN_RECEIVED" => rcvNxt = 1

\* Neither side acknowledges what was not sent.
Acknowledged ==
  /\ rcvNxt <= pNxt
  /\ pRcv <= sndNxt
  /\ pNxt <= IF pFin THEN MaxBytes + 2 ELSE MaxBytes + 1
  /\ pFin => pNxt >= 2

\* The SYN is the first thing sent, and the FIN the last.
Numbered ==
  /\ \A s \in out : /\ s.seq < sndNxt
                    /\ s.kind = "SYN" => s.seq = 0
                    /\ s.kind # "SYN" => s.seq >= 1
                    /\ s.kind = "FIN" => s.seq = sndNxt - 1
                    /\ s.kind = "DATA" /\ FinSent => s.seq < sndNxt - 1
  /\ ~FinSent => sndNxt <= MaxSend + 1
  /\ pc = "sending" => sndNxt \in 1 .. MaxSend
  /\ pc \in {"opening", "sending", "closing"} => ~FinSent
  /\ pc = "closing" => state \in {"FIN_WAIT_1", "LAST_ACK"} /\ sndNxt >= 1
  /\ state \in {"ESTABLISHED", "CLOSE_WAIT"} => ~FinSent /\ sndNxt >= 1
  /\ state \in {"LISTEN", "SYN_SENT", "SYN_RECEIVED"} => ~FinSent
  /\ state \in {"FIN_WAIT_1", "FIN_WAIT_2", "CLOSING", "LAST_ACK", "TIME_WAIT"}
       => pc = "closing" \/ FinSent

TcpInv ==
  /\ TypeOK /\ StreamIntact /\ AckedIsKept /\ CloseIsAcknowledged
  /\ RingHoldsStream /\ Handshake /\ Acknowledged /\ Numbered

----------------------------------------------------------------------------
\* A place of the ring, at most one round further.
LEMMA Around ==
  ASSUME NEW i \in 0 .. BufSize - 1, NEW k \in 0 .. BufSize
  PROVE  (i + k) % BufSize = IF i + k < BufSize THEN i + k ELSE i + k - BufSize
BY TcpAssumption

\* Places less than a round apart differ.
LEMMA Apart ==
  ASSUME NEW i \in 0 .. BufSize - 1,
         NEW j \in 0 .. BufSize - 1, NEW k \in 0 .. BufSize - 1,
         (i + j) % BufSize = (i + k) % BufSize
  PROVE  j = k
<1>1. BufSize \in Nat /\ j \in 0 .. BufSize /\ k \in 0 .. BufSize
  BY TcpAssumption
<1> DEFINE at(l) == IF i + l < BufSize THEN i + l ELSE i + l - BufSize
<1>2. (i + j) % BufSize = at(j)
  BY <1>1, Around
<1>3. (i + k) % BufSize = at(k)
  BY <1>1, Around
<1>4. at(j) = at(k)
  BY <1>2, <1>3
<1> QED BY <1>1, <1>4

\* Going on from a place in the ring.
LEMMA Further ==
  ASSUME NEW i \in 0 .. BufSize - 1, NEW j \in Nat, NEW k \in Nat, j + k <= BufSize
  PROVE  (((i + j) % BufSize) + k) % BufSize = (i + (j + k)) % BufSize
<1>1. BufSize \in Nat /\ j \in 0 .. BufSize /\ k \in 0 .. BufSize /\ j + k \in 0 .. BufSize
  BY TcpAssumption
<1> DEFINE at(h, l) == IF h + l < BufSize THEN h + l ELSE h + l - BufSize
<1>2. (i + j) % BufSize = at(i, j)
  BY <1>1, Around
<1>4. (i + (j + k)) % BufSize = at(i, j + k)
  BY <1>1, Around
<1>5. at(i, j) \in 0 .. BufSize - 1
  BY <1>1
<1>6. (at(i, j) + k) % BufSize = at(at(i, j), k)
  BY <1>1, <1>5, Around
<1>7. at(at(i, j), k) = at(i, j + k)
  BY <1>1
<1> QED BY <1>2, <1>4, <1>6, <1>7

\* recv_buf_write puts the k-th byte of the segment k places after the tail.
LEMMA WrittenAt ==
  ASSUME TypeOK, NEW s, s.seq \in Int, NEW n \in 0 .. BufSize, NEW k \in 0 .. n - 1
  PROVE  Written(s, n)[(tail + k) % BufSize] = s.seq + k
<1> DEFINE i == (tail + k) % BufSize
           c == CHOOSE l \in 0 .. n - 1 : i = (tail + l) % BufSize
<1>1. i \in 0 .. BufSize - 1
  BY Around, TcpAssumption DEF TypeOK
<1>2. Written(s, n)[i] = s.seq + c
  BY <1>1 DEF Written
<1>3. c \in 0 .. n - 1 /\ i = (tail + c) % BufSize
  OBVIOUS
<1>4. c = k
  <2>1. BufSize \in Nat /\ tail \in 0 .. BufSize - 1
    BY TcpAssumption DEF TypeOK
  <2>2. c \in 0 .. BufSize - 1 /\ k \in 0 .. BufSize - 1
    BY <2>1, <1>3
  <2> HIDE DEF c
  <2> QED BY <1>3, <2>1, <2>2, Apart
<1> QED BY <1>2, <1>4

\* It leaves alone the places it does not come to.
LEMMA WrittenElsewhere ==
  ASSUME NEW s, NEW n, NEW i \in 0 .. BufSize - 1,
         \A k \in 0 .. n - 1 : i # (tail + k) % BufSize
  PROVE  Written(s, n)[i] = buf[i]
BY DEF Written

\* A step that does not touch the ring, and is not a read.
LEMMA RingKept ==
  ASSUME StreamIntact, RingHoldsStream, UNCHANGED <<ring, got>>,
         pc # "counting", pc' # "counting"
  PROVE  StreamIntact' /\ RingHoldsStream'
<1> USE DEF ring, Unread
<1>1. StreamIntact'
  BY DEF StreamIntact
<1>2. Unread' = Unread
  OBVIOUS
<1>3. RingHoldsStream'
  BY <1>2 DEF RingHoldsStream
<1> QED BY <1>1, <1>3

\* A step of the peer or of task 0 that sends nothing and lets the peer be:
\* what Numbered says of the point and the state is left to show.
LEMMA NumberedKept ==
  ASSUME Numbered, UNCHANGED <<out, sndNxt>>,
         pc' = "sending" => sndNxt \in 1 .. MaxSend,
         pc' \in {"opening", "sending", "closing"} => ~FinSent,
         pc' = "closing" => state' \in {"FIN_WAIT_1", "LAST_ACK"} /\ sndNxt >= 1,
         state' \in {"ESTABLISHED", "CLOSE_WAIT"} => ~FinSent /\ sndNxt >= 1,
         state' \in {"LISTEN", "SYN_SENT", "SYN_RECEIVED"} => ~FinSent,
         state' \in {"FIN_WAIT_1", "FIN_WAIT_2", "CLOSING", "LAST_ACK", "TIME_WAIT"}
           => pc' = "closing" \/ FinSent
  PROVE  Numbered'
<1>1. FinSent' <=> FinSent
  BY DEF FinSent
<1> QED BY <1>1 DEF Numbered

\* tcp_init establishes the invariant.
LEMMA InitInv == Init => TcpInv
<1> SUFFICES ASSUME Init PROVE TcpInv
  OBVIOUS
<1>1. TypeOK
  <2>1. got \in Seq(1 .. MaxBytes)
    BY DEF Init
  <2>2. /\ buf \in [0 .. BufSize - 1 -> 0 .. MaxBytes]
        /\ out \in SUBSET [kind : {"SYN", "DATA", "FIN"}, seq : 0 .. MaxSend + 1]
    BY TcpAssumption DEF Init
  <2> QED BY <2>1, <2>2, TcpAssumption DEF Init, TypeOK, States, Points
<1>2. RingHoldsStream
  <2>1. (0 + 0) % BufSize = 0
    BY Around, TcpAssumption
  <2> QED BY <2>1 DEF Init, RingHoldsStream, Unread
<1>3. StreamIntact /\ AckedIsKept /\ CloseIsAcknowledged
  BY DEF Init, StreamIntact, AckedIsKept, CloseIsAcknowledged
<1>4. Handshake /\ Acknowledged
  BY TcpAssumption DEF Init, Handshake, Acknowledged
<1>5. Numbered
  BY TcpAssumption DEF Init, Numbered, FinSent
<1> QED BY <1>1, <1>2, <1>3, <1>4, <1>5 DEF TcpInv

----------------------------------------------------------------------------
(* The peer *)

LEMMA PeerInv ==
  ASSUME TcpInv, Peer
  PROVE  TcpInv'
<1> USE TcpAssumption DEF TcpInv, peerVars, connVars, callVars, ring
<1>0. UNCHANGED <<connVars, callVars, out>>
  BY DEF Peer, PeerSyn, PeerTake, PeerSend, PeerClose
<1>1. /\ pRcv' \in 0 .. MaxSend + 2 /\ pNxt' \in 0 .. MaxBytes + 2 /\ pFin' \in BOOLEAN
      /\ Acknowledged' /\ CloseIsAcknowledged'
  <2>1. CASE PeerSyn
    BY <1>0, <2>1 DEF PeerSyn, Acknowledged, CloseIsAcknowledged, TypeOK
  <2>2. CASE PeerTake
    <3>1. PICK s \in out : s.seq = pRcv
      BY <2>2 DEF PeerTake
    <3>2. pRcv < sndNxt
      BY <3>1 DEF Numbered
    <3> QED BY <1>0, <2>2, <3>2 DEF PeerTake, Acknowledged, CloseIsAcknowledged, TypeOK
  <2>3. CASE PeerSend
    BY <1>0, <2>3 DEF PeerSend, PeerOpen, Acknowledged, CloseIsAcknowledged, TypeOK
  <2>4. CASE PeerClose
    BY <1>0, <2>4 DEF PeerClose, PeerOpen, Acknowledged, CloseIsAcknowledged, TypeOK
  <2> QED BY <2>1, <2>2, <2>3, <2>4 DEF Peer
<1>2. TypeOK'
  BY <1>0, <1>1 DEF TypeOK
<1>3. StreamIntact' /\ AckedIsKept' /\ RingHoldsStream' /\ Handshake'
  BY <1>0 DEF StreamIntact, AckedIsKept, RingHoldsStream, Handshake, Unread
<1>4. Numbered'
  BY <1>0 DEF Numbered, FinSent
<1> QED BY <1>1, <1>2, <1>3, <1>4

----------------------------------------------------------------------------
(* Task 0 *)

\* tcp_connect and tcp_listen: the connection is still as tcp_init left it.
LEMMA OpenInv ==
  ASSUME TcpInv, Connect \/ Listen
  PROVE  TcpInv'
<1> USE TcpAssumption DEF TcpInv, Connect, Listen, peerVars, ring
<1>1. TypeOK'
  BY DEF TypeOK, States, Points
<1>2. StreamIntact' /\ RingHoldsStream'
  BY RingKept
<1>3. AckedIsKept' /\ CloseIsAcknowledged' /\ Acknowledged'
  BY DEF AckedIsKept, CloseIsAcknowledged, Acknowledged
<1>4. Handshake'
  BY DEF Handshake
<1>5. Numbered'
  <2>1. ~FinSent
    BY DEF FinSent, Numbered, Handshake, TypeOK
  <2> QED BY <2>1, NumberedKept
<1> QED BY <1>1, <1>2, <1>3, <1>4, <1>5

\* What tcp_send_segment does to the numbers, for a SYN.
LEMMA SendSynInv ==
  ASSUME TcpInv, SendSyn
  PROVE  TcpInv'
<1> USE TcpAssumption DEF TcpInv, SendSyn, Emit, Goto, peerVars, ring
<1>0. sndNxt = 0 /\ state = "SYN_SENT" /\ sndNxt' = 1 /\ out = {}
  <2>1. sndNxt = 0
    BY DEF Handshake
  <2> QED BY <2>1 DEF Handshake, Numbered, TypeOK
<1>1. TypeOK'
  BY <1>0 DEF TypeOK, Points
<1>2. StreamIntact' /\ RingHoldsStream'
  BY RingKept
<1>3. AckedIsKept' /\ CloseIsAcknowledged' /\ Acknowledged' /\ Handshake'
  BY <1>0 DEF AckedIsKept, CloseIsAcknowledged, Acknowledged, Handshake, TypeOK
<1>4. Numbered'
  BY <1>0 DEF Numbered, FinSent
<1> QED BY <1>1, <1>2, <1>3, <1>4

\* tcp_send has found the connection established, or sends.
LEMMA SendInv ==
  ASSUME TcpInv, Send \/ SendData
  PROVE  TcpInv'
<1> USE TcpAssumption DEF TcpInv, Goto, peerVars, connVars, ring
<1>1. CASE Send
  <2> USE <1>1 DEF Send
  <2>1. TypeOK'
    BY DEF TypeOK, Points
  <2>2. StreamIntact' /\ RingHoldsStream'
    BY RingKept
  <2>3. AckedIsKept' /\ CloseIsAcknowledged' /\ Acknowledged' /\ Handshake'
    BY DEF AckedIsKept, CloseIsAcknowledged, Acknowledged, Handshake, Unread
  <2>4. Numbered'
    BY DEF Numbered, FinSent, TypeOK
  <2> QED BY <2>1, <2>2, <2>3, <2>4
<1>2. CASE SendData
  <2> USE <1>2 DEF SendData, Emit
  <2>0. sndNxt \in 1 .. MaxSend /\ ~FinSent
    BY DEF Numbered
  <2>1. TypeOK'
    BY <2>0 DEF TypeOK, Points
  <2>2. StreamIntact' /\ RingHoldsStream'
    BY RingKept
  <2>3. AckedIsKept' /\ Acknowledged' /\ Handshake'
    BY <2>0 DEF AckedIsKept, Acknowledged, Handshake, Unread, TypeOK
  <2>4. CloseIsAcknowledged'
    BY <2>0 DEF CloseIsAcknowledged, Numbered
  <2>5. Numbered'
    <3>1. ~FinSent'
      BY <2>0 DEF FinSent
    <3>2. \A s \in out' : /\ s.seq < sndNxt'
                          /\ s.kind = "SYN" => s.seq = 0
                          /\ s.kind # "SYN" => s.seq >= 1
                          /\ s.kind # "FIN"
      BY <2>0 DEF Numbered, TypeOK, FinSent
    <3> QED BY <2>0, <3>1, <3>2 DEF Numbered
  <2> QED BY <2>1, <2>2, <2>3, <2>4, <2>5
<1> QED BY <1>1, <1>2

\* tcp_read: the byte taken is the next of the stream, and stays counted until
\* recv_count is written.
LEMMA ReadInv ==
  ASSUME TcpInv, Read \/ ReadByte \/ ReadCount \/ ReadEnd
  PROVE  TcpInv'
<1> USE TcpAssumption DEF TcpInv, Goto, peerVars, connVars, ring
<1>1. CASE Read \/ ReadEnd
  <2> USE <1>1 DEF Read, ReadEnd, Readable
  <2>1. TypeOK'
    BY DEF TypeOK, Points
  <2>2. StreamIntact' /\ RingHoldsStream'
    BY RingKept
  <2>3. AckedIsKept' /\ CloseIsAcknowledged' /\ Acknowledged' /\ Handshake'
    BY DEF AckedIsKept, CloseIsAcknowledged, Acknowledged, Handshake, Unread
  <2>4. Numbered'
    BY DEF Numbered, FinSent
  <2> QED BY <2>1, <2>2, <2>3, <2>4
<1>2. CASE ReadByte
  <2> USE <1>2 DEF ReadByte
  <2>0. /\ BufSize \in Nat \ {0} /\ head \in 0 .. BufSize - 1 /\ count \in 1 .. BufSize
        /\ Len(got) \in Nat /\ buf[head] \in 0 .. MaxBytes
    BY DEF TypeOK
  <2>1. buf[head] = Len(got) + 1
    <3>0. 0 \in 0 .. BufSize /\ head + 0 = head /\ head < BufSize
      BY <2>0
    <3>1. (head + 0) % BufSize = head
      BY <2>0, <3>0, Around
    <3>2. buf[(head + 0) % BufSize] = Len(got) + 1 + 0
      BY <2>0 DEF RingHoldsStream, Unread
    <3> QED BY <3>1, <3>2, <2>0
  <2>2. head' \in 0 .. BufSize - 1
    <3>1. (head + 1) % BufSize = IF head + 1 < BufSize THEN head + 1 ELSE head + 1 - BufSize
      BY <2>0, Around
    <3> QED BY <3>1, <2>0
  <2>3. got' \in Seq(1 .. MaxBytes) /\ Len(got') = Len(got) + 1
        /\ \A i \in 1 .. Len(got) : got'[i] = got[i]
        /\ got'[Len(got) + 1] = buf[head]
    BY <2>0, <2>1 DEF TypeOK
  <2>4. TypeOK'
    BY <2>0, <2>2, <2>3 DEF TypeOK, Points
  <2>5. StreamIntact'
    BY <2>0, <2>1, <2>3 DEF StreamIntact
  <2>6. Unread' = Unread - 1 /\ Unread = count
    BY DEF Unread
  <2>7. RingHoldsStream'
    <3>1. \A k \in 0 .. count - 1 : (head' + k) % BufSize = (head + (1 + k)) % BufSize
      BY <2>0, Further
    <3>2. tail = (head' + Unread') % BufSize
      <4>1. tail = (head + count) % BufSize
        BY <2>6 DEF RingHoldsStream
      <4>2. count - 1 \in 0 .. count - 1 /\ 1 + (count - 1) = count
        BY <2>0
      <4>3. (head' + (count - 1)) % BufSize = (head + (1 + (count - 1))) % BufSize
        BY <4>2, <3>1
      <4>4. Unread' = count - 1
        BY <2>6
      <4> QED BY <4>1, <4>2, <4>3, <4>4
    <3>3. ASSUME NEW k \in 0 .. Unread' - 1
          PROVE  buf[(head' + k) % BufSize] = Len(got') + 1 + k
      <4>1. 1 + k \in 0 .. Unread - 1 /\ k \in 0 .. count - 1
        BY <2>0, <2>6
      <4>2. buf[(head + (1 + k)) % BufSize] = Len(got) + 1 + (1 + k)
        BY <4>1 DEF RingHoldsStream
      <4> QED BY <4>1, <4>2, <3>1, <2>3, <2>0
    <3> QED BY <2>0, <3>2, <3>3 DEF RingHoldsStream
  <2>8. AckedIsKept' /\ CloseIsAcknowledged' /\ Acknowledged' /\ Handshake'
    <3>1. AckedIsKept'
      BY <2>0, <2>3, <2>6 DEF AckedIsKept, TypeOK
    <3>2. CloseIsAcknowledged' /\ Acknowledged'
      BY DEF CloseIsAcknowledged, Acknowledged
    <3>3. role # "none" /\ state \notin {"LISTEN", "SYN_SENT", "SYN_RECEIVED"}
      BY DEF Handshake
    <3>4. Handshake'
      BY <3>3 DEF Handshake
    <3> QED BY <3>1, <3>2, <3>4
  <2>9. Numbered'
    BY DEF Numbered, FinSent
  <2> QED BY <2>4, <2>5, <2>7, <2>8, <2>9
<1>3. CASE ReadCount
  <2> USE <1>3 DEF ReadCount
  <2>1. reg = count /\ count >= 1
    BY DEF RingHoldsStream
  <2>2. TypeOK'
    BY <2>1 DEF TypeOK, Points
  <2>3. Unread' = Unread
    BY <2>1 DEF Unread
  <2>4. StreamIntact' /\ RingHoldsStream'
    BY <2>3 DEF StreamIntact, RingHoldsStream
  <2>5. AckedIsKept' /\ CloseIsAcknowledged' /\ Acknowledged' /\ Handshake'
    BY <2>3 DEF AckedIsKept, CloseIsAcknowledged, Acknowledged, Handshake
  <2>6. Numbered'
    BY DEF Numbered, FinSent
  <2> QED BY <2>2, <2>4, <2>5, <2>6
<1> QED BY <1>1, <1>2, <1>3

\* tcp_close, before its FIN is built, and where there is none to send.
LEMMA CloseInv ==
  ASSUME TcpInv, Close \/ Abandon
  PROVE  TcpInv'
<1> USE TcpAssumption DEF TcpInv, Close, Abandon, Goto, peerVars, callVars, ring
<1>1. TypeOK'
  <2>1. state' \in States /\ retries' \in 0 .. MaxRetries /\ pc' \in Points
    BY DEF TypeOK, States, Points
  <2> QED BY <2>1 DEF TypeOK
<1>2. StreamIntact' /\ RingHoldsStream'
  BY RingKept
<1>3. AckedIsKept' /\ CloseIsAcknowledged' /\ Acknowledged' /\ Handshake'
  BY DEF AckedIsKept, CloseIsAcknowledged, Acknowledged, Handshake, Unread
<1>4. Numbered'
  BY DEF Numbered, FinSent
<1> QED BY <1>1, <1>2, <1>3, <1>4

\* The FIN takes the last number.
LEMMA SendFinInv ==
  ASSUME TcpInv, SendFin
  PROVE  TcpInv'
<1> USE TcpAssumption DEF TcpInv, SendFin, Emit, Goto, peerVars, ring
<1>0. sndNxt \in 1 .. MaxSend + 1 /\ ~FinSent /\ state \in {"FIN_WAIT_1", "LAST_ACK"}
  BY DEF Numbered, TypeOK
<1>1. TypeOK'
  BY <1>0 DEF TypeOK, Points
<1>2. StreamIntact' /\ RingHoldsStream'
  BY RingKept
<1>3. AckedIsKept' /\ CloseIsAcknowledged' /\ Acknowledged' /\ Handshake'
  BY <1>0 DEF AckedIsKept, CloseIsAcknowledged, Acknowledged, Handshake, Unread, TypeOK
<1>4. Numbered'
  <2>1. FinSent'
    <3>1. [kind |-> "FIN", seq |-> sndNxt] \in out'
      OBVIOUS
    <3> QED BY <3>1 DEF FinSent
  <2>2. \A s \in out' : /\ s.seq < sndNxt'
                        /\ s.kind = "SYN" => s.seq = 0
                        /\ s.kind # "SYN" => s.seq >= 1
                        /\ s.kind = "FIN" => s.seq = sndNxt' - 1
                        /\ s.kind = "DATA" => s.seq < sndNxt' - 1
    BY <1>0 DEF Numbered, TypeOK, FinSent
  <2> QED BY <1>0, <2>1, <2>2 DEF Numbered
<1> QED BY <1>1, <1>2, <1>3, <1>4

----------------------------------------------------------------------------
(* netpoll *)

\* netpoll is let in only where Cut does not say.
LEMMA PollsOutside ==
  ASSUME NoCut, Polls
  PROVE  pc \in {"user", "sending", "reading"}
BY TcpAssumption DEF NoCut, Polls, Cut, Points

\* What arrives is the peer's SYN or what a peer past its handshake has sent.
LEMMA Origin ==
  ASSUME NEW s \in InFlight
  PROVE  \/ s \in Sent
         \/ pNxt # 0 /\ \E a \in {0, 1} : s = Segment(TRUE, FALSE, 0, 0, a)
BY DEF InFlight

LEMMA FromSent ==
  ASSUME TypeOK, NEW s \in Sent
  PROVE  /\ ~s.syn /\ s.syn \in BOOLEAN /\ s.fin \in BOOLEAN
         /\ s.seq \in 1 .. pNxt /\ s.len \in 0 .. MaxSeg /\ s.ack \in 0 .. pRcv
         /\ s.len > 0 => s.seq + s.len <= PeerEnd
         /\ s.fin => pFin /\ s.seq + s.len = PeerEnd
<1>1. s \in [syn : {FALSE}, fin : BOOLEAN, seq : 1 .. pNxt, len : 0 .. MaxSeg, ack : 0 .. pRcv]
  BY DEF Sent
<1>2. /\ s.len > 0 => s.seq + s.len <= PeerEnd
      /\ s.fin => pFin /\ s.seq + s.len = PeerEnd
  BY DEF Sent
<1>3. s.syn = FALSE /\ s.fin \in BOOLEAN
  BY <1>1
<1>4. s.seq \in 1 .. pNxt /\ s.len \in 0 .. MaxSeg /\ s.ack \in 0 .. pRcv
  BY <1>1
<1> QED BY <1>2, <1>3, <1>4

\* The peer's SYN.
LEMMA SynArrives ==
  ASSUME TypeOK, NEW s \in InFlight, s.syn
  PROVE  s.seq = 0 /\ ~s.fin /\ s.len = 0 /\ s.ack \in 0 .. 1 /\ pNxt >= 1
<1>1. s \notin Sent
  BY FromSent
<1>2. PICK a \in {0, 1} : pNxt # 0 /\ s = Segment(TRUE, FALSE, 0, 0, a)
  BY <1>1, Origin
<1> QED BY <1>2 DEF Segment, TypeOK

\* What else may arrive: a portion of the stream, and a number to acknowledge
\* that the peer has reached.
LEMMA Arriving ==
  ASSUME TypeOK, NEW s \in InFlight
  PROVE  /\ s.syn \in BOOLEAN /\ s.fin \in BOOLEAN
         /\ s.seq \in 0 .. pNxt /\ s.len \in Nat /\ s.ack \in Nat
         /\ ~s.syn => s.ack <= pRcv
         /\ s.len > 0 => s.seq >= 1 /\ s.seq + s.len <= PeerEnd
         /\ s.fin => pFin /\ s.seq + s.len + 1 = pNxt
<1>1. CASE s \in Sent
  <2>1. s.fin => pFin /\ PeerEnd = pNxt - 1
    BY <1>1, FromSent DEF PeerEnd
  <2>2. pNxt \in Nat /\ pRcv \in Nat /\ MaxSeg \in Nat
    BY TcpAssumption DEF TypeOK
  <2> QED BY <1>1, <2>1, <2>2, FromSent
<1>2. CASE \E a \in {0, 1} : pNxt # 0 /\ s = Segment(TRUE, FALSE, 0, 0, a)
  <2>1. PICK a \in {0, 1} : pNxt # 0 /\ s = Segment(TRUE, FALSE, 0, 0, a)
    BY <1>2
  <2>2. s.syn = TRUE /\ s.fin = FALSE /\ s.seq = 0 /\ s.len = 0 /\ s.ack = a
    BY <2>1 DEF Segment
  <2>3. s.syn \in BOOLEAN /\ s.fin \in BOOLEAN /\ s.syn /\ ~s.fin
    BY <2>2
  <2>4. s.seq \in 0 .. pNxt /\ s.len \in Nat /\ ~(s.len > 0) /\ s.ack \in Nat
    <3>1. pNxt \in Nat
      BY TcpAssumption DEF TypeOK
    <3>2. s.seq = 0 /\ s.len = 0 /\ s.ack = a
      BY <2>2
    <3>3. a \in Nat
      OBVIOUS
    <3> QED BY <3>1, <3>2, <3>3
  <2> QED BY <2>3, <2>4
<1> QED BY <1>1, <1>2, Origin

\* The handshake.
LEMMA RecvOpeningInv ==
  ASSUME TcpInv, NoCut, NEW s \in InFlight,
         RecvListen(s) \/ RecvSynSent(s) \/ RecvSynReceived(s)
  PROVE  TcpInv'
<1> USE TcpAssumption DEF TcpInv, Arrives, Becomes, Acks, Emit, peerVars, callVars
<1>0. pc = "user" /\ got = <<>> /\ count = 0 /\ UNCHANGED ring
  <2>1. pc \in {"user", "sending", "reading"}
    BY PollsOutside DEF RecvListen, RecvSynSent, RecvSynReceived
  <2> QED BY <2>1 DEF RecvListen, RecvSynSent, RecvSynReceived, Handshake
<1>1. StreamIntact' /\ RingHoldsStream'
  BY <1>0, RingKept DEF RecvListen, RecvSynSent, RecvSynReceived
<1>2. CASE RecvListen(s)
  <2> USE <1>2 DEF RecvListen
  <2>1. s.seq = 0 /\ pNxt >= 1 /\ sndNxt = 0 /\ ~FinSent
    BY SynArrives DEF Handshake, Numbered
  <2>2. TypeOK'
    BY <2>1 DEF TypeOK, States, ring
  <2>3. AckedIsKept' /\ CloseIsAcknowledged' /\ Acknowledged' /\ Handshake'
    BY <1>0, <2>1 DEF AckedIsKept, CloseIsAcknowledged, Acknowledged, Handshake, TypeOK, ring
  <2>4. Numbered'
    <3>1. out = {}
      BY <2>1 DEF Numbered, TypeOK
    <3> QED BY <1>0, <2>1, <3>1 DEF Numbered, FinSent
  <2> QED BY <1>1, <2>2, <2>3, <2>4
<1>3. CASE RecvSynSent(s)
  <2> USE <1>3 DEF RecvSynSent
  <2>1. s.seq = 0 /\ pNxt >= 1 /\ sndNxt = 1
    BY <1>0, SynArrives DEF Handshake
  <2>2. TypeOK'
    BY <2>1 DEF TypeOK, States, ring
  <2>3. AckedIsKept' /\ CloseIsAcknowledged' /\ Acknowledged' /\ Handshake'
    BY <1>0, <2>1 DEF AckedIsKept, CloseIsAcknowledged, Acknowledged, Handshake, Unread, TypeOK,
       ring
  <2>4. Numbered'
    BY <1>0, <2>1 DEF Numbered, FinSent
  <2> QED BY <1>1, <2>2, <2>3, <2>4
<1>4. CASE RecvSynReceived(s)
  <2> USE <1>4 DEF RecvSynReceived
  <2>1. sndNxt = 1 /\ rcvNxt = 1
    BY <1>0 DEF Handshake
  <2>2. TypeOK'
    BY DEF TypeOK, States, ring
  <2>3. AckedIsKept' /\ CloseIsAcknowledged' /\ Acknowledged' /\ Handshake'
    BY <1>0, <2>1 DEF AckedIsKept, CloseIsAcknowledged, Acknowledged, Handshake, Unread, ring
  <2>4. Numbered'
    BY <1>0, <2>1 DEF Numbered, FinSent
  <2> QED BY <1>1, <2>2, <2>3, <2>4
<1> QED BY <1>2, <1>3, <1>4

\* A segment of the established connection: the bytes taken in are the next of
\* the stream, and come behind those that wait.
LEMMA RecvEstablishedInv ==
  ASSUME TcpInv, NoCut, NEW s \in InFlight, RecvEstablished(s)
  PROVE  TcpInv'
<1> DEFINE n == IF InOrder(s) THEN Fits(s) ELSE 0
<1> USE TcpAssumption DEF TcpInv, RecvEstablished, Arrives, peerVars, callVars
<1>0. /\ BufSize \in Nat \ {0} /\ count \in 0 .. BufSize /\ rcvNxt \in Nat /\ pNxt \in Nat
      /\ head \in 0 .. BufSize - 1 /\ tail \in 0 .. BufSize - 1 /\ Len(got) \in Nat
      /\ MaxBytes \in Nat
  BY DEF TypeOK
<1>1. pc \in {"user", "sending", "reading"} /\ Unread = count
  BY PollsOutside DEF Unread
<1>2. /\ s.seq \in 0 .. pNxt /\ s.len \in Nat
      /\ s.len > 0 => s.seq >= 1 /\ s.seq + s.len <= PeerEnd
      /\ s.fin \in BOOLEAN /\ (s.fin => s.seq + s.len + 1 = pNxt)
  BY <1>0, Arriving
<1>3. n \in 0 .. BufSize - count /\ n <= s.len /\ (n > 0 => s.seq = rcvNxt)
  BY <1>0, <1>2 DEF InOrder, Fits
<1>4. PeerEnd <= MaxBytes + 1 /\ PeerEnd <= pNxt /\ pNxt <= MaxBytes + 2
  BY <1>0 DEF PeerEnd, Acknowledged
<1>d. PeerEnd \in Int
  BY <1>0 DEF PeerEnd
<1>5. rcvNxt = 1 + Len(got) + count
  BY <1>1 DEF AckedIsKept
<1>a. /\ buf' = Written(s, n) /\ tail' = (tail + n) % BufSize /\ count' = count + n
      /\ rcvNxt' = (IF s.fin THEN s.seq + s.len + 1 ELSE rcvNxt + n)
      /\ state' = (IF s.fin THEN "CLOSE_WAIT" ELSE "ESTABLISHED")
      /\ UNCHANGED <<sndNxt, retries, head, callVars, out, peerVars>>
      /\ state = "ESTABLISHED"
  OBVIOUS
<1>b. n \in 0 .. BufSize
  BY <1>3, <1>0
<1>6. \A k \in 0 .. n - 1 : buf'[(tail + k) % BufSize] = rcvNxt + k
  <2> SUFFICES ASSUME NEW k \in 0 .. n - 1
               PROVE  buf'[(tail + k) % BufSize] = rcvNxt + k
    OBVIOUS
  <2>1. s.seq = rcvNxt
    BY <1>3, <1>0
  <2> HIDE DEF n
  <2>2. Written(s, n)[(tail + k) % BufSize] = s.seq + k
    BY <1>b, <1>2, WrittenAt
  <2> QED BY <2>1, <2>2, <1>a
<1> HIDE DEF n, RecvEstablished
<1>c. \A l \in 0 .. n : (tail + l) % BufSize = (head + (count + l)) % BufSize
  <2>1. tail = (head + count) % BufSize
    BY <1>1 DEF RingHoldsStream
  <2>2. ASSUME NEW l \in 0 .. n
        PROVE  (((head + count) % BufSize) + l) % BufSize = (head + (count + l)) % BufSize
    <3>1. l \in Nat /\ count \in Nat /\ count + l <= BufSize
      BY <1>0, <1>3
    <3> QED BY <1>0, <3>1, Further
  <2> QED BY <2>1, <2>2
<1>7. \A k \in 0 .. count - 1 : buf'[(head + k) % BufSize] = Len(got) + 1 + k
  <2> SUFFICES ASSUME NEW k \in 0 .. count - 1
               PROVE  buf'[(head + k) % BufSize] = Len(got) + 1 + k
    OBVIOUS
  <2>2. ASSUME NEW l \in 0 .. n - 1, (head + k) % BufSize = (tail + l) % BufSize
        PROVE  FALSE
    <3>1. l \in 0 .. n /\ k \in 0 .. BufSize - 1 /\ count + l \in 0 .. BufSize - 1
      BY <1>0, <1>3
    <3>2. (head + k) % BufSize = (head + (count + l)) % BufSize
      BY <2>2, <3>1, <1>c
    <3>3. k = count + l
      BY <3>1, <3>2, <1>0, Apart
    <3> QED BY <3>1, <3>3, <1>0
  <2>3. (head + k) % BufSize \in 0 .. BufSize - 1
    BY <1>0
  <2>4. buf'[(head + k) % BufSize] = buf[(head + k) % BufSize]
    BY <1>a, <2>2, <2>3, WrittenElsewhere
  <2> QED BY <2>4, <1>1 DEF RingHoldsStream
<1>e. rcvNxt' \in Nat /\ rcvNxt' <= pNxt
  <2>1. CASE s.fin
    BY <2>1, <1>a, <1>0, <1>2
  <2>2. CASE ~s.fin /\ n = 0
    BY <2>2, <1>a, <1>0 DEF Acknowledged
  <2>3. CASE ~s.fin /\ n > 0
    BY <2>3, <1>a, <1>0, <1>2, <1>3, <1>4, <1>d
  <2> QED BY <2>1, <2>2, <2>3, <1>2, <1>3, <1>0
<1>8. RingHoldsStream'
  <2>1. pc' = pc /\ Unread' = count + n /\ head' = head /\ got' = got
    BY <1>a, <1>1 DEF Unread
  <2>2. tail' = (head + (count + n)) % BufSize
    BY <1>a, <1>c, <1>3
  <2>3. ASSUME NEW k \in 0 .. count + n - 1
        PROVE  buf'[(head + k) % BufSize] = Len(got) + 1 + k
    <3>1. CASE k < count
      <4>1. k \in 0 .. count - 1
        BY <3>1, <1>0, <1>3
      <4> QED BY <4>1, <1>7
    <3>2. CASE k >= count
      <4>1. k - count \in 0 .. n - 1 /\ count + (k - count) = k
        BY <3>2, <1>0, <1>3
      <4>2. (tail + (k - count)) % BufSize = (head + (count + (k - count))) % BufSize
        <5>1. k - count \in 0 .. n
          BY <4>1, <1>3, <1>0
        <5> QED BY <5>1, <1>c
      <4>3. buf'[(tail + (k - count)) % BufSize] = rcvNxt + (k - count)
        BY <4>1, <1>6
      <4> QED BY <4>1, <4>2, <4>3, <1>5, <1>0
    <3> QED BY <3>1, <3>2, <1>0, <1>3
  <2>4. \A k \in 0 .. Unread' - 1 : buf'[(head' + k) % BufSize] = Len(got') + 1 + k
    <3> SUFFICES ASSUME NEW k \in 0 .. Unread' - 1
                 PROVE  buf'[(head' + k) % BufSize] = Len(got') + 1 + k
      OBVIOUS
    <3>1. k \in 0 .. count + n - 1
      BY <2>1, <1>0, <1>3
    <3>2. buf'[(head + k) % BufSize] = Len(got) + 1 + k
      BY <3>1, <2>3
    <3> QED BY <3>2, <2>1
  <2>5. tail' = (head' + Unread') % BufSize
    BY <2>1, <2>2
  <2> QED BY <2>1, <2>4, <2>5, <1>1 DEF RingHoldsStream
<1>9. TypeOK'
  <2>1. buf' \in [0 .. BufSize - 1 -> 0 .. MaxBytes]
    <3>1. ASSUME NEW i \in 0 .. BufSize - 1
          PROVE  buf'[i] \in 0 .. MaxBytes
      <4>1. CASE \E k \in 0 .. n - 1 : i = (tail + k) % BufSize
        <5>1. PICK k \in 0 .. n - 1 : i = (tail + k) % BufSize
          BY <4>1
        <5>2. buf'[i] = rcvNxt + k
          BY <5>1, <1>6
        <5>3. n > 0 /\ s.len > 0 /\ k < s.len
          BY <1>3, <1>2, <1>0
        <5> QED BY <5>2, <5>3, <1>0, <1>2, <1>3, <1>4, <1>d
      <4>2. CASE \A k \in 0 .. n - 1 : i # (tail + k) % BufSize
        <5>1. buf'[i] = buf[i]
          BY <4>2, <1>a, WrittenElsewhere
        <5> QED BY <5>1 DEF TypeOK
      <4> QED BY <4>1, <4>2
    <3> QED BY <3>1, <1>a DEF Written
  <2>2. tail' \in 0 .. BufSize - 1 /\ count' \in 0 .. BufSize
    BY <1>a, <1>0, <1>3
  <2>3. rcvNxt' \in 0 .. MaxBytes + 2
    BY <1>a, <1>e, <1>0, <1>4
  <2> QED BY <1>a, <2>1, <2>2, <2>3 DEF TypeOK, States
<1>10. StreamIntact' /\ AckedIsKept'
  BY <1>a, <1>0, <1>1, <1>3, <1>5 DEF StreamIntact, AckedIsKept, Unread
<1>11. CloseIsAcknowledged' /\ Acknowledged'
  <2>1. rcvNxt' <= pNxt
    BY <1>a, <1>e
  <2> QED BY <1>a, <2>1 DEF CloseIsAcknowledged, Acknowledged
<1>12. Handshake'
  BY <1>a, <1>1 DEF Handshake
<1>13. Numbered'
  BY <1>a, <1>1 DEF Numbered, FinSent
<1> QED BY <1>8, <1>9, <1>10, <1>11, <1>12, <1>13

\* A step of netpoll that only changes the state, maybe with a FIN of the peer.
LEMMA TurnInv ==
  ASSUME TcpInv, pc \in {"user", "sending", "reading"},
         UNCHANGED <<sndNxt, retries, ring, callVars, out, peerVars>>,
         state' \in {"CLOSED", "FIN_WAIT_2", "CLOSING", "TIME_WAIT"},
         state' # "CLOSED" => state \in {"FIN_WAIT_1", "FIN_WAIT_2", "CLOSING"},
         rcvNxt' \in Nat, rcvNxt' <= pNxt,
         state' \in {"FIN_WAIT_2", "TIME_WAIT"} => pRcv = sndNxt
  PROVE  TcpInv'
<1> USE DEF TcpInv, ring, callVars, peerVars
<1>1. TypeOK'
  <2>1. rcvNxt' \in 0 .. MaxBytes + 2
    BY TcpAssumption DEF TypeOK
  <2> QED BY <2>1 DEF TypeOK, States
<1>2. StreamIntact' /\ RingHoldsStream'
  BY RingKept
<1>3. AckedIsKept' /\ CloseIsAcknowledged' /\ Acknowledged' /\ Handshake'
  BY DEF AckedIsKept, CloseIsAcknowledged, Acknowledged, Handshake
<1>4. Numbered'
  BY NumberedKept DEF Numbered
<1> QED BY <1>1, <1>2, <1>3, <1>4

\* The FIN of either side, and what ends the connection.
LEMMA RecvClosingInv ==
  ASSUME TcpInv, NoCut, NEW s \in InFlight,
         RecvFinWait1(s) \/ RecvFinWait2(s) \/ RecvClosing(s) \/ RecvLastAck(s)
  PROVE  TcpInv'
<1> USE DEF TcpInv, Arrives, Becomes, Acks
<1>0. /\ pc \in {"user", "sending", "reading"}
      /\ pNxt \in Nat /\ rcvNxt \in Nat /\ sndNxt \in Nat /\ pRcv \in Nat
  BY PollsOutside, TcpAssumption DEF RecvFinWait1, RecvFinWait2, RecvClosing, RecvLastAck, TypeOK
<1>1. /\ s.seq \in Nat /\ s.len \in Nat /\ s.ack \in Nat /\ s.fin \in BOOLEAN
      /\ s.fin => s.seq + s.len + 1 = pNxt
  BY <1>0, Arriving
<1>2. (IF s.fin THEN s.seq + 1 ELSE rcvNxt) \in Nat
      /\ (IF s.fin THEN s.seq + 1 ELSE rcvNxt) <= pNxt
  BY <1>0, <1>1 DEF Acknowledged
<1>3. state \in {"FIN_WAIT_1", "CLOSING"} /\ s.ack = sndNxt => pRcv = sndNxt
  <2>1. state \in {"FIN_WAIT_1", "CLOSING"} => sndNxt >= 2
    BY <1>0 DEF Numbered, FinSent, TypeOK
  <2>2. s.syn => s.ack <= 1
    BY SynArrives
  <2>3. ~s.syn => s.ack <= pRcv
    BY Arriving
  <2>4. pRcv <= sndNxt
    BY DEF Acknowledged
  <2> QED BY <1>0, <1>1, <2>1, <2>2, <2>3, <2>4
<1>4. CASE RecvFinWait1(s)
  BY <1>4, <1>0, <1>2, <1>3, TurnInv DEF RecvFinWait1
<1>5. CASE RecvFinWait2(s)
  <2>1. pRcv = sndNxt
    BY <1>5 DEF RecvFinWait2, CloseIsAcknowledged
  <2> QED BY <1>5, <1>0, <1>2, <2>1, TurnInv DEF RecvFinWait2
<1>6. CASE RecvClosing(s)
  BY <1>6, <1>0, <1>3, TurnInv DEF RecvClosing, Acknowledged
<1>7. CASE RecvLastAck(s)
  BY <1>7, <1>0, TurnInv DEF RecvLastAck, Acknowledged
<1> QED BY <1>4, <1>5, <1>6, <1>7

\* A reset, a connection given up, the end of TIME_WAIT.
LEMMA EndInv ==
  ASSUME TcpInv, NoCut, RecvReset \/ TickGiveUp \/ TickTimeWait
  PROVE  TcpInv'
<1>1. /\ pc \in {"user", "sending", "reading"} /\ rcvNxt' = rcvNxt /\ state' = "CLOSED"
      /\ UNCHANGED <<sndNxt, retries, ring, callVars, out, peerVars>>
  BY PollsOutside DEF RecvReset, TickGiveUp, TickTimeWait, Becomes
<1>2. rcvNxt \in Nat /\ rcvNxt <= pNxt
  BY TcpAssumption DEF TcpInv, TypeOK, Acknowledged
<1> QED BY <1>1, <1>2, TurnInv

\* A SYN or FIN sent again has the number it had.
LEMMA TickInv ==
  ASSUME TcpInv, NoCut, TickSyn \/ TickFin
  PROVE  TcpInv'
<1> USE TcpAssumption DEF TcpInv, Emit, peerVars, callVars
<1>0. /\ pc \in {"user", "sending", "reading"} /\ retries' \in 0 .. MaxRetries
      /\ UNCHANGED <<state, rcvNxt, ring, callVars, peerVars>>
      /\ state \in Retried
  BY PollsOutside DEF TickSyn, TickFin, TypeOK, Retried
<1>1. sndNxt' = sndNxt
  BY <1>0 DEF TickSyn, TickFin, Handshake, TypeOK
<1>2. /\ TickSyn => out' = out \cup {[kind |-> "SYN", seq |-> 0]} /\ sndNxt = 1 /\ ~FinSent
      /\ TickFin => out' = out
  <2>1. ASSUME TickFin PROVE out' = out
    <3>1. PICK s \in out : s.kind = "FIN" /\ s.seq = sndNxt - 1
      BY <2>1, <1>0 DEF TickFin, Numbered, FinSent
    <3>2. s = [kind |-> "FIN", seq |-> sndNxt - 1]
      BY <3>1 DEF TypeOK
    <3> QED BY <2>1, <3>2 DEF TickFin
  <2> QED BY <2>1, <1>0 DEF TickSyn, Handshake, Numbered
<1>3. out' \in SUBSET [kind : {"SYN", "DATA", "FIN"}, seq : 0 .. MaxSend + 1]
  BY <1>2 DEF TypeOK
<1>4. TypeOK'
  BY <1>0, <1>1, <1>3 DEF TypeOK, ring
<1>5. StreamIntact' /\ RingHoldsStream'
  BY <1>0, RingKept
<1>6. AckedIsKept' /\ CloseIsAcknowledged' /\ Acknowledged' /\ Handshake'
  BY <1>0, <1>1 DEF AckedIsKept, CloseIsAcknowledged, Acknowledged, Handshake, Retried, ring
<1>7. Numbered'
  <2>1. FinSent' <=> FinSent
    BY <1>2 DEF FinSent
  <2>2. \A s \in out' : /\ s.seq < sndNxt'
                        /\ s.kind = "SYN" => s.seq = 0
                        /\ s.kind # "SYN" => s.seq >= 1
                        /\ s.kind = "FIN" => s.seq = sndNxt' - 1
                        /\ s.kind = "DATA" /\ FinSent => s.seq < sndNxt' - 1
    BY <1>1, <1>2 DEF Numbered
  <2> QED BY <1>0, <1>1, <2>1, <2>2 DEF Numbered
<1> QED BY <1>4, <1>5, <1>6, <1>7

----------------------------------------------------------------------------
LEMMA NextInv ==
  ASSUME TcpInv, NoCut, [Next]_vars
  PROVE  TcpInv'
<1>1. CASE Call
  BY <1>1, OpenInv, SendSynInv, SendInv, ReadInv, CloseInv, SendFinInv DEF Call, CallStep
<1>2. CASE Peer
  BY <1>2, PeerInv
<1>3. CASE Recv
  BY <1>3, RecvOpeningInv, RecvEstablishedInv, RecvClosingInv, EndInv DEF Recv
<1>4. CASE Timer
  BY <1>4, EndInv, TickInv DEF Timer
<1>5. CASE UNCHANGED vars
  <2> USE <1>5 DEF vars, connVars, callVars, peerVars
  <2>1. TypeOK' /\ StreamIntact' /\ AckedIsKept' /\ CloseIsAcknowledged'
    BY DEF TcpInv, TypeOK, StreamIntact, AckedIsKept, CloseIsAcknowledged, Unread
  <2>2. RingHoldsStream' /\ Handshake' /\ Acknowledged' /\ Numbered'
    BY DEF TcpInv, RingHoldsStream, Handshake, Acknowledged, Numbered, FinSent, Unread
  <2> QED BY <2>1, <2>2 DEF TcpInv
<1> QED BY <1>1, <1>2, <1>3, <1>4, <1>5 DEF Next

\* The inductive invariant holds in every state.
THEOREM Invariant == NoCut => (Spec => []TcpInv)
<1>1. ASSUME NoCut PROVE TcpInv /\ [Next]_vars => TcpInv'
  BY <1>1, NextInv
<1>2. ASSUME NoCut PROVE Spec => []TcpInv
  <2>1. TcpInv /\ [Next]_vars => TcpInv'
    BY <1>1, <1>2
  <2> QED BY <2>1, InitInv, PTL DEF Spec
<1> QED BY <1>2

\* What tcp_read returns is the peer's stream in order, and every byte that was
\* acknowledged is read or waits in the buffer, whatever the network does.
THEOREM StreamCarried == NoCut => (Spec => []StreamKept)
<1>1. TcpInv => StreamKept
  BY DEF TcpInv, StreamKept
<1>2. ASSUME NoCut PROVE Spec => []StreamKept
  <2>1. Spec => []TcpInv
    BY <1>2, Invariant
  <2> QED BY <1>1, <2>1, PTL
<1> QED BY <1>2

\* No sequence number stands for two things, and none follows the FIN's.
THEOREM NumbersDistinct == NoCut => (Spec => []SendNumbering)
<1>1. TcpInv => SendNumbering
  <2> SUFFICES ASSUME TcpInv, NEW s \in out, NEW t \in out
               PROVE  /\ s.seq = t.seq => s.kind = t.kind
                      /\ s.kind = "FIN" => t.seq <= s.seq
    BY DEF SendNumbering
  <2>1. /\ s.kind \in {"SYN", "DATA", "FIN"} /\ t.kind \in {"SYN", "DATA", "FIN"}
        /\ s.seq \in Nat /\ t.seq \in Nat /\ sndNxt \in Nat
    BY TcpAssumption DEF TcpInv, TypeOK
  <2>2. s.kind = "FIN" \/ t.kind = "FIN" => FinSent
    BY DEF FinSent
  <2> QED BY <2>1, <2>2 DEF TcpInv, Numbered
<1>2. ASSUME NoCut PROVE Spec => []SendNumbering
  <2>1. Spec => []TcpInv
    BY <1>2, Invariant
  <2> QED BY <1>1, <2>1, PTL
<1> QED BY <1>2

\* FIN_WAIT_2 and TIME_WAIT mean that the peer has received all that was sent.
THEOREM CloseAcknowledged == NoCut => (Spec => []CloseIsAcknowledged)
<1>1. TcpInv => CloseIsAcknowledged
  BY DEF TcpInv
<1>2. ASSUME NoCut PROVE Spec => []CloseIsAcknowledged
  <2>1. Spec => []TcpInv
    BY <1>2, Invariant
  <2> QED BY <1>1, <2>1, PTL
<1> QED BY <1>2

----------------------------------------------------------------------------
(* A connection is what Connection says *)

Conn == [st |-> state, unread |-> Unread]

\* Changing the state of the record, and nothing else.
LEMMA ToState ==
  ASSUME NEW st
  PROVE  User!To(Conn, st) = [st |-> st, unread |-> Unread]
BY DEF User!To, Conn

\* A step along one of the arrows of Connection.
LEMMA MoveStep ==
  ASSUME NEW from, NEW to, state = from, state' = to, Unread' = Unread
  PROVE  Conn' \in User!Move(Conn, from, to)
<1>1. Conn.st = from
  BY DEF Conn
<1>2. Conn' = User!To(Conn, to)
  BY ToState DEF Conn
<1> QED BY <1>1, <1>2 DEF User!Move

\* What waits to be read does not change where the ring and the reading do not.
LEMMA SameUnread ==
  ASSUME count' = count, pc # "counting", pc' # "counting"
  PROVE  Unread' = Unread
BY DEF Unread

\* What task 0 does.
LEMMA CallRefines ==
  ASSUME TcpInv, Call
  PROVE  Conn' \in User!Used(Conn) \/ UNCHANGED Conn
<1> USE DEF connVars, ring, callVars, Goto
<1>1. CASE Connect \/ Listen
  <2>1. state = "CLOSED" /\ state' \in {"SYN_SENT", "LISTEN"} /\ Unread = 0 /\ Unread' = 0
    BY <1>1 DEF Connect, Listen, TcpInv, Handshake, Unread
  <2>2. Conn.st = "CLOSED"
    BY <2>1 DEF Conn
  <2>3. Conn' \in {User!To(User!Closed, "SYN_SENT"), User!To(User!Closed, "LISTEN")}
    BY <2>1 DEF Conn, User!To, User!Closed
  <2>4. Conn' \in User!Opened(Conn)
    BY <2>2, <2>3 DEF User!Opened
  <2> QED BY <2>4 DEF User!Used
<1>2. CASE Close \/ Abandon
  <2>1. Unread' = Unread
    BY <1>2, SameUnread DEF Close, Abandon
  <2>2. Conn' \in User!ClosedByUser(Conn)
    BY <1>2, <2>1, MoveStep DEF Close, Abandon, User!ClosedByUser
  <2> QED BY <2>2 DEF User!Used
<1>3. CASE ReadByte
  <2>1. Unread \in Nat /\ Unread >= 1 /\ Unread' = Unread - 1 /\ state' = state
    BY <1>3, TcpAssumption DEF ReadByte, Unread, TcpInv, TypeOK
  <2>2. Conn' = User!Took(Conn, 1)
    BY <2>1 DEF Conn, User!Took
  <2>3. 1 \in 1 .. Conn.unread
    BY <2>1 DEF Conn
  <2> QED BY <2>2, <2>3 DEF User!Used
<1>4. CASE SendSyn \/ Send \/ SendData \/ Read \/ ReadCount \/ ReadEnd \/ SendFin
  <2>1. state' = state
    BY <1>4 DEF SendSyn, Send, SendData, Read, ReadCount, ReadEnd, SendFin
  <2>2. Unread' = Unread
    BY <1>4 DEF SendSyn, Send, SendData, Read, ReadCount, ReadEnd, SendFin, Unread, TcpInv,
       RingHoldsStream
  <2> QED BY <2>1, <2>2 DEF Conn
<1> QED BY <1>1, <1>2, <1>3, <1>4 DEF Call, CallStep

\* What netpoll does with a segment or at the end of a timer.
LEMMA PollRefines ==
  ASSUME TcpInv, NoCut, Recv \/ Timer
  PROVE  Conn' \in User!ByPeer(Conn) \/ UNCHANGED Conn
<1> USE DEF Arrives, Becomes, ring, callVars
<1>0. ASSUME Polls, UNCHANGED <<count, callVars>> PROVE Unread' = Unread
  BY <1>0, PollsOutside, SameUnread
<1>1. ASSUME NEW s \in InFlight, RecvEstablished(s) PROVE Conn' \in User!Delivered(Conn)
  <2> DEFINE n == IF InOrder(s) THEN Fits(s) ELSE 0
  <2>1. BufSize \in Nat /\ count \in 0 .. BufSize /\ s.len \in Nat
    BY TcpAssumption, Arriving DEF TcpInv, TypeOK
  <2>2. n \in 0 .. BufSize - count
    BY <2>1 DEF InOrder, Fits
  <2>3. state = "ESTABLISHED" /\ state' \in {"ESTABLISHED", "CLOSE_WAIT"} /\ count' = count + n
    BY <1>1 DEF RecvEstablished
  <2>4. Unread = count /\ Unread' = count + n
    BY <1>1, <2>3, PollsOutside DEF RecvEstablished, Unread
  <2> HIDE DEF n
  <2>5. Conn.st = "ESTABLISHED" /\ Conn.unread = count
    BY <2>3, <2>4 DEF Conn
  <2>6. Conn' = [st |-> state', unread |-> Conn.unread + n]
    BY <2>4, <2>5 DEF Conn
  <2>7. n \in 0 .. BufSize - Conn.unread
    BY <2>2, <2>5
  <2> QED BY <2>3, <2>5, <2>6, <2>7 DEF User!Delivered
<1>2. ASSUME NEW s \in InFlight, RecvListen(s) \/ RecvSynSent(s) \/ RecvSynReceived(s)
      PROVE  Conn' \in User!Answered(Conn)
  <2>1. Unread' = Unread
    BY <1>0, <1>2 DEF RecvListen, RecvSynSent, RecvSynReceived
  <2> QED BY <1>2, <2>1, MoveStep DEF RecvListen, RecvSynSent, RecvSynReceived, User!Answered
<1>3. ASSUME NEW s \in InFlight,
             RecvFinWait1(s) \/ RecvFinWait2(s) \/ RecvClosing(s) \/ RecvLastAck(s)
      PROVE  Conn' \in User!Answered(Conn)
  <2>1. Unread' = Unread
    BY <1>0, <1>3 DEF RecvFinWait1, RecvFinWait2, RecvClosing, RecvLastAck
  <2>2. \/ state = "FIN_WAIT_1" /\ state' \in {"TIME_WAIT", "FIN_WAIT_2", "CLOSING"}
        \/ state \in {"FIN_WAIT_2", "CLOSING"} /\ state' = "TIME_WAIT"
        \/ state = "LAST_ACK" /\ state' = "CLOSED"
    BY <1>3 DEF RecvFinWait1, RecvFinWait2, RecvClosing, RecvLastAck
  <2> QED BY <2>1, <2>2, MoveStep DEF User!Answered
<1>4. ASSUME RecvReset \/ TickGiveUp \/ TickTimeWait PROVE Conn' \in User!Dropped(Conn)
  <2>1. Unread' = Unread /\ state' = "CLOSED" /\ state # "CLOSED"
    BY <1>0, <1>4 DEF RecvReset, TickGiveUp, TickTimeWait, Retried
  <2>2. Conn' = User!To(Conn, "CLOSED") /\ Conn.st # "CLOSED"
    BY <2>1, ToState DEF Conn
  <2> QED BY <2>2 DEF User!Dropped
<1>5. ASSUME TickSyn \/ TickFin PROVE UNCHANGED Conn
  BY <1>0, <1>5 DEF TickSyn, TickFin, Conn
<1> QED BY <1>1, <1>2, <1>3, <1>4, <1>5 DEF Recv, Timer, User!ByPeer

\* A connection of tcp.c, with its sequence numbers, its ring and its timers,
\* implements the state and the count that its users see.
THEOREM ConnectionImplemented == NoCut => (Spec => ConnectionKept)
<1>1. Init => User!Init
  BY DEF Init, User!Init, User!Closed, Unread
<1>2. ASSUME TcpInv, NoCut, [Next]_vars
      PROVE  [User!Next]_Conn
  <2>1. CASE Call
    BY <1>2, <2>1, CallRefines DEF User!Next, Conn
  <2>2. CASE Recv \/ Timer
    BY <1>2, <2>2, PollRefines DEF User!Next, Conn
  <2>3. CASE Peer \/ UNCHANGED vars
    <3>1. UNCHANGED <<state, count, pc>>
      BY <2>3 DEF Peer, PeerSyn, PeerTake, PeerSend, PeerClose, vars, connVars, callVars
    <3> QED BY <3>1 DEF Conn, Unread
  <2> QED BY <1>2, <2>1, <2>2, <2>3 DEF Next
<1>3. ASSUME NoCut PROVE Spec => ConnectionKept
  <2>1. Spec => []TcpInv
    BY <1>3, Invariant
  <2>2. TcpInv /\ [Next]_vars => [User!Next]_Conn
    BY <1>2, <1>3
  <2> QED BY <1>1, <2>1, <2>2, PTL DEF Spec, ConnectionKept, User!Spec, Conn
<1> QED BY <1>3

============================================================================
