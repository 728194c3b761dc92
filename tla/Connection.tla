------------------------------ MODULE Connection ------------------------------
(***************************************************************************)
(* What the users of net/tcp.c rely on: a connection is a state and a count *)
(* of bytes that wait to be read.  Tcp implements it; Http is built on it.  *)
(*                                                                          *)
(* The operators give the records a connection may become in one step, so   *)
(* that a table of connections can be made of them.                         *)
(***************************************************************************)
EXTENDS Integers

CONSTANT Capacity   \* TCP_RECV_BUF_SIZE

VARIABLE conn

Closed   == [st |-> "CLOSED", unread |-> 0]
\* Mutant: what waits when the peer has closed is not read
ReadableOpen == {"ESTABLISHED"}
Readable == {"ESTABLISHED", "CLOSE_WAIT", "FIN_WAIT_1", "FIN_WAIT_2"}
Timed    == {"SYN_SENT", "SYN_RECEIVED", "FIN_WAIT_1", "LAST_ACK", "TIME_WAIT"}

To(c, st) == [c EXCEPT !.st = st]
Move(c, from, to) == IF c.st = from THEN {To(c, to)} ELSE {}

(* tcp_connect, tcp_listen, tcp_read, tcp_close: nothing but these is done by *)
(* the user.                                                                *)
Opened(c) == IF c.st = "CLOSED" THEN {To(Closed, "SYN_SENT"), To(Closed, "LISTEN")} ELSE {}
Took(c, n) == [c EXCEPT !.unread = @ - n]
ClosedByUser(c) ==
  Move(c, "ESTABLISHED", "FIN_WAIT_1") \cup Move(c, "CLOSE_WAIT", "LAST_ACK")
  \cup Move(c, "SYN_SENT", "CLOSED") \cup Move(c, "LISTEN", "CLOSED")
Used(c) ==
  Opened(c) \cup ClosedByUser(c) \cup {Took(c, n) : n \in 1 .. c.unread}

(* tcp_recv: bytes are taken in while the connection is established, with the *)
(* peer's FIN it closes half, and none comes after.                         *)
Delivered(c) ==
  IF c.st # "ESTABLISHED" THEN {}
  ELSE {[st |-> s, unread |-> c.unread + n] :
          s \in {"ESTABLISHED", "CLOSE_WAIT"}, n \in 0 .. Capacity - c.unread}
Answered(c) ==
  Move(c, "LISTEN", "SYN_RECEIVED")
  \cup Move(c, "SYN_SENT", "ESTABLISHED") \cup Move(c, "SYN_RECEIVED", "ESTABLISHED")
  \cup Move(c, "FIN_WAIT_1", "FIN_WAIT_2") \cup Move(c, "FIN_WAIT_1", "TIME_WAIT")
  \cup Move(c, "FIN_WAIT_1", "CLOSING") \cup Move(c, "CLOSING", "TIME_WAIT")
  \cup Move(c, "FIN_WAIT_2", "TIME_WAIT") \cup Move(c, "LAST_ACK", "CLOSED")
\* A reset, or the end of a timer
Dropped(c) ==
  (IF c.st # "CLOSED" THEN {To(c, "CLOSED")} ELSE {})
GaveUp(c) == IF c.st \in Timed THEN {To(c, "CLOSED")} ELSE {}

ByPeer(c) == Delivered(c) \cup Answered(c) \cup Dropped(c) \cup GaveUp(c)

Init == conn = Closed
Next == conn' \in Used(conn) \cup ByPeer(conn)
Spec == Init /\ [][Next]_conn

=============================================================================
