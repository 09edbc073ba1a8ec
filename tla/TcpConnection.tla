--------------------------- MODULE TcpConnection ----------------------------
(***************************************************************************)
(* TCP connections between one client and its peer, as TcpConnection uses  *)
(* them: two streams of units per session, read and written a part at a    *)
(* time.  The peer and the network are external: a peer may close, or its  *)
(* host may die, at any moment.                                            *)
(***************************************************************************)
EXTENDS WireFrames

CONSTANT Session

NoSession == 0

ASSUME SessionAssumption == Session \subseteq Nat \ {NoSession}

VARIABLE net   \* the sessions: both ends and the bytes on their way

EmptySession == [client |-> "new", peer |-> "open", up |-> <<>>, down |-> <<>>]

NetInit == net = [s \in Session |-> EmptySession]

(* Connect got a socket.                                                   *)
Connected(s) ==
  /\ net[s].client = "new"
  /\ net' = [net EXCEPT ![s].client = "open"]

(* send took one more unit; a peer that is gone never sees it.             *)
SendUnit(s, u) ==
  net' = [net EXCEPT ![s].up = IF net[s].peer = "open" THEN Append(@, u) ELSE @]

(* recv returned one more unit.                                            *)
RecvUnit(s) ==
  /\ net[s].down # <<>>
  /\ net' = [net EXCEPT ![s].down = Tail(@)]

(* recv returns 0.                                                         *)
AtEof(s) == net[s].down = <<>> /\ net[s].peer = "closed"

(* MarkBroken or Shutdown, then Close: what is unread is discarded, what   *)
(* was sent may still arrive.                                              *)
Hangup(s) ==
  net' = IF s = NoSession THEN net
         ELSE [net EXCEPT ![s].client = "closed", ![s].down = <<>>]

(* What ReadExact and WriteExact return when they fail: Unavailable at a   *)
(* deadline, else NetworkError.  Both mark the connection broken, and the  *)
(* caller treats them alike: one stands for both.                          *)
IoErrors == {"NetworkError"}

-----------------------------------------------------------------------------
(* The peer's end (external).                                              *)

PeerSends(s, units, rest) ==
  net' = [net EXCEPT ![s].up = rest,
                     ![s].down = IF net[s].client = "open" THEN @ \o units ELSE @]

(* The peer closes or dies: requests it has not read are lost, and its     *)
(* answers are cut off anywhere.  (Once the client has hung up, a peer     *)
(* that closes is one that reads no more.)                                 *)
PeerCloses(s) ==
  /\ net[s].client = "open" /\ net[s].peer = "open"
  /\ \E n \in 0 .. Len(net[s].down) :
       net' = [net EXCEPT ![s].peer = "closed", ![s].up = <<>>,
                          ![s].down = SubSeq(@, 1, n)]
=============================================================================
