------------------------------ MODULE RpcProofs -----------------------------
(***************************************************************************)
(* Proofs about TcpConnector, for any number of calls, any sizes of frames *)
(* and any range of request ids: it implements RemoteCall, an idle         *)
(* connection is in step, and a proper peer is never accused.              *)
(***************************************************************************)
EXTENDS TcpConnector, Integers, TLAPS

-----------------------------------------------------------------------------
(* The invariant.                                                          *)

Frame ==
  [kind : {"request", "response"}, opcode : Opcode, status : AnswerStatus, id : Nat,
   len : Nat, intact : BOOLEAN, decodes : BOOLEAN, call : Nat]
Unit == Frame \X Nat

RpcPhase == {"idle", "connect", "write", "header", "malformed", "payload", "check"}
Result ==
  AnswerStatus \cup {"pending", "OutOfCapacity", "InvalidArgument", "Corruption", "NetworkError"}

SessionType ==
  [client : {"new", "open", "closed"}, peer : {"open", "closed"},
   up : Seq(Unit), down : Seq(Unit)]

(* The types of the variables.                                             *)
RpcType ==
  /\ net \in [Session -> SessionType]
  /\ connection \in Session \cup {NoSession}
  /\ nextId \in 1 .. MaxId
  /\ rpc \in [phase : RpcPhase, request : Seq(Frame), sent : Nat, got : Seq(Unit)]
  /\ calls \in 0 .. MaxCalls
  /\ results \in [Call -> Result]
  /\ log \in Seq(Nat \X AnswerStatus)
  /\ honest \in BOOLEAN

Logged(c) == \E i \in DOMAIN log : log[i][1] = c
AnsweredWith(c, status) == \E i \in DOMAIN log : log[i] = <<c, status>>

(* How many ids were given out since id was.                               *)
Age(id) == IF id < nextId THEN nextId - id ELSE nextId + MaxId - id

(* The call that holds mutex_, and the ones before it.                     *)
CallsFit ==
  /\ RpcIdle => rpc = IdleRpc
  /\ ~RpcIdle =>
       /\ calls > 0 /\ Len(rpc.request) = 1
       /\ Request.kind = "request" /\ Request.call = calls
       /\ Request.id \in 1 .. MaxId /\ Age(Request.id) = 1
  /\ \A c \in Call : results[c] = "pending" <=> (c > calls \/ (c = calls /\ ~RpcIdle))
  /\ \A i \in DOMAIN log : log[i][1] \in 1 .. calls

(* The connection is the one open session.                                 *)
ConnectionFits ==
  /\ ~RpcIdle => (rpc.phase = "connect" <=> connection = NoSession)
  /\ \A s \in Session : net[s].client = "open" <=> s = connection
  /\ \A s \in Session : net[s].client = "new" => net[s] = EmptySession

(* What is on its way to the peer: at most one request in each session, no *)
(* request twice, none that was executed.                                  *)
Sending(s) == net[s].up # <<>>
Sent(s) == net[s].up[1][1]
RequestsFit ==
  /\ \A s \in Session : Sending(s) =>
       /\ \A i \in DOMAIN net[s].up : net[s].up[i] = <<Sent(s), i>>
       /\ Len(net[s].up) <= HeaderUnits + Sent(s).len
       /\ Sent(s).call \in 1 .. calls /\ ~Logged(Sent(s).call)
       /\ IF s = connection THEN ~RpcIdle /\ Sent(s) = Request
          ELSE RpcIdle \/ Sent(s).call # calls
  /\ \A s, t \in Session :
       Sending(s) /\ Sending(t) /\ s # t => Sent(s).call # Sent(t).call

(* How far the call is.                                                    *)
ProgressFits ==
  /\ rpc.phase = "connect" => rpc.sent = 0
  /\ rpc.phase \in {"connect", "write"} => rpc.got = <<>> /\ ~Logged(calls)
  /\ rpc.phase = "write" =>
       /\ rpc.sent < HeaderUnits + Request.len
       /\ Len(net[connection].up) = IF net[connection].peer = "open" THEN rpc.sent ELSE 0
  /\ rpc.phase \in {"payload", "check"} => rpc.got # <<>>

(* A frame that was read, or can be: the answer to a call of this or of an *)
(* older request, told apart by its id.                                    *)
AnswerFits(a) ==
  /\ AnsweredWith(a.call, a.status) /\ a.call \in 1 .. calls
  /\ a.id # 0 => a.id \in 1 .. MaxId /\ Age(a.id) <= calls - a.call + 1
  /\ ~RpcIdle /\ a.id = Request.id => a.call = calls
Arrived(a) ==
  \/ \E i \in DOMAIN rpc.got : rpc.got[i][1] = a
  \/ /\ connection # NoSession
     /\ \E i \in DOMAIN net[connection].down : net[connection].down[i][1] = a
AnswersFit == \A a \in Frame : Arrived(a) => AnswerFits(a)

(* The units read, then those that can be, are the first ones of a.        *)
Prefix(a, got, down) ==
  /\ \A i \in DOMAIN got : got[i] = <<a, i>>
  /\ \A i \in DOMAIN down : down[i] = <<a, Len(got) + i>>

(* The stream from a peer that answers each request once.                  *)
Reading(a) ==
  /\ Prefix(a, rpc.got, net[connection].down)
  /\ Len(rpc.got) + Len(net[connection].down) <= HeaderUnits + a.len
  /\ rpc.phase = "header" => Len(rpc.got) < HeaderUnits
  /\ rpc.phase = "payload" => Len(rpc.got) >= HeaderUnits
  /\ rpc.phase = "check" => Len(rpc.got) = HeaderUnits + a.len
StreamFits ==
  honest =>
    /\ connection # NoSession /\ (RpcIdle \/ rpc.phase = "write" \/ ~Logged(calls)) =>
         net[connection].down = <<>> /\ rpc.got = <<>>
    /\ rpc.phase = "malformed" => MaxPayload = 0
    /\ rpc.phase \in {"header", "payload", "check"} =>
         \E a \in ProperAnswers(Request) : Reading(a)
    /\ MaxPayload = 0 \/ \A c \in Call : results[c] # "Corruption"

RpcInv ==
  /\ RpcType /\ CallsFit /\ ConnectionFits /\ RequestsFit /\ ProgressFits
  /\ AnswersFit /\ StreamFits

(* RpcInv holds of a peer that answers each request once, and of any peer  *)
(* until request ids come back.                                            *)
RpcSound == honest \/ MaxCalls <= MaxId => RpcInv

-----------------------------------------------------------------------------
(* Sessions.                                                               *)

(* Session s becomes what is given, and no other changes.                  *)
NetAt(s, client, peer, up, down) ==
  /\ net' \in [Session -> SessionType]
  /\ net'[s].client = client /\ net'[s].peer = peer
  /\ net'[s].up = up /\ net'[s].down = down
  /\ \A t \in Session \ {s} : net'[t] = net[t]

(* The operations of TcpConnection.                                        *)
LEMMA ConnectedIs ==
  ASSUME RpcType, NEW s \in Session, Connected(s)
  PROVE  /\ net[s].client = "new"
         /\ NetAt(s, "open", net[s].peer, net[s].up, net[s].down)
BY DEF Connected, NetAt, RpcType, SessionType

(* send.                                                                   *)
LEMMA SendUnitIs ==
  ASSUME RpcType, NEW s \in Session, NEW u \in Unit, SendUnit(s, u)
  PROVE  NetAt(s, net[s].client, net[s].peer,
               IF net[s].peer = "open" THEN Append(net[s].up, u) ELSE net[s].up, net[s].down)
<1> DEFINE x == IF net[s].peer = "open" THEN Append(net[s].up, u) ELSE net[s].up
<1>1. x \in Seq(Unit)
  BY DEF RpcType, SessionType
<1>2. net' = [net EXCEPT ![s].up = x]
  BY DEF SendUnit
<1> HIDE DEF x
<1>3. NetAt(s, net[s].client, net[s].peer, x, net[s].down)
  BY <1>1, <1>2 DEF NetAt, RpcType, SessionType
<1> QED BY <1>3 DEF x

(* recv.                                                                   *)
LEMMA RecvUnitIs ==
  ASSUME RpcType, NEW s \in Session, RecvUnit(s)
  PROVE  /\ net[s].down # <<>>
         /\ NetAt(s, net[s].client, net[s].peer, net[s].up, Tail(net[s].down))
<1> DEFINE x == Tail(net[s].down)
<1>1. net[s].down # <<>> /\ x \in Seq(Unit)
  BY DEF RecvUnit, RpcType, SessionType
<1>2. net' = [net EXCEPT ![s].down = x]
  BY DEF RecvUnit
<1> HIDE DEF x
<1>3. NetAt(s, net[s].client, net[s].peer, net[s].up, x)
  BY <1>1, <1>2 DEF NetAt, RpcType, SessionType
<1> QED BY <1>1, <1>3 DEF x

(* Close of an open connection.                                            *)
LEMMA HangupIs ==
  ASSUME RpcType, NEW s \in Session, Hangup(s)
  PROVE  NetAt(s, "closed", net[s].peer, net[s].up, <<>>)
<1> DEFINE x == "closed"
           y == <<>>
<1>1. x \in {"new", "open", "closed"} /\ y \in Seq(Unit)
  OBVIOUS
<1>2. net' = [net EXCEPT ![s].client = x, ![s].down = y]
  BY SessionAssumption DEF Hangup, NoSession
<1> HIDE DEF x, y
<1>3. NetAt(s, x, net[s].peer, net[s].up, y)
  BY <1>1, <1>2 DEF NetAt, RpcType, SessionType
<1> QED BY <1>3 DEF x, y

(* The peer's end.                                                         *)
LEMMA PeerSendsIs ==
  ASSUME RpcType, NEW s \in Session, NEW units \in Seq(Unit), NEW rest \in Seq(Unit),
         PeerSends(s, units, rest)
  PROVE  NetAt(s, net[s].client, net[s].peer, rest,
               IF net[s].client = "open" THEN net[s].down \o units ELSE net[s].down)
<1> DEFINE x == IF net[s].client = "open" THEN net[s].down \o units ELSE net[s].down
<1>1. x \in Seq(Unit)
  BY DEF RpcType, SessionType
<1>2. net' = [net EXCEPT ![s].up = rest, ![s].down = x]
  BY DEF PeerSends
<1> HIDE DEF x
<1>3. NetAt(s, net[s].client, net[s].peer, rest, x)
  BY <1>1, <1>2 DEF NetAt, RpcType, SessionType
<1> QED BY <1>3 DEF x

(* It closes, and its answers are cut off somewhere.                       *)
LEMMA PeerClosesIs ==
  ASSUME RpcType, NEW s \in Session, PeerCloses(s)
  PROVE  \E n \in 0 .. Len(net[s].down) :
           NetAt(s, net[s].client, "closed", <<>>, SubSeq(net[s].down, 1, n))
<1>1. PICK n \in 0 .. Len(net[s].down) :
        net' = [net EXCEPT ![s].peer = "closed", ![s].up = <<>>,
                           ![s].down = SubSeq(net[s].down, 1, n)]
  BY DEF PeerCloses
<1> DEFINE x == SubSeq(net[s].down, 1, n)
           y == "closed"
           z == <<>>
<1>2. x \in Seq(Unit) /\ y \in {"open", "closed"} /\ z \in Seq(Unit)
  <2>1. net[s].down \in Seq(Unit)
    BY DEF RpcType, SessionType
  <2> QED BY <2>1
<1>3. net' = [net EXCEPT ![s].peer = y, ![s].up = z, ![s].down = x]
  BY <1>1
<1> HIDE DEF x, y, z
<1>4. NetAt(s, net[s].client, y, z, x)
  BY <1>2, <1>3 DEF NetAt, RpcType, SessionType
<1> QED BY <1>4 DEF x, y, z

-----------------------------------------------------------------------------
(* Request ids.                                                            *)

(* An id grows older by one at most when the next one is given out, is one *)
(* step old then, and comes back only after MaxId steps.                   *)
LEMMA AgeNext ==
  ASSUME RpcType, AllocateRequestId, NEW id \in 1 .. MaxId
  PROVE  /\ nextId' \in 1 .. MaxId
         /\ Age(id) \in 1 .. MaxId /\ Age(id)' \in 1 .. MaxId
         /\ Age(id)' <= Age(id) + 1
         /\ id = nextId => Age(id) = MaxId /\ Age(id)' = 1
BY ConnectorAssumption DEF RpcType, AllocateRequestId, Age

-----------------------------------------------------------------------------
(* Answers of the peer.                                                    *)

(* A frame on its way.                                                     *)
LEMMA UnitsIs ==
  ASSUME NEW a \in Frame
  PROVE  /\ Units(a) \in Seq(Unit) /\ Len(Units(a)) = HeaderUnits + a.len
         /\ Units(a) # <<>> /\ \A i \in DOMAIN Units(a) : Units(a)[i] = <<a, i>>
<1> DEFINE n == HeaderUnits + a.len
<1>1. n \in Nat \ {0}
  BY FramesAssumption DEF Frame
<1> HIDE DEF n
<1>2. Units(a) = [i \in 1 .. n |-> <<a, i>>]
  BY DEF Units, n
<1>3. \A i \in 1 .. n : <<a, i>> \in Unit
  BY <1>1 DEF Unit
<1>4. Units(a) \in Seq(Unit) /\ Len(Units(a)) = n /\ DOMAIN Units(a) = 1 .. n
  BY <1>1, <1>2, <1>3
<1> QED BY <1>1, <1>2, <1>4 DEF n

(* The answers a peer should give are frames that DecodeHeader accepts.    *)
LEMMA ProperIs ==
  ASSUME NEW f \in Frame, NEW a \in ProperAnswers(f)
  PROVE  /\ a \in Frame /\ a.kind = "response" /\ a.opcode = f.opcode /\ a.id = f.id
         /\ a.call = f.call /\ a.intact /\ a.decodes /\ a.len <= 1
         /\ ValidatePayloadLength(a)
<1>1. PICK status \in AnswerStatus :
        a = [kind |-> "response", opcode |-> f.opcode, status |-> status, id |-> f.id,
             len |-> IF status # "Ok" THEN ErrorUnits ELSE IF f.opcode = "Get" THEN 1 ELSE 0,
             intact |-> TRUE, decodes |-> TRUE, call |-> f.call]
  BY DEF ProperAnswers
<1>2. a.len = IF status # "Ok" THEN 1 ELSE IF f.opcode = "Get" THEN 1 ELSE 0
  BY <1>1 DEF ErrorUnits
<1>3. /\ a.kind = "response" /\ a.opcode = f.opcode /\ a.id = f.id /\ a.status = status
      /\ a.call = f.call /\ a.intact = TRUE /\ a.decodes = TRUE
  BY <1>1
<1>4. a \in Frame
  BY <1>1, <1>2 DEF Frame, ErrorUnits
<1>5. ValidatePayloadLength(a)
  <2>1. CASE status # "Ok"
    <3>1. a.len \in ErrorUnits .. ErrorUnits + MaxErrorUnits
      BY <1>2, <2>1, FramesAssumption DEF ErrorUnits
    <3> QED BY <1>3, <2>1, <3>1 DEF ValidatePayloadLength
  <2>2. CASE status = "Ok"
    <3>1. (a.opcode = "Get") = (a.len > 0)
      BY <1>2, <1>3, <2>2
    <3> QED BY <1>3, <2>2, <3>1 DEF ValidatePayloadLength
  <2> QED BY <2>1, <2>2
<1> QED BY <1>2, <1>3, <1>4, <1>5

(* All units belong to a.                                                  *)
OneFrame(units, a) ==
  units \in Seq(Unit) /\ units # <<>> /\ \A i \in DOMAIN units : units[i][1] = a

(* Whatever is wrong with an answer, it does not name another request.     *)
AnswerTo(f, a) == a \in Frame /\ a.call = f.call /\ a.id \in {0, f.id}

(* The units of one frame.                                                 *)
LEMMA UnitsOneFrame ==
  ASSUME NEW a \in Frame
  PROVE  OneFrame(Units(a), a) /\ OneFrame(Units(a) \o Units(a), a)
<1> DEFINE u == Units(a)
<1>1. u \in Seq(Unit) /\ u # <<>> /\ \A i \in DOMAIN u : u[i][1] = a
  BY UnitsIs
<1> HIDE DEF u
<1>2. u \o u \in Seq(Unit) /\ u \o u # <<>> /\ \A i \in DOMAIN (u \o u) : (u \o u)[i][1] = a
  BY <1>1
<1> QED BY <1>1, <1>2 DEF OneFrame, u

(* Proper answers.                                                         *)
LEMMA ProperAnswerIs ==
  ASSUME NEW f \in Frame, NEW units \in {Units(a) : a \in ProperAnswers(f)}
  PROVE  \E a : AnswerTo(f, a) /\ OneFrame(units, a)
<1>1. PICK a \in ProperAnswers(f) : units = Units(a)
  OBVIOUS
<1>2. a \in Frame /\ a.call = f.call /\ a.id = f.id
  BY ProperIs
<1> QED BY <1>1, <1>2, UnitsOneFrame DEF AnswerTo

(* Improper answers.                                                       *)
LEMMA ImproperAnswerIs ==
  ASSUME NEW f \in Frame, NEW units \in ImproperAnswers(f)
  PROVE  \E a : AnswerTo(f, a) /\ OneFrame(units, a)
<1>1. PICK a \in ProperAnswers(f) :
        units \in {Units(a) \o Units(a),
                   Units([a EXCEPT !.kind = "request"]),
                   Units([a EXCEPT !.opcode = IF @ = "Get" THEN "Put" ELSE "Get"]),
                   Units([a EXCEPT !.id = 0]),
                   Units([a EXCEPT !.intact = FALSE]),
                   Units([a EXCEPT !.len = MaxPayload + 1]),
                   Units([a EXCEPT !.decodes = (@ /\ a.len = 0)])}
  BY DEF ImproperAnswers
<1>2. a \in Frame /\ a.call = f.call /\ a.id = f.id
  BY ProperIs
<1>3. ASSUME NEW b, AnswerTo(f, b), units = Units(b) \/ units = Units(b) \o Units(b)
      PROVE  \E g : AnswerTo(f, g) /\ OneFrame(units, g)
  <2>1. b \in Frame
    BY <1>3 DEF AnswerTo
  <2> QED BY <1>3, <2>1, UnitsOneFrame
<1>4. AnswerTo(f, a)
  BY <1>2 DEF AnswerTo
<1>5. AnswerTo(f, [a EXCEPT !.kind = "request"])
  BY <1>2 DEF AnswerTo, Frame
<1>6. AnswerTo(f, [a EXCEPT !.opcode = IF @ = "Get" THEN "Put" ELSE "Get"])
  BY <1>2 DEF AnswerTo, Frame, Opcode
<1>7. AnswerTo(f, [a EXCEPT !.id = 0])
  BY <1>2 DEF AnswerTo, Frame
<1>8. AnswerTo(f, [a EXCEPT !.intact = FALSE])
  BY <1>2 DEF AnswerTo, Frame
<1>9. AnswerTo(f, [a EXCEPT !.len = MaxPayload + 1])
  BY <1>2, FramesAssumption DEF AnswerTo, Frame
<1>10. AnswerTo(f, [a EXCEPT !.decodes = (@ /\ a.len = 0)])
  BY <1>2 DEF AnswerTo, Frame
<1> QED BY <1>1, <1>3, <1>4, <1>5, <1>6, <1>7, <1>8, <1>9, <1>10

-----------------------------------------------------------------------------
(* The end of a call.                                                      *)

(* The request of the call that runs is a frame.                           *)
LEMMA RequestIs ==
  ASSUME RpcInv, ~RpcIdle
  PROVE  /\ Request \in Frame /\ Request.len \in Nat /\ Request.call = calls
         /\ Request.id \in 1 .. MaxId /\ calls \in Call
<1>1. rpc.request \in Seq(Frame) /\ Len(rpc.request) = 1
  BY DEF RpcInv, RpcType, CallsFit
<1>2. Request \in Frame
  BY <1>1 DEF Request
<1>3. Request.len \in Nat
  BY <1>2 DEF Frame
<1> QED BY <1>2, <1>3 DEF RpcInv, RpcType, CallsFit, Call

(* A new TcpConnector.                                                     *)
LEMMA RpcStart == RpcInit => RpcInv
<1> SUFFICES ASSUME RpcInit PROVE RpcInv
  OBVIOUS
<1>1. /\ net = [s \in Session |-> EmptySession] /\ connection = NoSession
      /\ nextId = FirstId /\ rpc = IdleRpc /\ calls = 0 /\ log = <<>> /\ honest = TRUE
      /\ results = [k \in Call |-> "pending"]
  BY DEF RpcInit, NetInit
<1>2. rpc.phase = "idle" /\ rpc.got = <<>> /\ RpcIdle
  BY <1>1 DEF IdleRpc, RpcIdle
<1>3. RpcType
  <2>1. EmptySession \in SessionType
    BY DEF EmptySession, SessionType
  <2>2. IdleRpc \in [phase : RpcPhase, request : Seq(Frame), sent : Nat, got : Seq(Unit)]
    BY DEF IdleRpc, RpcPhase
  <2> QED BY <1>1, <2>1, <2>2, ConnectorAssumption DEF RpcType, Result
<1>4. \A s \in Session : net[s].client = "new" /\ net[s].up = <<>> /\ net[s] = EmptySession
  BY <1>1 DEF EmptySession
<1>5. CallsFit
  BY <1>1, <1>2 DEF CallsFit, Call
<1>6. ConnectionFits
  BY <1>1, <1>2, <1>4, SessionAssumption DEF ConnectionFits, NoSession
<1>7. RequestsFit
  BY <1>4 DEF RequestsFit, Sending
<1>8. ProgressFits
  BY <1>2 DEF ProgressFits
<1>9. AnswersFit
  BY <1>1, <1>2 DEF AnswersFit, Arrived
<1>10. StreamFits
  BY <1>1, <1>2 DEF StreamFits
<1> QED BY <1>3, <1>5, <1>6, <1>7, <1>8, <1>9, <1>10 DEF RpcInv

(* RpcReturn ends the call with a status.                                  *)
LEMMA ReturnIs ==
  ASSUME RpcType, CallsFit, ~RpcIdle, NEW status \in Result \ {"pending"}, RpcReturn(status),
         UNCHANGED <<nextId, calls, log>>
  PROVE  /\ rpc' = IdleRpc /\ rpc'.phase = "idle" /\ rpc'.got = <<>> /\ RpcIdle'
         /\ rpc' \in [phase : RpcPhase, request : Seq(Frame), sent : Nat, got : Seq(Unit)]
         /\ results' \in [Call -> Result] /\ results'[calls] = status
         /\ \A k \in Call \ {calls} : results'[k] = results[k]
         /\ calls \in Call /\ CallsFit'
<1>1. calls \in Call
  BY DEF CallsFit, RpcType, Call
<1>2. rpc' = IdleRpc /\ results' = [results EXCEPT ![calls] = status]
  BY DEF RpcReturn
<1>3. rpc'.phase = "idle" /\ rpc'.got = <<>> /\ RpcIdle'
  BY <1>2 DEF IdleRpc, RpcIdle
<1>4. rpc' \in [phase : RpcPhase, request : Seq(Frame), sent : Nat, got : Seq(Unit)]
  BY <1>2 DEF IdleRpc, RpcPhase
<1>5. /\ results' \in [Call -> Result] /\ results'[calls] = status
      /\ \A k \in Call \ {calls} : results'[k] = results[k]
  BY <1>1, <1>2 DEF RpcType
<1>6. \A k \in Call : results'[k] = "pending" <=> k > calls
  <2> SUFFICES ASSUME NEW k \in Call PROVE results'[k] = "pending" <=> k > calls
    OBVIOUS
  <2>1. results[k] = "pending" <=> (k > calls \/ k = calls)
    BY DEF CallsFit
  <2>2. k \in Int /\ calls \in Int
    BY <1>1 DEF Call
  <2> QED BY <1>1, <1>5, <2>1, <2>2
<1>7. CallsFit'
  BY <1>2, <1>3, <1>6 DEF CallsFit
<1> QED BY <1>1, <1>2, <1>3, <1>4, <1>5, <1>7

(* A step that sends nothing and does not touch what is on its way.        *)
LEMMA RequestsKeep ==
  ASSUME RequestsFit, calls \in Nat, calls' \in Nat, calls <= calls', log' = log,
         \A s \in Session : net'[s].up = net[s].up,
         \A s \in Session : Sending(s) =>
           IF s = connection' THEN ~RpcIdle' /\ Sent(s) = Request'
           ELSE RpcIdle' \/ Sent(s).call # calls'
  PROVE  RequestsFit'
<1>1. \A s \in Session : (Sending(s)' <=> Sending(s)) /\ Sent(s)' = Sent(s)
  BY DEF Sending, Sent
<1>2. ASSUME NEW s \in Session, Sending(s)'
      PROVE  /\ \A i \in DOMAIN net'[s].up : net'[s].up[i] = <<Sent(s)', i>>
             /\ Len(net'[s].up) <= HeaderUnits + Sent(s)'.len
             /\ Sent(s)'.call \in 1 .. calls' /\ ~Logged(Sent(s).call)'
  <2>1. /\ \A i \in DOMAIN net[s].up : net[s].up[i] = <<Sent(s), i>>
        /\ Len(net[s].up) <= HeaderUnits + Sent(s).len
        /\ Sent(s).call \in 1 .. calls /\ ~Logged(Sent(s).call)
    BY <1>1, <1>2 DEF RequestsFit
  <2>2. Sent(s).call \in 1 .. calls'
    BY <2>1
  <2>3. ~Logged(Sent(s).call)'
    BY <1>1, <2>1 DEF Logged
  <2> QED BY <1>1, <2>1, <2>2, <2>3
<1>3. ASSUME NEW s \in Session, Sending(s)'
      PROVE  IF s = connection' THEN ~RpcIdle' /\ Sent(s)' = Request'
             ELSE RpcIdle' \/ Sent(s)'.call # calls'
  BY <1>1, <1>3
<1>4. ASSUME NEW s \in Session, NEW u \in Session, Sending(s)', Sending(u)', s # u
      PROVE  Sent(s)'.call # Sent(u)'.call
  BY <1>1, <1>4 DEF RequestsFit
<1> QED BY <1>2, <1>3, <1>4 DEF RequestsFit

(* A call that ends with its connection dropped.                           *)
LEMMA DropKeeps ==
  ASSUME RpcInv, ~RpcIdle, rpc.phase # "connect",
         NEW status \in Result \ {"pending"}, honest /\ MaxPayload > 0 => status # "Corruption",
         ReturnAndDrop(status), UNCHANGED <<nextId, calls, log, honest>>
  PROVE  RpcInv'
<1> DEFINE o == connection
<1>1. /\ RpcType /\ CallsFit /\ o \in Session /\ RpcReturn(status) /\ Hangup(o)
      /\ connection' = NoSession /\ NoSession \notin Session
  BY SessionAssumption DEF RpcInv, RpcType, ConnectionFits, ReturnAndDrop, DropConnection
<1> HIDE DEF o
<1>2. /\ rpc'.phase = "idle" /\ rpc'.got = <<>> /\ RpcIdle' /\ CallsFit'
      /\ rpc' \in [phase : RpcPhase, request : Seq(Frame), sent : Nat, got : Seq(Unit)]
      /\ results' \in [Call -> Result] /\ results'[calls] = status
      /\ \A k \in Call \ {calls} : results'[k] = results[k]
  BY <1>1, ReturnIs
<1>3. NetAt(o, "closed", net[o].peer, net[o].up, <<>>)
  BY <1>1, HangupIs
<1>4. RpcType'
  BY <1>1, <1>2, <1>3 DEF RpcType, NetAt
<1>5. \A s \in Session : net'[s].up = net[s].up
  BY <1>1, <1>3 DEF NetAt
<1>6. ConnectionFits'
  BY <1>1, <1>2, <1>3 DEF ConnectionFits, NetAt, RpcInv, o
<1>7. RequestsFit'
  <2>1. RequestsFit /\ calls \in Nat
    BY DEF RpcInv, RpcType
  <2> QED BY <1>1, <1>2, <1>5, <2>1, RequestsKeep
<1>8. ProgressFits' /\ AnswersFit'
  BY <1>1, <1>2 DEF ProgressFits, AnswersFit, Arrived
<1>9. StreamFits'
  BY <1>1, <1>2, FramesAssumption DEF RpcInv, StreamFits
<1> QED BY <1>2, <1>4, <1>6, <1>7, <1>8, <1>9 DEF RpcInv

(* A step that receives nothing new, in the same call or at its end.       *)
LEMMA AnswersKeep ==
  ASSUME AnswersFit, UNCHANGED <<nextId, calls, log>>,
         \A a \in Frame : Arrived(a)' => Arrived(a),
         RpcIdle' \/ (~RpcIdle /\ Request' = Request)
  PROVE  AnswersFit'
<1> SUFFICES ASSUME NEW a \in Frame, Arrived(a)' PROVE AnswerFits(a)'
  BY DEF AnswersFit
<1>1. AnswerFits(a)
  BY DEF AnswersFit
<1> QED BY <1>1 DEF AnswerFits, AnsweredWith, Age

(* A call that ends with its connection kept, if there is one.             *)
LEMMA KeepKeeps ==
  ASSUME RpcInv, ~RpcIdle,
         NEW status \in Result \ {"pending"}, honest => status # "Corruption",
         ReturnAndKeep(status), UNCHANGED <<nextId, calls, log, honest>>,
         connection # NoSession =>
           net[connection].up = <<>> /\ (honest => net[connection].down = <<>>)
  PROVE  RpcInv'
<1>1. RpcType /\ CallsFit /\ RpcReturn(status) /\ net' = net /\ connection' = connection
  BY DEF RpcInv, ReturnAndKeep
<1>2. /\ rpc'.phase = "idle" /\ rpc'.got = <<>> /\ RpcIdle' /\ CallsFit'
      /\ rpc' \in [phase : RpcPhase, request : Seq(Frame), sent : Nat, got : Seq(Unit)]
      /\ results' \in [Call -> Result] /\ results'[calls] = status
      /\ \A k \in Call \ {calls} : results'[k] = results[k]
  BY <1>1, ReturnIs
<1>3. RpcType'
  BY <1>1, <1>2 DEF RpcType
<1>4. ConnectionFits'
  BY <1>1, <1>2 DEF ConnectionFits, RpcInv
<1>5. RequestsFit'
  <2>1. RequestsFit /\ calls \in Nat
    BY DEF RpcInv, RpcType
  <2>2. \A s \in Session : Sending(s) => s # connection
    BY SessionAssumption DEF Sending
  <2> QED BY <1>1, <1>2, <2>1, <2>2, RequestsKeep
<1>6. ProgressFits'
  BY <1>2 DEF ProgressFits
<1>7. AnswersFit'
  <2>1. \A a \in Frame : Arrived(a)' => Arrived(a)
    BY <1>1, <1>2 DEF Arrived
  <2> QED BY <1>2, <2>1, AnswersKeep DEF RpcInv
<1>8. StreamFits'
  BY <1>1, <1>2 DEF RpcInv, StreamFits
<1> QED BY <1>2, <1>3, <1>4, <1>5, <1>6, <1>7, <1>8 DEF RpcInv

(* Close, between calls.                                                   *)
LEMMA CloseKeeps ==
  ASSUME RpcInv, RpcClose
  PROVE  RpcInv'
<1> DEFINE o == connection
<1>1. /\ RpcType /\ RpcIdle /\ Hangup(o) /\ connection' = NoSession /\ NoSession \notin Session
      /\ UNCHANGED <<nextId, rpc, calls, results, log, honest>>
  BY SessionAssumption DEF RpcInv, RpcClose, DropConnection
<1>2. /\ rpc = IdleRpc /\ rpc'.phase = "idle" /\ rpc'.got = <<>> /\ RpcIdle'
  BY <1>1 DEF RpcInv, CallsFit, RpcIdle, IdleRpc
<1> HIDE DEF o
<1>3. /\ net' \in [Session -> SessionType]
      /\ \A s \in Session : net'[s].up = net[s].up
      /\ \A s \in Session : net'[s].client = IF s = o THEN "closed" ELSE net[s].client
      /\ \A s \in Session : s # o => net'[s] = net[s]
  <2>1. CASE o = NoSession
    <3>1. net' = net
      BY <1>1, <2>1 DEF Hangup
    <3> QED BY <1>1, <2>1, <3>1 DEF RpcType
  <2>2. CASE o # NoSession
    <3>1. o \in Session
      BY <1>1, <2>2 DEF RpcType, o
    <3>2. NetAt(o, "closed", net[o].peer, net[o].up, <<>>)
      BY <1>1, <3>1, HangupIs
    <3> QED BY <3>1, <3>2 DEF NetAt
  <2> QED BY <2>1, <2>2
<1>4. RpcType'
  BY <1>1, <1>3 DEF RpcType
<1>5. CallsFit'
  BY <1>1 DEF RpcInv, CallsFit, RpcIdle
<1>6. ConnectionFits'
  BY <1>1, <1>2, <1>3 DEF RpcInv, ConnectionFits, o
<1>7. RequestsFit'
  <2>1. RequestsFit /\ calls \in Nat
    BY DEF RpcInv, RpcType
  <2> QED BY <1>1, <1>2, <1>3, <2>1, RequestsKeep
<1>8. ProgressFits' /\ AnswersFit'
  BY <1>1, <1>2 DEF ProgressFits, AnswersFit, Arrived
<1>9. StreamFits'
  BY <1>1, <1>2 DEF RpcInv, StreamFits
<1> QED BY <1>4, <1>5, <1>6, <1>7, <1>8, <1>9 DEF RpcInv

-----------------------------------------------------------------------------
(* The beginning of a call.                                                *)

(* A call that fails before anything is sent, with or without an id.       *)
LEMMA NoCallKeeps ==
  ASSUME RpcInv, RpcIdle, calls < MaxCalls, calls' = calls + 1,
         NEW e \in Result \ {"pending", "Corruption"},
         results' = [results EXCEPT ![calls + 1] = e],
         AllocateRequestId \/ nextId' = nextId,
         UNCHANGED <<net, connection, rpc, log, honest>>
  PROVE  RpcInv'
<1>1. /\ RpcType /\ rpc = IdleRpc /\ rpc.phase = "idle" /\ rpc.got = <<>> /\ RpcIdle'
      /\ MaxCalls \in Nat /\ calls \in Nat
  BY ConnectorAssumption DEF RpcInv, CallsFit, RpcIdle, IdleRpc, RpcType
<1>2. calls' \in 0 .. MaxCalls /\ calls' \in Call
  BY <1>1 DEF Call
<1>3. /\ results' \in [Call -> Result] /\ results'[calls'] = e
      /\ \A k \in Call \ {calls'} : results'[k] = results[k]
  BY <1>1, <1>2 DEF RpcType
<1>4. nextId' \in 1 .. MaxId
  BY <1>1, ConnectorAssumption DEF RpcType, AllocateRequestId
<1>5. RpcType'
  BY <1>1, <1>2, <1>3, <1>4 DEF RpcType
<1>6. CallsFit'
  <2>1. \A k \in Call : results'[k] = "pending" <=> k > calls'
    <3> SUFFICES ASSUME NEW k \in Call PROVE results'[k] = "pending" <=> k > calls'
      OBVIOUS
    <3>1. (results[k] = "pending" <=> k > calls) /\ k \in Int
      BY DEF RpcInv, CallsFit, Call
    <3> QED BY <1>1, <1>2, <1>3, <3>1
  <2>2. \A i \in DOMAIN log' : log'[i][1] \in 1 .. calls'
    BY <1>1 DEF RpcInv, CallsFit
  <2> QED BY <1>1, <2>1, <2>2 DEF CallsFit
<1>7. ConnectionFits'
  BY <1>1 DEF RpcInv, ConnectionFits, RpcIdle
<1>8. RequestsFit'
  <2>1. RequestsFit
    BY DEF RpcInv
  <2>2. \A s \in Session : Sending(s) => s # connection
    BY <2>1 DEF RequestsFit
  <2> QED BY <1>1, <1>2, <2>1, <2>2, RequestsKeep
<1>9. ProgressFits'
  BY <1>1 DEF ProgressFits
<1>10. AnswersFit'
  <2> SUFFICES ASSUME NEW a \in Frame, Arrived(a)' PROVE AnswerFits(a)'
    BY DEF AnswersFit
  <2>1. Arrived(a)
    BY <1>1 DEF Arrived
  <2>2. AnswerFits(a)
    BY <2>1 DEF RpcInv, AnswersFit
  <2>3. AnsweredWith(a.call, a.status)' /\ a.call \in 1 .. calls'
    BY <1>1, <2>2 DEF AnswerFits, AnsweredWith
  <2>4. ASSUME a.id # 0 PROVE a.id \in 1 .. MaxId /\ Age(a.id)' <= calls' - a.call + 1
    <3>1. a.id \in 1 .. MaxId /\ Age(a.id) <= calls - a.call + 1 /\ a.call \in 1 .. calls
      BY <2>2, <2>4 DEF AnswerFits
    <3>2. Age(a.id)' <= Age(a.id) + 1 /\ Age(a.id) \in Int /\ Age(a.id)' \in Int
      <4>1. CASE AllocateRequestId
        BY <1>1, <3>1, <4>1, AgeNext
      <4>2. CASE nextId' = nextId
        <5>1. Age(a.id)' = Age(a.id)
          BY <4>2 DEF Age
        <5>2. nextId \in Int /\ MaxId \in Int /\ a.id \in Int
          BY <1>1, <3>1, ConnectorAssumption DEF RpcType
        <5> HIDE <4>2
        <5>3. Age(a.id) \in Int
          BY <5>2 DEF Age
        <5> QED BY <5>1, <5>3
      <4> QED BY <4>1, <4>2
    <3> QED BY <1>1, <3>1, <3>2
  <2> QED BY <1>1, <2>3, <2>4 DEF AnswerFits
<1>11. StreamFits'
  BY <1>1, <1>3 DEF RpcInv, StreamFits
<1> QED BY <1>5, <1>6, <1>7, <1>8, <1>9, <1>10, <1>11 DEF RpcInv

(* RpcRefused.                                                             *)
LEMMA RefusedKeeps ==
  ASSUME RpcInv, NEW opcode \in Opcode, NEW blob \in BlobUnits, RpcRefused(opcode, blob)
  PROVE  RpcInv'
<1>1. PICK e \in RefuseErrors(opcode, blob) : results' = [results EXCEPT ![calls + 1] = e]
  BY DEF RpcRefused
<1>2. e \in Result \ {"pending", "Corruption"}
  BY <1>1 DEF RefuseErrors, Result, AnswerStatus
<1> QED BY <1>1, <1>2, NoCallKeeps DEF RpcRefused

(* RpcBegin.  The id it takes is not one an answer on the connection has.  *)
LEMMA BeginKeeps ==
  ASSUME RpcInv, honest \/ MaxCalls <= MaxId,
         NEW opcode \in Opcode, NEW blob \in BlobUnits, RpcBegin(opcode, blob)
  PROVE  RpcInv'
<1> DEFINE f == RequestFrame(opcode, blob)
           phase == IF connection = NoSession THEN "connect" ELSE "write"
<1>1. /\ RpcType /\ rpc = IdleRpc /\ RpcIdle /\ rpc.got = <<>>
      /\ MaxCalls \in Nat /\ MaxId \in Nat /\ calls \in Nat /\ calls < MaxCalls
      /\ calls' = calls + 1 /\ AllocateRequestId /\ nextId \in 1 .. MaxId
      /\ UNCHANGED <<net, connection, log, honest>>
  BY ConnectorAssumption DEF RpcInv, CallsFit, RpcIdle, IdleRpc, RpcType, RpcBegin
<1>2. \A id \in 1 .. MaxId :
        /\ nextId' \in 1 .. MaxId
        /\ Age(id) \in 1 .. MaxId /\ Age(id)' \in 1 .. MaxId
        /\ Age(id)' <= Age(id) + 1
        /\ id = nextId => Age(id) = MaxId /\ Age(id)' = 1
  BY <1>1, AgeNext
<1>3. CASE results' = [results EXCEPT ![calls + 1] = "OutOfCapacity"] /\ UNCHANGED rpc
  <2>1. "OutOfCapacity" \in Result \ {"pending", "Corruption"}
    BY DEF Result, AnswerStatus
  <2> QED BY <1>1, <1>3, <2>1, NoCallKeeps
<1>4. CASE /\ rpc' = [IdleRpc EXCEPT !.phase = phase, !.request = <<f>>]
           /\ UNCHANGED results
  <2>1. /\ f \in Frame /\ f.kind = "request" /\ f.id = nextId /\ f.call = calls + 1
        /\ f.len \in Nat
    <3>1. RequestUnits(opcode, blob) \in Nat
      BY ConnectorAssumption DEF RequestUnits, Opcode, KeyUnits
    <3> QED BY <1>1, <3>1 DEF RequestFrame, Frame, AnswerStatus
  <2>2. phase \in {"connect", "write"} /\ (phase = "connect" <=> connection = NoSession)
    OBVIOUS
  <2> HIDE DEF f, phase
  <2>3. /\ rpc'.phase = phase /\ rpc'.request = <<f>> /\ rpc'.sent = 0 /\ rpc'.got = <<>>
        /\ rpc' \in [phase : RpcPhase, request : Seq(Frame), sent : Nat, got : Seq(Unit)]
        /\ ~RpcIdle' /\ Request' = f /\ Len(rpc'.request) = 1
    <3>1. rpc' = [phase |-> phase, request |-> <<f>>, sent |-> 0, got |-> <<>>]
      BY <1>4 DEF IdleRpc
    <3>2. /\ rpc'.phase = phase /\ rpc'.request = <<f>> /\ rpc'.sent = 0
          /\ rpc'.got = <<>>
      BY <3>1
    <3>3. phase \in RpcPhase /\ <<f>> \in Seq(Frame)
      BY <2>1, <2>2 DEF RpcPhase
    <3> QED BY <2>2, <3>1, <3>2, <3>3 DEF RpcIdle, Request
  <2>4. calls' \in 0 .. MaxCalls /\ nextId' \in 1 .. MaxId
    BY <1>1, <1>2
  <2>5. RpcType'
    BY <1>1, <1>4, <2>3, <2>4 DEF RpcType
  <2>6. CallsFit'
    <3>1. \A k \in Call : results'[k] = "pending" <=> (k > calls' \/ k = calls')
      <4> SUFFICES ASSUME NEW k \in Call
                   PROVE  results'[k] = "pending" <=> (k > calls' \/ k = calls')
        OBVIOUS
      <4>1. (results[k] = "pending" <=> k > calls) /\ k \in Int
        BY <1>1 DEF RpcInv, CallsFit, Call
      <4> QED BY <1>1, <1>4, <4>1
    <3>2. \A i \in DOMAIN log' : log'[i][1] \in 1 .. calls'
      BY <1>1 DEF RpcInv, CallsFit
    <3>3. calls' > 0 /\ f.call = calls' /\ f.id \in 1 .. MaxId
      BY <1>1, <2>1
    <3>4. Age(Request.id)' = 1
      <4>1. PICK id \in 1 .. MaxId : id = nextId
        BY <1>1
      <4>2. Age(id)' = 1
        BY <1>2, <4>1
      <4>3. Request'.id = id
        BY <2>1, <2>3, <4>1
      <4> QED BY <4>2, <4>3 DEF Age
    <3> QED BY <2>1, <2>3, <3>1, <3>2, <3>3, <3>4 DEF CallsFit
  <2>7. ConnectionFits'
    BY <1>1, <2>2, <2>3 DEF RpcInv, ConnectionFits
  <2>8. \A s \in Session : Sending(s) => s # connection /\ Sent(s).call \in 1 .. calls
    BY <1>1 DEF RpcInv, RequestsFit
  <2>9. RequestsFit'
    <3>1. RequestsFit
      BY DEF RpcInv
    <3> QED BY <1>1, <2>3, <2>4, <2>8, <3>1, RequestsKeep
  <2>10. ProgressFits'
    <3>1. ~Logged(calls)'
      BY <1>1 DEF Logged, RpcInv, CallsFit
    <3>2. ASSUME phase = "write"
          PROVE  0 < HeaderUnits + f.len /\ Len(net'[connection'].up) = 0
      <4>1. connection \in Session
        BY <1>1, <2>2, <3>2 DEF RpcType
      <4>2. net[connection].up = <<>>
        BY <2>8, <4>1 DEF Sending
      <4> QED BY <1>1, <2>1, <4>2, FramesAssumption
    <3> QED BY <2>2, <2>3, <3>1, <3>2 DEF ProgressFits
  <2>11. AnswersFit'
    <3> SUFFICES ASSUME NEW a \in Frame, Arrived(a)' PROVE AnswerFits(a)'
      BY DEF AnswersFit
    <3>1. Arrived(a) /\ ~honest
      BY <1>1, <2>3 DEF Arrived, RpcInv, StreamFits
    <3>2. AnswerFits(a)
      BY <3>1 DEF RpcInv, AnswersFit
    <3>3. AnsweredWith(a.call, a.status)' /\ a.call \in 1 .. calls'
      BY <1>1, <3>2 DEF AnswerFits, AnsweredWith
    <3>4. ASSUME a.id # 0
          PROVE  /\ a.id \in 1 .. MaxId /\ Age(a.id)' <= calls' - a.call + 1
                 /\ a.id # nextId
      <4>1. a.id \in 1 .. MaxId /\ Age(a.id) <= calls - a.call + 1 /\ a.call \in 1 .. calls
        BY <3>2, <3>4 DEF AnswerFits
      <4>2. /\ Age(a.id)' <= Age(a.id) + 1 /\ Age(a.id) \in Int /\ Age(a.id)' \in Int
            /\ a.id = nextId => Age(a.id) = MaxId
        BY <1>2, <4>1
      <4> QED BY <1>1, <3>1, <4>1, <4>2
    <3>5. a.id # Request'.id
      BY <1>1, <2>1, <2>3, <3>4
    <3> QED BY <3>3, <3>4, <3>5 DEF AnswerFits
  <2>12. StreamFits'
    BY <1>1, <1>4, <2>2, <2>3 DEF RpcInv, StreamFits
  <2> QED BY <2>5, <2>6, <2>7, <2>9, <2>10, <2>11, <2>12 DEF RpcInv
<1> QED BY <1>1, <1>3, <1>4 DEF RpcBegin

(* Connect.                                                                *)
LEMMA ConnectKeeps ==
  ASSUME RpcInv, Connect
  PROVE  RpcInv'
<1> DEFINE o == calls
<1>1. /\ RpcType /\ rpc.phase = "connect" /\ ~RpcIdle /\ connection = NoSession
      /\ o \in Session /\ NoSession \notin Session /\ Connected(o)
      /\ connection' = o /\ rpc' = [rpc EXCEPT !.phase = "write"]
      /\ UNCHANGED <<nextId, calls, results, log, honest>>
  BY SessionAssumption, ConnectorAssumption
  DEF RpcInv, CallsFit, ConnectionFits, RpcType, RpcIdle, Connect
<1>2. /\ rpc'.phase = "write" /\ rpc'.request = rpc.request /\ rpc'.sent = rpc.sent
      /\ rpc'.got = rpc.got /\ ~RpcIdle' /\ Request' = Request
      /\ rpc' \in [phase : RpcPhase, request : Seq(Frame), sent : Nat, got : Seq(Unit)]
  BY <1>1 DEF RpcType, RpcPhase, RpcIdle, Request
<1> HIDE DEF o
<1>3. /\ net[o].client = "new"
      /\ NetAt(o, "open", net[o].peer, net[o].up, net[o].down)
  BY <1>1, ConnectedIs
<1>4. net[o].peer = "open" /\ net[o].up = <<>> /\ net[o].down = <<>>
  BY <1>1, <1>3 DEF RpcInv, ConnectionFits, EmptySession
<1>5. RpcType'
  BY <1>1, <1>2, <1>3 DEF RpcType, NetAt
<1>6. CallsFit'
  BY <1>1, <1>2 DEF RpcInv, CallsFit, Age
<1>7. ConnectionFits'
  BY <1>1, <1>2, <1>3 DEF RpcInv, ConnectionFits, NetAt
<1>8. RequestsFit'
  <2>1. RequestsFit /\ calls \in Nat
    BY DEF RpcInv, RpcType
  <2>2. \A s \in Session : net'[s].up = net[s].up
    BY <1>1, <1>3 DEF NetAt
  <2>3. \A s \in Session : Sending(s) => s # o /\ Sent(s).call # calls
    BY <1>1, <1>4, <2>1 DEF RequestsFit, Sending
  <2> QED BY <1>1, <1>2, <2>1, <2>2, <2>3, RequestsKeep
<1>9. ProgressFits'
  <2>1. Request.len \in Nat /\ rpc.sent = 0 /\ rpc.got = <<>> /\ ~Logged(calls)
    BY <1>1, RequestIs DEF RpcInv, ProgressFits
  <2>2. 0 < HeaderUnits + Request.len /\ Len(net'[connection'].up) = 0
    BY <1>1, <1>3, <1>4, <2>1, FramesAssumption DEF NetAt
  <2> QED BY <1>1, <1>2, <1>3, <1>4, <2>1, <2>2 DEF ProgressFits, Logged, NetAt
<1>10. rpc'.got = <<>> /\ net'[connection'].down = <<>>
  BY <1>1, <1>2, <1>3, <1>4 DEF RpcInv, ProgressFits, NetAt
<1>11. AnswersFit'
  BY <1>10 DEF AnswersFit, Arrived
<1>12. StreamFits'
  BY <1>1, <1>2, <1>10 DEF RpcInv, StreamFits
<1> QED BY <1>5, <1>6, <1>7, <1>8, <1>9, <1>11, <1>12 DEF RpcInv

-----------------------------------------------------------------------------
(* The request is written, the answer read.                                *)

(* WriteSome.                                                              *)
LEMMA WriteKeeps ==
  ASSUME RpcInv, WriteSome
  PROVE  RpcInv'
<1> DEFINE o == connection
           u == <<Request, rpc.sent + 1>>
           total == HeaderUnits + Request.len
           phase == IF rpc.sent + 1 = total THEN "header" ELSE "write"
           up == IF net[o].peer = "open" THEN Append(net[o].up, u) ELSE net[o].up
<1>1. /\ RpcType /\ rpc.phase = "write" /\ ~RpcIdle /\ rpc.sent \in Nat /\ rpc.got = <<>>
      /\ connection \in Session /\ SendUnit(connection, u)
      /\ rpc' = [rpc EXCEPT !.sent = rpc.sent + 1, !.phase = phase]
      /\ UNCHANGED <<connection, nextId, calls, results, log, honest>>
  BY DEF RpcInv, ConnectionFits, ProgressFits, RpcType, RpcIdle, WriteSome
<1>2. /\ Request \in Frame /\ total \in Nat /\ rpc.sent + 1 <= total
      /\ calls \in Call /\ Request.call = calls /\ Request.id \in 1 .. MaxId
      /\ total > 0
  <2>1. /\ Request \in Frame /\ Request.len \in Nat /\ calls \in Call
        /\ Request.call = calls /\ Request.id \in 1 .. MaxId
    BY <1>1, RequestIs
  <2>2. rpc.sent < total
    BY <1>1 DEF RpcInv, ProgressFits
  <2> QED BY <1>1, <2>1, <2>2, FramesAssumption
<1>3. u \in Unit
  BY <1>1, <1>2 DEF Unit
<1>4. phase \in {"header", "write"} /\ (phase = "write" => rpc.sent + 1 < total)
  BY <1>1, <1>2
<1> HIDE DEF u, phase, o, total
<1>5. /\ rpc'.phase = phase /\ rpc'.request = rpc.request /\ rpc'.sent = rpc.sent + 1
      /\ rpc'.got = rpc.got /\ ~RpcIdle' /\ Request' = Request
      /\ rpc' \in [phase : RpcPhase, request : Seq(Frame), sent : Nat, got : Seq(Unit)]
  <2> DEFINE n == rpc.sent + 1
  <2>1. n \in Nat /\ rpc' = [rpc EXCEPT !.sent = n, !.phase = phase] /\ phase \in RpcPhase
    BY <1>1, <1>4 DEF RpcPhase
  <2> HIDE DEF n
  <2>2. /\ rpc'.phase = phase /\ rpc'.request = rpc.request /\ rpc'.sent = n
        /\ rpc'.got = rpc.got
        /\ rpc' \in [phase : RpcPhase, request : Seq(Frame), sent : Nat, got : Seq(Unit)]
    BY <1>1, <2>1 DEF RpcType
  <2> QED BY <1>4, <2>2 DEF RpcIdle, Request, n
<1>6. NetAt(o, net[o].client, net[o].peer, up, net[o].down)
  BY <1>1, <1>3, SendUnitIs DEF o
<1>7. /\ Len(net[o].up) = IF net[o].peer = "open" THEN rpc.sent ELSE 0
      /\ net[o].up \in Seq(Unit) /\ o \in Session /\ connection' = o
  BY <1>1 DEF RpcInv, ProgressFits, RpcType, SessionType, o
<1>8. /\ Len(up) = IF net[o].peer = "open" THEN rpc.sent + 1 ELSE 0
      /\ up \in Seq(Unit)
      /\ \A i \in DOMAIN up : up[i] = <<Request, i>>
  <2>1. CASE net[o].peer = "open"
    <3>1. up = Append(net[o].up, u) /\ Len(net[o].up) = rpc.sent
      BY <1>7, <2>1
    <3>2. \A i \in DOMAIN net[o].up : net[o].up[i] = <<Request, i>>
      BY <1>1, <1>7 DEF RpcInv, RequestsFit, Sending, o
    <3>3. u = <<Request, rpc.sent + 1>>
      BY DEF u
    <3> HIDE DEF up
    <3> QED BY <1>1, <1>3, <1>7, <2>1, <3>1, <3>2, <3>3
  <2>2. CASE net[o].peer # "open"
    <3>1. up = <<>>
      BY <1>7, <2>2
    <3> HIDE DEF up
    <3> QED BY <2>2, <3>1
  <2> QED BY <2>1, <2>2
<1> HIDE DEF up
<1>9. RpcType'
  BY <1>1, <1>5, <1>6 DEF RpcType, NetAt
<1>10. CallsFit'
  BY <1>1, <1>5 DEF RpcInv, CallsFit, Age
<1>11. ConnectionFits'
  <2>1. \A s \in Session : net'[s].client = net[s].client
    BY <1>6, <1>7 DEF NetAt
  <2>2. \A s \in Session : net[s].client = "new" => s # o
    BY <1>1 DEF RpcInv, ConnectionFits, o
  <2>3. \A s \in Session : s # o => net'[s] = net[s]
    BY <1>6 DEF NetAt
  <2> QED BY <1>1, <1>4, <1>5, <2>1, <2>2, <2>3, SessionAssumption DEF RpcInv, ConnectionFits
<1>12. net'[o].up = up /\ \A s \in Session \ {o} : net'[s] = net[s]
  BY <1>6 DEF NetAt
<1>13. RequestsFit'
  <2>1. ASSUME NEW s \in Session, Sending(s)'
        PROVE  /\ \A i \in DOMAIN net'[s].up : net'[s].up[i] = <<Sent(s)', i>>
               /\ Len(net'[s].up) <= HeaderUnits + Sent(s)'.len
               /\ Sent(s)'.call \in 1 .. calls' /\ ~Logged(Sent(s).call)'
               /\ IF s = connection' THEN ~RpcIdle' /\ Sent(s)' = Request'
                  ELSE RpcIdle' \/ Sent(s)'.call # calls'
    <3>1. CASE s = o
      <4>1. net'[s].up = up /\ up # <<>>
        BY <1>12, <2>1, <3>1 DEF Sending
      <4>2. Sent(s)' = Request
        BY <1>8, <4>1 DEF Sent
      <4>3. Len(up) <= total
        BY <1>1, <1>2, <1>8
      <4>4. ~Logged(calls) /\ calls \in 1 .. calls
        BY <1>1, <1>2 DEF RpcInv, ProgressFits, Call
      <4>5. ~Logged(Sent(s).call)'
        BY <1>1, <1>2, <4>2, <4>4 DEF Logged
      <4> QED BY <1>1, <1>2, <1>5, <1>7, <1>8, <3>1, <4>1, <4>2, <4>3, <4>4, <4>5 DEF total
    <3>2. CASE s # o
      <4>1. net'[s].up = net[s].up /\ Sending(s) /\ Sent(s)' = Sent(s)
        BY <1>12, <2>1, <3>2 DEF Sending, Sent
      <4>2. /\ \A i \in DOMAIN net[s].up : net[s].up[i] = <<Sent(s), i>>
            /\ Len(net[s].up) <= HeaderUnits + Sent(s).len
            /\ Sent(s).call \in 1 .. calls /\ ~Logged(Sent(s).call)
            /\ Sent(s).call # calls
        BY <1>1, <3>2, <4>1 DEF RpcInv, RequestsFit, o
      <4>3. ~Logged(Sent(s).call)'
        BY <1>1, <4>1, <4>2 DEF Logged
      <4> QED BY <1>1, <1>7, <3>2, <4>1, <4>2, <4>3
    <3> QED BY <3>1, <3>2
  <2>2. ASSUME NEW s \in Session, NEW r \in Session, Sending(s)', Sending(r)', s # r
        PROVE  Sent(s)'.call # Sent(r)'.call
    <3>1. CASE s # o /\ r # o
      <4>1. Sending(s) /\ Sending(r) /\ Sent(s)' = Sent(s) /\ Sent(r)' = Sent(r)
        BY <1>12, <2>2, <3>1 DEF Sending, Sent
      <4> QED BY <2>2, <4>1 DEF RpcInv, RequestsFit
    <3>2. CASE s = o \/ r = o
      BY <1>1, <1>2, <1>5, <1>7, <2>1, <2>2, <3>2
    <3> QED BY <3>1, <3>2
  <2> QED BY <2>1, <2>2 DEF RequestsFit
<1>14. ProgressFits'
  <2>1. ~Logged(calls)'
    BY <1>1 DEF RpcInv, ProgressFits, Logged
  <2>2. net'[o].up = up /\ net'[o].peer = net[o].peer
    BY <1>6 DEF NetAt
  <2> QED BY <1>1, <1>4, <1>5, <1>7, <1>8, <2>1, <2>2 DEF ProgressFits, total
<1>15. AnswersFit'
  <2>1. \A a \in Frame : Arrived(a)' => Arrived(a)
    BY <1>1, <1>5, <1>6 DEF Arrived, NetAt, o
  <2> QED BY <1>1, <1>5, <2>1, AnswersKeep DEF RpcInv
<1>16. StreamFits'
  <2> SUFFICES ASSUME honest PROVE StreamFits'
    BY <1>1 DEF StreamFits
  <2>1. net'[o].down = <<>> /\ rpc'.got = <<>>
    BY <1>1, <1>5, <1>6, SessionAssumption DEF RpcInv, StreamFits, NetAt, o
  <2>2. PICK a : a \in ProperAnswers(Request)
    BY DEF ProperAnswers, AnswerStatus
  <2>3. a.len \in Nat
    BY <1>2, <2>2, ProperIs DEF Frame
  <2>4. Reading(a)'
    BY <1>4, <1>5, <1>7, <2>1, <2>3, FramesAssumption DEF Reading, Prefix
  <2>5. a \in ProperAnswers(Request)'
    BY <1>5, <2>2 DEF ProperAnswers
  <2> QED BY <1>1, <1>4, <1>5, <1>7, <2>1, <2>4, <2>5 DEF RpcInv, StreamFits
<1> QED BY <1>9, <1>10, <1>11, <1>13, <1>14, <1>15, <1>16 DEF RpcInv

(* One more unit of the frame a is read.                                   *)
LEMMA ReadOne ==
  ASSUME NEW a, NEW got \in Seq(Unit), NEW down \in Seq(Unit), down # <<>>,
         Prefix(a, got, down)
  PROVE  /\ Prefix(a, Append(got, Head(down)), Tail(down))
         /\ Len(Append(got, Head(down))) + Len(Tail(down)) = Len(got) + Len(down)
<1> DEFINE more == Append(got, Head(down))
           rest == Tail(down)
<1>1. /\ \A i \in DOMAIN got : got[i] = <<a, i>>
      /\ \A i \in DOMAIN down : down[i] = <<a, Len(got) + i>>
  BY DEF Prefix
<1>2. more = Append(got, Head(down)) /\ rest = Tail(down)
  OBVIOUS
<1> HIDE DEF more, rest
<1>3. Len(got) \in Nat /\ Len(down) \in Nat /\ Len(down) > 0
  OBVIOUS
<1>4. Len(more) = Len(got) + 1 /\ Len(rest) = Len(down) - 1
  BY <1>3, <1>2
<1>5. Len(more) + Len(rest) = Len(got) + Len(down)
  BY <1>3, <1>4
<1>6. \A i \in DOMAIN more : more[i] = <<a, i>>
  <2> SUFFICES ASSUME NEW i \in DOMAIN more PROVE more[i] = <<a, i>>
    OBVIOUS
  <2>1. i \in 1 .. Len(got) + 1
    BY <1>4, <1>2
  <2>2. CASE i = Len(got) + 1
    <3>1. 1 \in DOMAIN down /\ down[1] = <<a, Len(got) + 1>>
      BY <1>3, <1>1
    <3>2. more[i] = down[1]
      BY <1>3, <1>2, <2>2
    <3> QED BY <2>2, <3>1, <3>2
  <2>3. CASE i # Len(got) + 1
    <3>1. i \in DOMAIN got /\ more[i] = got[i]
      BY <1>3, <1>2, <2>1, <2>3
    <3> QED BY <1>1, <3>1
  <2> QED BY <2>2, <2>3
<1>7. \A i \in DOMAIN rest : rest[i] = <<a, Len(more) + i>>
  <2> SUFFICES ASSUME NEW i \in DOMAIN rest PROVE rest[i] = <<a, Len(more) + i>>
    OBVIOUS
  <2>1. i + 1 \in DOMAIN down /\ rest[i] = down[i + 1] /\ i \in Int
    BY <1>3, <1>4, <1>2
  <2>2. Len(got) + (i + 1) = Len(more) + i
    BY <1>3, <1>4, <2>1
  <2>3. down[i + 1] = <<a, Len(got) + (i + 1)>>
    BY <1>1, <2>1
  <2> QED BY <2>1, <2>2, <2>3
<1> QED BY <1>5, <1>6, <1>7 DEF Prefix, more, rest

(* ReadSome.                                                               *)
LEMMA ReadKeeps ==
  ASSUME RpcInv, ReadSome
  PROVE  RpcInv'
<1> DEFINE o == connection
           got == Append(rpc.got, Head(net[o].down))
           phase == IF Len(got) < HeaderUnits THEN "header"
                    ELSE IF Len(got) = HeaderUnits /\ ~DecodesHeader(got) THEN "malformed"
                    ELSE IF Len(got) < HeaderUnits + got[1][1].len THEN "payload"
                    ELSE "check"
           down == Tail(net[o].down)
<1>1. /\ RpcType /\ rpc.phase \in {"header", "payload"} /\ ~RpcIdle /\ o \in Session
      /\ RecvUnit(o) /\ rpc' = [rpc EXCEPT !.got = got, !.phase = phase]
      /\ UNCHANGED <<connection, nextId, calls, results, log, honest>>
  BY DEF RpcInv, ConnectionFits, RpcType, RpcIdle, ReadSome
<1>2. /\ rpc.got \in Seq(Unit) /\ net[o].down \in Seq(Unit) /\ net[o].down # <<>>
      /\ NetAt(o, net[o].client, net[o].peer, net[o].up, down)
  BY <1>1, RecvUnitIs DEF RpcType, SessionType
<1>3. phase \in {"header", "malformed", "payload", "check"}
  OBVIOUS
<1>4. /\ got \in Seq(Unit) /\ got # <<>> /\ Len(got) = Len(rpc.got) + 1
      /\ \A i \in DOMAIN rpc.got : got[i] = rpc.got[i]
      /\ got[Len(rpc.got) + 1] = net[o].down[1]
      /\ Len(down) = Len(net[o].down) - 1
      /\ \A i \in DOMAIN down : down[i] = net[o].down[i + 1] /\ i + 1 \in DOMAIN net[o].down
  BY <1>2
<1>5. /\ phase = "header" => Len(got) < HeaderUnits
      /\ phase = "malformed" => Len(got) = HeaderUnits /\ ~DecodesHeader(got)
      /\ phase = "payload" => Len(got) >= HeaderUnits
      /\ phase = "check" =>
           Len(got) >= HeaderUnits /\ ~(Len(got) < HeaderUnits + got[1][1].len)
  <2> HIDE DEF got
  <2>1. Len(got) \in Int /\ HeaderUnits \in Int
    BY <1>4, FramesAssumption
  <2> QED BY <2>1
<1> HIDE DEF o, got, phase, down
<1>6. /\ rpc'.phase = phase /\ rpc'.request = rpc.request /\ rpc'.sent = rpc.sent
      /\ rpc'.got = got /\ ~RpcIdle' /\ Request' = Request
      /\ rpc' \in [phase : RpcPhase, request : Seq(Frame), sent : Nat, got : Seq(Unit)]
  BY <1>1, <1>3, <1>4 DEF RpcType, RpcPhase, RpcIdle, Request
<1>7. /\ net'[o].up = net[o].up /\ net'[o].down = down /\ net'[o].client = net[o].client
      /\ net' \in [Session -> SessionType]
      /\ \A s \in Session \ {o} : net'[s] = net[s]
  BY <1>2 DEF NetAt
<1>8. RpcType'
  BY <1>1, <1>6, <1>7 DEF RpcType
<1>9. CallsFit'
  BY <1>1, <1>6 DEF RpcInv, CallsFit, Age
<1>10. ConnectionFits'
  <2>1. \A s \in Session : net'[s].client = net[s].client
    BY <1>7
  <2>2. \A s \in Session : net[s].client = "new" => s # o
    BY <1>1 DEF RpcInv, ConnectionFits, o
  <2>3. rpc.phase # "connect" /\ rpc'.phase # "connect"
    BY <1>1, <1>3, <1>6
  <2> QED BY <1>1, <1>6, <1>7, <2>1, <2>2, <2>3 DEF RpcInv, ConnectionFits
<1>11. RequestsFit'
  <2>1. RequestsFit /\ calls \in Nat
    BY DEF RpcInv, RpcType
  <2>2. \A s \in Session : net'[s].up = net[s].up
    BY <1>7
  <2>3. \A s \in Session : Sending(s) =>
          IF s = connection' THEN ~RpcIdle' /\ Sent(s) = Request'
          ELSE RpcIdle' \/ Sent(s).call # calls'
    BY <1>1, <1>6, <2>1 DEF RequestsFit
  <2> QED BY <1>1, <2>1, <2>2, <2>3, RequestsKeep
<1>12. ProgressFits'
  BY <1>3, <1>4, <1>6 DEF ProgressFits
<1>13. AnswersFit'
  <2>1. ASSUME NEW a \in Frame, Arrived(a)' PROVE Arrived(a)
    <3>1. CASE \E i \in DOMAIN got : got[i][1] = a
      <4>1. PICK i \in DOMAIN got : got[i][1] = a
        BY <3>1
      <4>2. CASE i = Len(rpc.got) + 1
        <5>1. net[o].down[1][1] = a /\ 1 \in DOMAIN net[o].down
          BY <1>2, <1>4, <4>1, <4>2
        <5> QED BY <1>1, <5>1, SessionAssumption DEF Arrived, o
      <4>3. CASE i # Len(rpc.got) + 1
        <5>1. i \in DOMAIN rpc.got
          BY <1>2, <1>4, <4>1, <4>3
        <5> QED BY <1>4, <4>1, <5>1 DEF Arrived
      <4> QED BY <4>2, <4>3
    <3>2. CASE \E i \in DOMAIN down : down[i][1] = a
      BY <1>1, <1>4, <3>2, SessionAssumption DEF Arrived, o
    <3> QED BY <1>1, <1>6, <1>7, <2>1, <3>1, <3>2 DEF Arrived, o
  <2> QED BY <1>1, <1>6, <2>1, AnswersKeep DEF RpcInv
<1>14. StreamFits'
  <2> SUFFICES ASSUME honest PROVE StreamFits'
    BY <1>1 DEF StreamFits
  <2>1. PICK a \in ProperAnswers(Request) : Reading(a)
    BY <1>1 DEF RpcInv, StreamFits
  <2>2. /\ a \in Frame /\ a.len \in Nat /\ a.intact /\ a.len <= 1 /\ ValidatePayloadLength(a)
    BY <1>1, <2>1, RequestIs, ProperIs DEF Frame
  <2>3. /\ Prefix(a, rpc.got, net[o].down)
        /\ Len(rpc.got) + Len(net[o].down) <= HeaderUnits + a.len
        /\ rpc.phase = "header" => Len(rpc.got) < HeaderUnits
        /\ rpc.phase = "payload" => Len(rpc.got) >= HeaderUnits
    BY <2>1 DEF Reading, o
  <2>4. Prefix(a, got, down) /\ Len(got) + Len(down) = Len(rpc.got) + Len(net[o].down)
    BY <1>2, <2>3, ReadOne DEF got, down
  <2>5. \A i \in DOMAIN got : got[i] = <<a, i>>
    BY <2>4 DEF Prefix
  <2>6. Len(got) + Len(down) <= HeaderUnits + a.len
    BY <2>3, <2>4
  <2>7. got[1][1] = a /\ Len(got) \in Nat /\ Len(down) \in Nat
    BY <1>2, <1>4, <2>5
  <2>8. phase = "check" => Len(got) = HeaderUnits + a.len
    BY <1>5, <2>2, <2>6, <2>7, FramesAssumption
  <2>9. Reading(a)'
    BY <1>1, <1>5, <1>6, <1>7, <2>4, <2>6, <2>8 DEF Reading, Prefix, o
  <2>10. a \in ProperAnswers(Request)'
    BY <1>6, <2>1 DEF ProperAnswers
  <2>11. phase = "malformed" => MaxPayload = 0
    <3>1. Aligned(got)
      BY <2>5, <2>7 DEF Aligned
    <3>2. MaxPayload # 0 => ValidateHeaderFields(a)
      BY <2>2, FramesAssumption DEF ValidateHeaderFields, ValidateFrameSize
    <3> QED BY <1>5, <2>7, <3>1, <3>2 DEF DecodesHeader
  <2>12. Logged(calls)'
    BY <1>1, <1>2, SessionAssumption DEF RpcInv, StreamFits, Logged, o
  <2> QED BY <1>1, <1>3, <1>6, <2>9, <2>10, <2>11, <2>12 DEF RpcInv, StreamFits
<1> QED BY <1>8, <1>9, <1>10, <1>11, <1>12, <1>13, <1>14 DEF RpcInv

-----------------------------------------------------------------------------
(* The answer is checked.                                                  *)

(* An answer that carries the id of the request is the answer to it, and   *)
(* nothing is left on the connection of what the two said.                 *)
LEMMA MatchIs ==
  ASSUME RpcInv, rpc.phase = "check", Matches
  PROVE  /\ connection \in Session /\ net[connection].up = <<>>
         /\ Response.status \in AnswerStatus /\ AnsweredWith(calls, Response.status)
<1>1. ~RpcIdle /\ rpc.got \in Seq(Unit) /\ rpc.got # <<>> /\ connection \in Session
  BY DEF RpcInv, RpcIdle, RpcType, ProgressFits, ConnectionFits
<1>2. 1 \in DOMAIN rpc.got /\ Response \in Frame
  BY <1>1 DEF Response, Unit
<1>3. AnswerFits(Response)
  BY <1>2 DEF RpcInv, AnswersFit, Arrived, Response
<1>4. Response.call = calls /\ AnsweredWith(calls, Response.status)
  BY <1>1, <1>3 DEF AnswerFits, Matches
<1>5. Logged(calls)
  BY <1>4 DEF AnsweredWith, Logged
<1>6. ~Sending(connection)
  BY <1>1, <1>5, RequestIs DEF RpcInv, RequestsFit
<1> QED BY <1>1, <1>2, <1>4, <1>6 DEF Sending, Frame

(* The answer of a peer that answers each request once is accepted, and it *)
(* was all that was to be read.                                            *)
LEMMA HonestAnswerIs ==
  ASSUME RpcInv, rpc.phase = "check", honest
  PROVE  Matches /\ PayloadDecodes /\ net[connection].down = <<>>
<1>1. /\ ~RpcIdle /\ rpc.got \in Seq(Unit) /\ connection \in Session
      /\ net[connection].down \in Seq(Unit)
  BY DEF RpcInv, RpcIdle, RpcType, SessionType, ConnectionFits
<1>2. PICK a \in ProperAnswers(Request) : Reading(a)
  BY DEF RpcInv, StreamFits
<1>3. /\ a \in Frame /\ a.kind = "response" /\ a.opcode = Request.opcode
      /\ a.id = Request.id /\ a.decodes /\ a.len \in Nat /\ Request.id \in 1 .. MaxId
  BY <1>1, <1>2, RequestIs, ProperIs DEF Frame
<1>4. /\ \A i \in DOMAIN rpc.got : rpc.got[i] = <<a, i>>
      /\ Len(rpc.got) = HeaderUnits + a.len
      /\ Len(rpc.got) + Len(net[connection].down) <= HeaderUnits + a.len
  BY <1>2 DEF Reading, Prefix
<1>5. 1 \in DOMAIN rpc.got /\ Len(net[connection].down) = 0
  <2> DEFINE m == Len(rpc.got)
             n == Len(net[connection].down)
  <2>1. m \in Nat /\ n \in Nat /\ DOMAIN rpc.got = 1 .. m
    BY <1>1
  <2>2. m = HeaderUnits + a.len /\ m + n <= HeaderUnits + a.len
    BY <1>4
  <2> HIDE DEF m, n
  <2>3. m > 0 /\ n = 0
    BY <1>3, <2>1, <2>2, FramesAssumption
  <2> QED BY <2>1, <2>3 DEF n
<1>6. Response = a
  BY <1>4, <1>5 DEF Response
<1>7. Aligned(rpc.got)
  BY <1>4, <1>5 DEF Aligned
<1> QED BY <1>1, <1>3, <1>5, <1>6, <1>7 DEF Matches, PayloadDecodes

(* The steps that end a call.                                              *)
LEMMA EndsKeep ==
  ASSUME RpcInv,
         \/ ConnectFails \/ IoFails \/ HeaderMalformed \/ PeerEof
         \/ ResponseRefused \/ ResponseNoMemory \/ ResponseAccepted
  PROVE  RpcInv'
<1> DEFINE Errors == {"NetworkError", "OutOfCapacity"}
<1>1. ~RpcIdle /\ UNCHANGED <<nextId, calls, log, honest>>
  BY DEF RpcIdle, ConnectFails, IoFails, HeaderMalformed, PeerEof, ResponseRefused,
         ResponseNoMemory, ResponseAccepted
<1>2. /\ Errors \subseteq Result \ {"pending", "Corruption"}
      /\ AnswerStatus \subseteq Result \ {"pending", "Corruption"}
      /\ "Corruption" \in Result \ {"pending"}
  BY DEF Result, AnswerStatus
<1>3. IoErrors \cup {"OutOfCapacity"} = Errors
  BY DEF IoErrors
<1> HIDE DEF Errors
<1>4. CASE ConnectFails
  <2>1. PICK e \in Errors : ReturnAndKeep(e)
    BY <1>3, <1>4 DEF ConnectFails
  <2>2. connection = NoSession
    BY <1>1, <1>4 DEF ConnectFails, RpcInv, ConnectionFits
  <2> QED BY <1>1, <1>2, <2>1, <2>2, KeepKeeps
<1>5. CASE IoFails
  <2>1. PICK e \in Errors : ReturnAndDrop(e)
    BY <1>3, <1>5 DEF IoFails
  <2>2. rpc.phase # "connect"
    BY <1>5 DEF IoFails
  <2> QED BY <1>1, <1>2, <2>1, <2>2, DropKeeps
<1>6. CASE HeaderMalformed
  <2>1. rpc.phase = "malformed" /\ ReturnAndDrop("Corruption")
    BY <1>6 DEF HeaderMalformed
  <2>2. honest => MaxPayload = 0
    BY <2>1 DEF RpcInv, StreamFits
  <2> QED BY <1>1, <1>2, <2>1, <2>2, DropKeeps
<1>7. CASE PeerEof
  <2>1. rpc.phase # "connect" /\ ReturnAndDrop("NetworkError") /\ "NetworkError" \in Errors
    BY <1>7 DEF PeerEof, Errors
  <2> QED BY <1>1, <1>2, <2>1, DropKeeps
<1>8. CASE ResponseRefused
  <2>1. /\ rpc.phase = "check" /\ ~(Matches /\ PayloadDecodes)
        /\ ReturnAndDrop("Corruption")
    BY <1>8 DEF ResponseRefused
  <2>2. ~honest
    BY <2>1, HonestAnswerIs
  <2> QED BY <1>1, <1>2, <2>1, <2>2, DropKeeps
<1>9. "OutOfCapacity" \in Errors
  BY DEF Errors
<1>10. CASE ResponseNoMemory
  <2>1. CASE ReturnAndDrop("OutOfCapacity")
    BY <1>1, <1>2, <1>9, <1>10, <2>1, DropKeeps DEF ResponseNoMemory
  <2>2. CASE Matches /\ ReturnAndKeep("OutOfCapacity")
    <3>1. rpc.phase = "check"
      BY <1>10 DEF ResponseNoMemory
    <3>2. net[connection].up = <<>> /\ (honest => net[connection].down = <<>>)
      BY <2>2, <3>1, MatchIs, HonestAnswerIs
    <3> QED BY <1>1, <1>2, <1>9, <2>2, <3>2, KeepKeeps
  <2> QED BY <1>10, <2>1, <2>2 DEF ResponseNoMemory
<1>11. CASE ResponseAccepted
  <2>1. rpc.phase = "check" /\ Matches /\ ReturnAndKeep(Response.status)
    BY <1>11 DEF ResponseAccepted
  <2>2. /\ net[connection].up = <<>> /\ (honest => net[connection].down = <<>>)
        /\ Response.status \in AnswerStatus
    BY <2>1, MatchIs, HonestAnswerIs
  <2>3. PICK status \in AnswerStatus : ReturnAndKeep(status)
    BY <2>1, <2>2
  <2> QED BY <1>1, <1>2, <2>2, <2>3, KeepKeeps
<1> QED BY <1>4, <1>5, <1>6, <1>7, <1>8, <1>10, <1>11

-----------------------------------------------------------------------------
(* The peer.                                                               *)

(* What PeerAnswers does: the request it read is gone, is now executed,    *)
(* and its answer is on the way if the client still listens.               *)
LEMMA AnswerIs ==
  ASSUME RpcInv, NEW s \in Session, PeerAnswers(s)
  PROVE  /\ Sending(s) /\ Sent(s) \in Frame
         /\ HeaderUnits + Sent(s).len = Len(net[s].up)
         /\ \E a, units :
              /\ AnswerTo(Sent(s), a) /\ OneFrame(units, a)
              /\ log' = Append(log, <<Sent(s).call, a.status>>)
              /\ NetAt(s, net[s].client, net[s].peer, <<>>,
                       IF net[s].client = "open" THEN net[s].down \o units ELSE net[s].down)
              /\ honest' => honest /\ a \in ProperAnswers(Sent(s)) /\ units = Units(a)
         /\ honest' \in BOOLEAN
<1> DEFINE f == net[s].up[1][1]
           rest == SubSeq(net[s].up, HeaderUnits + f.len + 1, Len(net[s].up))
           proper == {Units(a) : a \in ProperAnswers(f)}
<1>1. RpcType /\ net[s].up \in Seq(Unit) /\ Sending(s) /\ f = Sent(s)
  BY DEF RpcInv, RpcType, SessionType, PeerAnswers, WholeRequest, Sending, Sent
<1>2. f \in Frame /\ f.len \in Nat
  <2>1. net[s].up[1] \in Unit
    BY <1>1 DEF Sending
  <2>2. f \in Frame
    BY <2>1 DEF Unit
  <2> QED BY <2>2 DEF Frame
<1>3. Len(net[s].up) >= HeaderUnits + f.len /\ Len(net[s].up) <= HeaderUnits + f.len
  BY <1>1 DEF PeerAnswers, WholeRequest, RpcInv, RequestsFit
<1>4. Len(net[s].up) \in Nat /\ Len(net[s].up) = HeaderUnits + f.len
  <2> DEFINE n == Len(net[s].up)
  <2>1. n \in Nat /\ n >= HeaderUnits + f.len /\ n <= HeaderUnits + f.len
    BY <1>1, <1>3
  <2> HIDE DEF n, f
  <2>2. n = HeaderUnits + f.len
    BY <1>2, <2>1, FramesAssumption
  <2> QED BY <2>1, <2>2 DEF n
<1>5. rest = <<>>
  BY <1>1, <1>4
<1>6. PICK units \in proper \cup (IF f.call \in UnrulyCalls THEN ImproperAnswers(f) ELSE {}) :
        /\ PeerSends(s, units, rest)
        /\ log' = Append(log, <<f.call, units[1][1].status>>)
        /\ honest' = (honest /\ units \in proper)
  BY DEF PeerAnswers
<1>7. PICK a : /\ AnswerTo(f, a) /\ OneFrame(units, a)
               /\ units \in proper => a \in ProperAnswers(f) /\ units = Units(a)
  <2>1. CASE units \in proper
    <3>1. PICK b \in ProperAnswers(f) : units = Units(b)
      BY <2>1
    <3>2. b \in Frame /\ b.call = f.call /\ b.id = f.id
      BY <1>2, ProperIs
    <3> QED BY <3>1, <3>2, UnitsOneFrame DEF AnswerTo
  <2>2. CASE units \notin proper
    <3>1. units \in ImproperAnswers(f)
      BY <1>6, <2>2
    <3> QED BY <1>2, <2>2, <3>1, ImproperAnswerIs
  <2> QED BY <2>1, <2>2
<1>8. units[1][1] = a /\ units \in Seq(Unit)
  BY <1>7 DEF OneFrame
<1> HIDE DEF f, rest, proper
<1>9. PeerSends(s, units, <<>>)
  BY <1>5, <1>6
<1>10. NetAt(s, net[s].client, net[s].peer, <<>>,
             IF net[s].client = "open" THEN net[s].down \o units ELSE net[s].down)
  <2>1. <<>> \in Seq(Unit)
    OBVIOUS
  <2> QED BY <1>1, <1>8, <1>9, <2>1, PeerSendsIs
<1>11. honest' \in BOOLEAN /\ (honest' => honest /\ units \in proper)
  BY <1>6, Zenon
<1> QED BY <1>1, <1>2, <1>4, <1>6, <1>7, <1>8, <1>10, <1>11

(* PeerAnswers.                                                            *)
LEMMA AnswersKeepInv ==
  ASSUME RpcInv, NEW s \in Session, PeerAnswers(s)
  PROVE  RpcInv'
<1> DEFINE o == connection
           f == Sent(s)
<1>1. /\ RpcType /\ Sending(s) /\ f \in Frame /\ honest' \in BOOLEAN
      /\ HeaderUnits + f.len = Len(net[s].up)
      /\ UNCHANGED <<connection, nextId, rpc, calls, results>>
  BY AnswerIs DEF RpcInv, PeerAnswers
<1>2. PICK a, units :
        /\ AnswerTo(f, a) /\ OneFrame(units, a)
        /\ log' = Append(log, <<f.call, a.status>>)
        /\ NetAt(s, net[s].client, net[s].peer, <<>>,
                 IF net[s].client = "open" THEN net[s].down \o units ELSE net[s].down)
        /\ honest' => honest /\ a \in ProperAnswers(f) /\ units = Units(a)
  BY AnswerIs
<1>3. /\ f.call \in 1 .. calls /\ ~Logged(f.call)
      /\ s = o => ~RpcIdle /\ f = Request /\ f.call = calls
      /\ s # o => RpcIdle \/ f.call # calls
  BY <1>1, RequestIs DEF RpcInv, RequestsFit
<1>4. s = o => rpc.phase # "write" /\ rpc.phase # "connect"
  <2> SUFFICES ASSUME s = o, rpc.phase = "write" \/ rpc.phase = "connect" PROVE FALSE
    OBVIOUS
  <2>1. rpc.phase = "write"
    BY <1>1, <1>3, SessionAssumption DEF RpcInv, ConnectionFits
  <2>2. rpc.sent \in Nat /\ f.len \in Nat /\ f = Request
    BY <1>1, <1>3 DEF RpcType, Frame
  <2>3. /\ rpc.sent < HeaderUnits + Request.len
        /\ Len(net[s].up) = IF net[s].peer = "open" THEN rpc.sent ELSE 0
    BY <2>1 DEF RpcInv, ProgressFits
  <2> DEFINE x == Len(net[s].up)
             y == rpc.sent
             z == Request.len
  <2>4. /\ HeaderUnits + z = x /\ x = (IF net[s].peer = "open" THEN y ELSE 0)
        /\ y \in Nat /\ z \in Nat /\ y < HeaderUnits + z
    BY <1>1, <2>2, <2>3
  <2> HIDE DEF x, y, z
  <2> QED BY <2>4, FramesAssumption
<1> HIDE DEF o, f
<1>5. /\ net' \in [Session -> SessionType] /\ net'[s].up = <<>>
      /\ net'[s].client = net[s].client /\ net'[s].peer = net[s].peer
      /\ net'[s].down = IF net[s].client = "open" THEN net[s].down \o units
                        ELSE net[s].down
      /\ \A r \in Session \ {s} : net'[r] = net[r]
  BY <1>2 DEF NetAt
<1>6. /\ log \in Seq(Nat \X AnswerStatus) /\ a \in Frame /\ a.status \in AnswerStatus
      /\ f.call \in Nat /\ a.call = f.call /\ a.id \in {0, f.id}
  BY <1>1, <1>2 DEF RpcType, AnswerTo, Frame
<1>7. /\ log' \in Seq(Nat \X AnswerStatus)
      /\ Len(log) + 1 \in DOMAIN log' /\ log'[Len(log) + 1] = <<f.call, a.status>>
      /\ \A i \in DOMAIN log : i \in DOMAIN log' /\ log'[i] = log[i]
      /\ \A i \in DOMAIN log' : i \in DOMAIN log \/ log'[i] = <<f.call, a.status>>
  <2> DEFINE e == <<f.call, a.status>>
             S == Nat \X AnswerStatus
  <2>1. log \in Seq(S) /\ e \in S /\ log' = Append(log, e)
    BY <1>2, <1>6
  <2> HIDE DEF e, S
  <2>2. /\ log' \in Seq(S) /\ Len(log) \in Nat /\ DOMAIN log = 1 .. Len(log)
        /\ DOMAIN log' = 1 .. Len(log) + 1
    BY <2>1
  <2>3. log'[Len(log) + 1] = e /\ \A i \in 1 .. Len(log) : log'[i] = log[i]
    BY <2>1
  <2> QED BY <2>2, <2>3 DEF e, S
<1>8. /\ \A k : Logged(k)' <=> (Logged(k) \/ k = f.call)
      /\ \A k, status : AnsweredWith(k, status) => AnsweredWith(k, status)'
      /\ AnsweredWith(a.call, a.status)'
  <2>1. \A k : Logged(k)' <=> (Logged(k) \/ k = f.call)
    BY <1>7 DEF Logged
  <2>2. \A k, status : AnsweredWith(k, status) => AnsweredWith(k, status)'
    BY <1>7 DEF AnsweredWith
  <2>3. AnsweredWith(a.call, a.status)'
    BY <1>6, <1>7 DEF AnsweredWith
  <2> QED BY <2>1, <2>2, <2>3
<1>9. RpcType'
  BY <1>1, <1>5, <1>7 DEF RpcType
<1>10. CallsFit'
  <2>1. \A i \in DOMAIN log' : log'[i][1] \in 1 .. calls'
    <3> SUFFICES ASSUME NEW i \in DOMAIN log' PROVE log'[i][1] \in 1 .. calls
      BY <1>1
    <3>1. CASE i \in DOMAIN log
      <4>1. log[i][1] \in 1 .. calls
        BY <3>1 DEF RpcInv, CallsFit
      <4> QED BY <1>7, <3>1, <4>1
    <3>2. CASE log'[i] = <<f.call, a.status>>
      BY <1>3, <3>2
    <3> QED BY <1>7, <3>1, <3>2
  <2> QED BY <1>1, <2>1 DEF RpcInv, CallsFit, RpcIdle, Request, Age
<1>11. ConnectionFits'
  <2>1. net[s].client # "new"
    BY <1>1 DEF RpcInv, ConnectionFits, EmptySession, Sending
  <2>2. \A r \in Session : net'[r].client = net[r].client
    BY <1>5
  <2> QED BY <1>1, <1>5, <2>1, <2>2 DEF RpcInv, ConnectionFits, RpcIdle
<1>12. RequestsFit'
  <2>1. \A r \in Session : Sending(r)' => r # s /\ Sending(r) /\ Sent(r)' = Sent(r)
                                            /\ net'[r].up = net[r].up
    BY <1>5 DEF Sending, Sent
  <2>2. ASSUME NEW r \in Session, Sending(r)'
        PROVE  /\ \A i \in DOMAIN net'[r].up : net'[r].up[i] = <<Sent(r)', i>>
               /\ Len(net'[r].up) <= HeaderUnits + Sent(r)'.len
               /\ Sent(r)'.call \in 1 .. calls' /\ ~Logged(Sent(r).call)'
               /\ IF r = connection' THEN ~RpcIdle' /\ Sent(r)' = Request'
                  ELSE RpcIdle' \/ Sent(r)'.call # calls'
    <3>1. r # s /\ Sending(r) /\ Sent(r)' = Sent(r) /\ net'[r].up = net[r].up
      BY <2>1, <2>2
    <3>2. /\ \A i \in DOMAIN net[r].up : net[r].up[i] = <<Sent(r), i>>
          /\ Len(net[r].up) <= HeaderUnits + Sent(r).len
          /\ Sent(r).call \in 1 .. calls /\ ~Logged(Sent(r).call)
          /\ IF r = connection THEN ~RpcIdle /\ Sent(r) = Request
             ELSE RpcIdle \/ Sent(r).call # calls
          /\ Sent(r).call # f.call
      BY <1>1, <3>1 DEF RpcInv, RequestsFit, f
    <3>3. ~Logged(Sent(r).call)'
      <4>1. PICK k : k = Sent(r).call
        OBVIOUS
      <4>2. ~Logged(k)'
        BY <1>8, <3>2, <4>1
      <4> QED BY <3>1, <4>1, <4>2 DEF Logged
    <3> QED BY <1>1, <3>1, <3>2, <3>3 DEF RpcIdle, Request
  <2>3. ASSUME NEW r \in Session, NEW q \in Session, Sending(r)', Sending(q)', r # q
        PROVE  Sent(r)'.call # Sent(q)'.call
    BY <2>1, <2>3 DEF RpcInv, RequestsFit
  <2> QED BY <2>2, <2>3 DEF RequestsFit
<1>13. ProgressFits'
  <2>1. ASSUME rpc.phase \in {"connect", "write"}
        PROVE  ~Logged(calls)' /\ s # o
    <3>1. ~Logged(calls) /\ s # o /\ f.call # calls
      BY <1>3, <1>4, <2>1 DEF RpcInv, ProgressFits, RpcIdle
    <3> QED BY <1>1, <1>7, <3>1 DEF Logged
  <2>2. ASSUME rpc.phase = "write" PROVE net'[o] = net[o]
    <3>1. o \in Session
      BY <1>1, <2>2 DEF RpcInv, ConnectionFits, RpcType, RpcIdle, o
    <3> QED BY <1>5, <2>1, <2>2, <3>1
  <2> QED BY <1>1, <2>1, <2>2 DEF RpcInv, ProgressFits, Request, o
<1>14. AnswersFit'
  <2> SUFFICES ASSUME NEW b \in Frame, Arrived(b)' PROVE AnswerFits(b)'
    BY DEF AnswersFit
  <2>1. Arrived(b) \/ (s = o /\ b = a)
    <3>1. CASE \E i \in DOMAIN rpc'.got : rpc'.got[i][1] = b
      BY <1>1, <3>1 DEF Arrived
    <3>2. CASE /\ connection' # NoSession
               /\ \E i \in DOMAIN net'[connection'].down : net'[connection'].down[i][1] = b
      <4>1. o # NoSession /\ o \in Session /\ connection' = o
        BY <1>1, <3>2 DEF RpcType, o
      <4>2. CASE s # o
        BY <1>1, <1>5, <3>2, <4>1, <4>2 DEF Arrived, o
      <4>3. CASE s = o /\ net[s].client # "open"
        BY <1>1, <1>5, <3>2, <4>1, <4>3 DEF Arrived, o
      <4>4. CASE s = o /\ net[s].client = "open"
        <5> DEFINE d == net[s].down
        <5>1. d \in Seq(Unit) /\ units \in Seq(Unit) /\ net'[s].down = d \o units
          BY <1>1, <1>2, <1>5, <4>4 DEF RpcType, SessionType, OneFrame
        <5>2. PICK i \in DOMAIN (d \o units) : (d \o units)[i][1] = b
          BY <3>2, <4>1, <4>4, <5>1
        <5> HIDE DEF d
        <5>3. CASE i \in DOMAIN d
          <6>1. d[i][1] = b
            BY <5>1, <5>2, <5>3
          <6> QED BY <4>1, <4>4, <5>3, <6>1 DEF Arrived, o, d
        <5>4. CASE i \notin DOMAIN d
          <6>1. i - Len(d) \in DOMAIN units /\ (d \o units)[i] = units[i - Len(d)]
            BY <5>1, <5>2, <5>4
          <6> QED BY <1>2, <4>4, <5>2, <6>1 DEF OneFrame
        <5> QED BY <5>3, <5>4
      <4> QED BY <4>2, <4>3, <4>4
    <3> QED BY <3>1, <3>2 DEF Arrived
  <2>2. CASE Arrived(b)
    <3>1. AnswerFits(b)
      BY <2>2 DEF RpcInv, AnswersFit
    <3>2. AnsweredWith(b.call, b.status)'
      BY <1>8, <3>1 DEF AnswerFits
    <3> QED BY <1>1, <3>1, <3>2 DEF AnswerFits, Age, RpcIdle, Request
  <2>3. CASE s = o /\ b = a
    <3>1. /\ ~RpcIdle /\ f = Request /\ a.call = calls /\ calls \in 1 .. calls /\ calls \in Int
      BY <1>1, <1>3, <1>6, <2>3 DEF RpcType
    <3>2. Request.id \in 1 .. MaxId /\ Age(Request.id) = 1
      BY <3>1 DEF RpcInv, CallsFit
    <3>3. a.id # 0 => a.id \in 1 .. MaxId /\ Age(a.id) <= calls - a.call + 1
      BY <1>6, <3>1, <3>2
    <3>4. Age(a.id)' = Age(a.id)
      BY <1>1 DEF Age
    <3> QED BY <1>1, <1>8, <2>3, <3>1, <3>3, <3>4 DEF AnswerFits, Request
  <2> QED BY <2>1, <2>2, <2>3
<1>15. StreamFits'
  <2> SUFFICES ASSUME honest' PROVE StreamFits'
    BY DEF StreamFits
  <2>1. honest /\ a \in ProperAnswers(f) /\ units = Units(a) /\ StreamFits
    BY <1>2 DEF RpcInv
  <2>2. CASE s # o
    <3>1. o # NoSession => net'[o] = net[o]
      BY <1>1, <1>5, <2>2 DEF RpcType, o
    <3>2. Logged(calls) => Logged(calls)'
      BY <1>1, <1>7 DEF Logged
    <3>3. rpc.phase \in {"header", "payload", "check"} => o # NoSession
      BY DEF RpcInv, ConnectionFits, RpcIdle, o
    <3>4. ASSUME rpc.phase \in {"header", "payload", "check"}
          PROVE  \E b \in ProperAnswers(Request)' : Reading(b)'
      <4>1. PICK b \in ProperAnswers(Request) : Reading(b)
        BY <2>1, <3>4 DEF StreamFits
      <4>2. Reading(b)' /\ b \in ProperAnswers(Request)'
        BY <1>1, <3>1, <3>3, <3>4, <4>1 DEF Reading, Prefix, ProperAnswers, Request, o
      <4> QED BY <4>2
    <3> QED BY <1>1, <2>1, <3>1, <3>2, <3>4 DEF StreamFits, RpcIdle, o
  <2>3. CASE s = o
    <3>1. /\ ~RpcIdle /\ f = Request /\ f.call = calls /\ ~Logged(calls) /\ Logged(calls)'
          /\ o \in Session /\ o # NoSession /\ net[o].client = "open"
      <4>1. ~RpcIdle /\ f = Request /\ f.call = calls /\ ~Logged(calls)
        BY <1>3, <2>3
      <4>2. Logged(calls)'
        <5>1. PICK k : k = calls
          OBVIOUS
        <5>2. Logged(k)'
          BY <1>8, <4>1, <5>1
        <5> QED BY <1>1, <5>1, <5>2 DEF Logged
      <4>3. o \in Session /\ o # NoSession
        BY <2>3, SessionAssumption
      <4>4. net[o].client = "open"
        BY <4>3 DEF RpcInv, ConnectionFits, o
      <4> QED BY <4>1, <4>2, <4>3, <4>4
    <3>2. net[o].down = <<>> /\ rpc.got = <<>>
      BY <2>1, <3>1 DEF StreamFits, o
    <3>3. units \in Seq(Unit) /\ net'[o].down = units
      <4>1. units \in Seq(Unit)
        BY <1>2 DEF OneFrame
      <4>2. net'[o].down = <<>> \o units
        BY <1>5, <2>3, <3>1, <3>2
      <4> QED BY <4>1, <4>2
    <3>4. /\ Len(units) = HeaderUnits + a.len /\ \A i \in DOMAIN units : units[i] = <<a, i>>
          /\ a.len \in Nat
      BY <1>6, <2>1, UnitsIs DEF Frame
    <3>5. rpc.phase # "payload" /\ rpc.phase # "check"
      BY <3>2 DEF RpcInv, ProgressFits
    <3>6. Prefix(a, rpc.got, units)
      <4>1. \A i \in DOMAIN units : 0 + i = i
        BY <3>3
      <4> QED BY <3>2, <3>4, <4>1 DEF Prefix
    <3>7. Reading(a)'
      <4>1. Len(rpc.got) = 0 /\ 0 + Len(units) <= HeaderUnits + a.len /\ 0 < HeaderUnits
        BY <3>2, <3>4, FramesAssumption
      <4> QED BY <1>1, <3>3, <3>5, <3>6, <4>1 DEF Reading, Prefix, o
    <3>8. a \in ProperAnswers(Request)'
      BY <1>1, <2>1, <3>1 DEF ProperAnswers, Request
    <3> QED BY <1>1, <1>4, <2>1, <2>3, <3>1, <3>7, <3>8 DEF StreamFits, RpcIdle
  <2> QED BY <2>2, <2>3
<1> QED BY <1>9, <1>10, <1>11, <1>12, <1>13, <1>14, <1>15 DEF RpcInv

(* PeerHangsUp.                                                            *)
LEMMA HangsUpKeeps ==
  ASSUME RpcInv, NEW s \in Session, PeerHangsUp(s)
  PROVE  RpcInv'
<1> DEFINE o == connection
<1>1. /\ RpcType /\ PeerCloses(s) /\ s = o /\ net[s].client = "open"
      /\ UNCHANGED <<connection, nextId, rpc, calls, results, log, honest>>
  BY DEF RpcInv, ConnectionFits, PeerHangsUp, PeerCloses
<1>2. PICK n \in 0 .. Len(net[s].down) :
        NetAt(s, net[s].client, "closed", <<>>, SubSeq(net[s].down, 1, n))
  BY <1>1, PeerClosesIs
<1> DEFINE d == SubSeq(net[s].down, 1, n)
<1>3. /\ net' \in [Session -> SessionType] /\ net'[s].up = <<>> /\ net'[s].down = d
      /\ net'[s].client = net[s].client /\ net'[s].peer = "closed"
      /\ \A r \in Session \ {s} : net'[r] = net[r]
  BY <1>2 DEF NetAt
<1>4. /\ net[s].down \in Seq(Unit) /\ d \in Seq(Unit) /\ Len(d) = n /\ n <= Len(net[s].down)
      /\ \A i \in DOMAIN d : i \in DOMAIN net[s].down /\ d[i] = net[s].down[i]
  <2>1. net[s].down \in Seq(Unit)
    BY <1>1 DEF RpcType, SessionType
  <2> QED BY <2>1
<1> HIDE DEF o, d
<1>5. RpcType'
  BY <1>1, <1>3 DEF RpcType
<1>6. CallsFit'
  BY <1>1 DEF RpcInv, CallsFit, RpcIdle, Request, Age
<1>7. ConnectionFits'
  <2>1. \A r \in Session : net'[r].client = net[r].client
    BY <1>3
  <2> QED BY <1>1, <1>3, <2>1 DEF RpcInv, ConnectionFits, RpcIdle
<1>8. RequestsFit'
  <2>1. \A r \in Session : Sending(r)' => r # s /\ Sending(r) /\ Sent(r)' = Sent(r)
                                            /\ net'[r].up = net[r].up
    BY <1>3 DEF Sending, Sent
  <2>2. ASSUME NEW r \in Session, Sending(r)'
        PROVE  /\ \A i \in DOMAIN net'[r].up : net'[r].up[i] = <<Sent(r)', i>>
               /\ Len(net'[r].up) <= HeaderUnits + Sent(r)'.len
               /\ Sent(r)'.call \in 1 .. calls' /\ ~Logged(Sent(r).call)'
               /\ IF r = connection' THEN ~RpcIdle' /\ Sent(r)' = Request'
                  ELSE RpcIdle' \/ Sent(r)'.call # calls'
    <3>1. r # s /\ Sending(r) /\ Sent(r)' = Sent(r) /\ net'[r].up = net[r].up
      BY <2>1, <2>2
    <3>2. /\ \A i \in DOMAIN net[r].up : net[r].up[i] = <<Sent(r), i>>
          /\ Len(net[r].up) <= HeaderUnits + Sent(r).len
          /\ Sent(r).call \in 1 .. calls /\ ~Logged(Sent(r).call)
          /\ IF r = connection THEN ~RpcIdle /\ Sent(r) = Request
             ELSE RpcIdle \/ Sent(r).call # calls
      BY <1>1, <3>1 DEF RpcInv, RequestsFit
    <3> QED BY <1>1, <3>1, <3>2 DEF RpcIdle, Request, Logged
  <2>3. ASSUME NEW r \in Session, NEW q \in Session, Sending(r)', Sending(q)', r # q
        PROVE  Sent(r)'.call # Sent(q)'.call
    BY <2>1, <2>3 DEF RpcInv, RequestsFit
  <2> QED BY <2>2, <2>3 DEF RequestsFit
<1>9. ProgressFits'
  <2>1. Len(net'[o].up) = 0 /\ net'[o].peer = "closed"
    BY <1>1, <1>3
  <2> QED BY <1>1, <2>1 DEF RpcInv, ProgressFits, Request, Logged, o
<1>10. AnswersFit'
  <2>1. \A a \in Frame : Arrived(a)' => Arrived(a)
    BY <1>1, <1>3, <1>4 DEF Arrived, o
  <2>2. RpcIdle' \/ (~RpcIdle /\ Request' = Request)
    BY <1>1 DEF RpcIdle, Request
  <2> QED BY <1>1, <2>1, <2>2, AnswersKeep DEF RpcInv
<1>11. StreamFits'
  <2> SUFFICES ASSUME honest PROVE StreamFits'
    BY <1>1 DEF StreamFits
  <2>1. net[o].down = <<>> => d = <<>>
    BY <1>1, <1>4
  <2>2. ASSUME rpc.phase \in {"header", "payload", "check"}
        PROVE  \E b \in ProperAnswers(Request)' : Reading(b)'
    <3>1. PICK b \in ProperAnswers(Request) : Reading(b)
      BY <2>2 DEF RpcInv, StreamFits
    <3>2. b.len \in Nat /\ rpc.got \in Seq(Unit)
      BY <1>1, <2>2, <3>1, RequestIs, ProperIs DEF Frame, RpcType, RpcIdle
    <3>3. Prefix(b, rpc.got, d)
      BY <1>1, <1>4, <3>1 DEF Reading, Prefix, o
    <3>4. Len(rpc.got) + Len(d) <= HeaderUnits + b.len
      <4>1. Len(rpc.got) + Len(net[s].down) <= HeaderUnits + b.len
        BY <1>1, <3>1 DEF Reading, o
      <4> DEFINE x == Len(rpc.got)
                 y == Len(net[s].down)
                 z == HeaderUnits + b.len
      <4>2. x \in Int /\ y \in Int /\ z \in Int /\ n \in Int /\ n <= y /\ x + y <= z
        <5>1. x \in Int /\ y \in Int /\ n \in Int
          BY <1>4, <3>2
        <5>2. z \in Int
          BY <3>2, FramesAssumption
        <5>3. n <= y /\ x + y <= z
          BY <1>4, <4>1
        <5> QED BY <5>1, <5>2, <5>3
      <4> HIDE DEF x, y, z
      <4>3. x + n <= z
        BY <4>2
      <4> QED BY <1>4, <4>3 DEF x, z
    <3>5. Reading(b)' /\ b \in ProperAnswers(Request)'
      BY <1>1, <1>3, <3>1, <3>3, <3>4 DEF Reading, Prefix, ProperAnswers, Request, o
    <3> QED BY <3>5
  <2> QED BY <1>1, <1>3, <2>1, <2>2 DEF RpcInv, StreamFits, RpcIdle, Logged, o
<1> QED BY <1>5, <1>6, <1>7, <1>8, <1>9, <1>10, <1>11 DEF RpcInv

-----------------------------------------------------------------------------
(* The invariant holds.                                                    *)

(* Each step of RpcNext keeps RpcSound; once a peer misbehaved it promises *)
(* nothing when ids can come back.                                         *)
LEMMA RpcStep ==
  ASSUME RpcSound, [RpcNext]_rpcVars
  PROVE  RpcSound'
<1> SUFFICES ASSUME honest' \/ MaxCalls <= MaxId PROVE RpcInv'
  BY DEF RpcSound
<1>1. honest' => honest
  BY DEF RpcNext, rpcVars, RpcRefused, RpcBegin, RpcContinue, Connect, ConnectFails, WriteSome,
         IoFails, ReadSome, HeaderMalformed, PeerEof, ResponseRefused, ResponseNoMemory,
         ResponseAccepted, RpcClose, PeerAnswers, PeerHangsUp
<1>2. (honest \/ MaxCalls <= MaxId) /\ RpcInv
  BY <1>1 DEF RpcSound
<1>3. CASE UNCHANGED rpcVars
  <2>1. /\ net' = net /\ connection' = connection /\ nextId' = nextId /\ rpc' = rpc
        /\ calls' = calls /\ results' = results /\ log' = log /\ honest' = honest
    BY <1>3 DEF rpcVars
  <2>2. (RpcIdle' <=> RpcIdle) /\ Request' = Request
    BY <2>1 DEF RpcIdle, Request
  <2>3. RpcType' /\ ConnectionFits' /\ ProgressFits'
    BY <1>2, <2>1, <2>2 DEF RpcInv, RpcType, ConnectionFits, ProgressFits, Logged
  <2>4. CallsFit'
    BY <1>2, <2>1, <2>2 DEF RpcInv, CallsFit, Age
  <2>5. RequestsFit'
    BY <1>2, <2>1, <2>2 DEF RpcInv, RequestsFit, Sending, Sent, Logged
  <2>6. AnswersFit'
    <3>1. \A a \in Frame : Arrived(a)' => Arrived(a)
      BY <2>1 DEF Arrived
    <3> QED BY <1>2, <2>1, <2>2, <3>1, AnswersKeep DEF RpcInv
  <2>7. StreamFits'
    <3>1. ProperAnswers(Request)' = ProperAnswers(Request)
      BY <2>2 DEF ProperAnswers
    <3>2. \A a : Reading(a)' <=> Reading(a)
      BY <2>1 DEF Reading, Prefix
    <3> QED BY <1>2, <2>1, <2>2, <3>1, <3>2 DEF RpcInv, StreamFits, Logged
  <2> QED BY <2>3, <2>4, <2>5, <2>6, <2>7 DEF RpcInv
<1>4. CASE \E opcode \in Opcode, blob \in BlobUnits : RpcRefused(opcode, blob)
  BY <1>2, <1>4, RefusedKeeps
<1>5. CASE \E opcode \in Opcode, blob \in BlobUnits : RpcBegin(opcode, blob)
  BY <1>2, <1>5, BeginKeeps
<1>6. CASE RpcContinue
  BY <1>2, <1>6, ConnectKeeps, WriteKeeps, ReadKeeps, EndsKeep DEF RpcContinue
<1>7. CASE RpcClose
  BY <1>2, <1>7, CloseKeeps
<1>8. CASE \E s \in Session : PeerAnswers(s) \/ PeerHangsUp(s)
  BY <1>2, <1>8, AnswersKeepInv, HangsUpKeeps
<1> QED BY <1>3, <1>4, <1>5, <1>6, <1>7, <1>8 DEF RpcNext

(* RpcSound is an invariant of the client.                                 *)
THEOREM RpcStaysSound == RpcSpec => []RpcSound
<1>1. RpcInit => RpcSound
  BY RpcStart DEF RpcSound
<1>2. RpcSound /\ [RpcNext]_rpcVars => RpcSound'
  BY RpcStep
<1> QED BY <1>1, <1>2, PTL DEF RpcSpec

(* Between two calls no byte of a request or of an answer is left on the   *)
(* connection that is kept, for any number of calls, any frame sizes and   *)
(* however often request ids wrapped around.                               *)
THEOREM ConnectionInStep == RpcSpec => []IdleInStep
<1>1. RpcSound => IdleInStep
  <2> SUFFICES ASSUME RpcSound, honest, RpcIdle, connection # NoSession
               PROVE  net[connection].up = <<>> /\ net[connection].down = <<>>
    BY DEF IdleInStep
  <2>1. RpcInv
    BY DEF RpcSound
  <2>2. connection \in Session
    BY <2>1 DEF RpcInv, RpcType
  <2>3. ~Sending(connection)
    BY <2>1, <2>2 DEF RpcInv, RequestsFit
  <2> QED BY <2>1, <2>3 DEF Sending, RpcInv, StreamFits
<1> QED BY <1>1, RpcStaysSound, PTL

(* A peer that answers each request once is never accused of corruption.   *)
(* max_frame_bytes has to leave room for one unit of payload: the code     *)
(* only asks that a header fits, and with no room an error message is a    *)
(* frame DecodeHeader refuses.                                             *)
THEOREM NeverAccused == ASSUME MaxPayload >= 1 PROVE RpcSpec => []NoFalseCorruption
<1>1. RpcSound => NoFalseCorruption
  <2> SUFFICES ASSUME RpcSound, honest, NEW c \in Call PROVE results[c] # "Corruption"
    BY DEF NoFalseCorruption
  <2>1. StreamFits
    BY DEF RpcSound, RpcInv
  <2>2. MaxPayload # 0
    BY FramesAssumption
  <2> QED BY <2>1, <2>2 DEF StreamFits
<1> QED BY <1>1, RpcStaysSound, PTL

-----------------------------------------------------------------------------
(* TcpConnector implements RemoteCall.                                     *)

(* What RemoteCall sees of results.                                        *)
Outcome ==
  [c \in Call |-> IF results[c] \in AnswerStatus \cup {"pending"} THEN results[c] ELSE "failed"]

(* A call that has not returned is pending there too, and only the last    *)
(* one can be.                                                             *)
LEMMA OutcomeIs ==
  ASSUME RpcInv
  PROVE  /\ calls > 0 /\ RpcIdle => Outcome[calls] # "pending"
         /\ ~RpcIdle => calls > 0 /\ calls \in Call /\ Outcome[calls] = "pending"
         /\ calls \in Nat
<1>1. calls \in Nat /\ (calls > 0 => calls \in Call)
  BY ConnectorAssumption DEF RpcInv, RpcType, Call
<1>2. ~RpcIdle => calls > 0
  BY DEF RpcInv, CallsFit
<1>3. calls > 0 => (results[calls] = "pending" <=> ~RpcIdle)
  BY <1>1 DEF RpcInv, CallsFit
<1> QED BY <1>1, <1>2, <1>3 DEF Outcome

(* One call gets its result.                                               *)
LEMMA OutcomeNext ==
  ASSUME RpcInv, NEW c \in Call, NEW status \in Result \ {"pending"},
         results' = [results EXCEPT ![c] = status]
  PROVE  Outcome' = [Outcome EXCEPT ![c] = IF status \in AnswerStatus THEN status ELSE "failed"]
BY DEF RpcInv, RpcType, Outcome

(* The end of a call is a step of RemoteCall: it failed, or it returns the *)
(* answer the peer gave to it.                                             *)
LEMMA ReturnRefines ==
  ASSUME RpcInv, ~RpcIdle, NEW status \in Result \ {"pending"}, RpcReturn(status),
         status \in AnswerStatus => AnsweredWith(calls, status), UNCHANGED <<calls, log>>
  PROVE  Remote!RemoteNext
<1>1. calls > 0 /\ calls \in Call /\ Outcome[calls] = "pending"
  BY OutcomeIs
<1>2. results' = [results EXCEPT ![calls] = status]
  BY DEF RpcReturn
<1>3. Outcome' = [Outcome EXCEPT ![calls] = IF status \in AnswerStatus THEN status ELSE "failed"]
  <2>1. PICK c \in Call : c = calls
    BY <1>1
  <2> QED BY <1>2, <2>1, OutcomeNext
<1>4. CASE status \in AnswerStatus
  <2>1. Remote!Answered(status)
    BY <1>1, <1>3, <1>4 DEF Remote!Answered, Outcome, AnsweredWith
  <2> QED BY <1>4, <2>1 DEF Remote!RemoteNext
<1>5. CASE status \notin AnswerStatus
  <2>1. Remote!Failed
    BY <1>1, <1>3, <1>5 DEF Remote!Failed, Outcome
  <2> QED BY <2>1 DEF Remote!RemoteNext
<1> QED BY <1>4, <1>5

(* The steps that end a call.                                              *)
LEMMA EndsRefine ==
  ASSUME RpcInv,
         \/ ConnectFails \/ IoFails \/ HeaderMalformed \/ PeerEof
         \/ ResponseRefused \/ ResponseNoMemory \/ ResponseAccepted
  PROVE  Remote!RemoteNext
<1> DEFINE Errors == {"NetworkError", "OutOfCapacity", "Corruption"}
<1>1. ~RpcIdle /\ UNCHANGED <<calls, log>>
  BY DEF RpcIdle, ConnectFails, IoFails, HeaderMalformed, PeerEof, ResponseRefused,
         ResponseNoMemory, ResponseAccepted
<1>2. CASE ResponseAccepted
  <2>1. /\ Response.status \in AnswerStatus /\ AnsweredWith(calls, Response.status)
        /\ RpcReturn(Response.status)
    BY <1>2, MatchIs DEF ResponseAccepted, ReturnAndKeep
  <2>2. PICK status \in AnswerStatus : AnsweredWith(calls, status) /\ RpcReturn(status)
    BY <2>1
  <2>3. status \in Result \ {"pending"}
    BY <2>2 DEF Result, AnswerStatus
  <2> QED BY <1>1, <2>2, <2>3, ReturnRefines
<1>3. CASE \E e \in Errors : RpcReturn(e)
  <2>1. PICK e \in Errors : RpcReturn(e)
    BY <1>3
  <2>2. e \in Result \ {"pending"} /\ e \notin AnswerStatus
    BY <2>1 DEF Result, AnswerStatus
  <2> QED BY <1>1, <2>1, <2>2, ReturnRefines
<1>4. ResponseAccepted \/ \E e \in Errors : RpcReturn(e)
  BY DEF ConnectFails, IoFails, HeaderMalformed, PeerEof, ResponseRefused, ResponseNoMemory,
         ReturnAndDrop, ReturnAndKeep, IoErrors
<1> QED BY <1>2, <1>3, <1>4

(* The beginning of a call.                                                *)
LEMMA BeginRefines ==
  ASSUME RpcInv, NEW opcode \in Opcode, NEW blob \in BlobUnits,
         RpcRefused(opcode, blob) \/ RpcBegin(opcode, blob)
  PROVE  Remote!RemoteNext
<1>1. /\ RpcIdle /\ calls + 1 \in Call /\ calls' = calls + 1 /\ log' = log
      /\ calls > 0 => Outcome[calls] # "pending"
  <2>1. RpcIdle /\ calls < MaxCalls /\ calls' = calls + 1 /\ log' = log
    BY DEF RpcRefused, RpcBegin
  <2>2. calls + 1 \in Call
    BY <2>1, ConnectorAssumption DEF RpcInv, RpcType, Call
  <2> QED BY <2>1, <2>2, OutcomeIs
<1>2. CASE UNCHANGED results
  <2>1. Remote!Ask
    BY <1>1, <1>2 DEF Remote!Ask, Outcome
  <2> QED BY <2>1 DEF Remote!RemoteNext
<1>3. CASE \E e \in {"OutOfCapacity", "InvalidArgument", "Corruption"} :
             results' = [results EXCEPT ![calls + 1] = e]
  <2>1. PICK e \in {"OutOfCapacity", "InvalidArgument", "Corruption"} :
          results' = [results EXCEPT ![calls + 1] = e]
    BY <1>3
  <2>2. e \in Result \ {"pending"} /\ e \notin AnswerStatus
    BY <2>1 DEF Result, AnswerStatus
  <2>3. Outcome' = [Outcome EXCEPT ![calls + 1] = "failed"]
    <3>1. PICK c \in Call : c = calls + 1
      BY <1>1
    <3> QED BY <2>1, <2>2, <3>1, OutcomeNext
  <2>4. Remote!AskAndFail
    BY <1>1, <2>3 DEF Remote!AskAndFail, Outcome
  <2> QED BY <2>4 DEF Remote!RemoteNext
<1>4. \/ UNCHANGED results
      \/ \E e \in {"OutOfCapacity", "InvalidArgument", "Corruption"} :
           results' = [results EXCEPT ![calls + 1] = e]
  <2>1. CASE RpcRefused(opcode, blob)
    <3>1. PICK e \in RefuseErrors(opcode, blob) : results' = [results EXCEPT ![calls + 1] = e]
      BY <2>1 DEF RpcRefused
    <3>2. e \in {"OutOfCapacity", "InvalidArgument", "Corruption"}
      BY <3>1 DEF RefuseErrors
    <3> QED BY <3>1, <3>2
  <2>2. CASE RpcBegin(opcode, blob)
    BY <2>2 DEF RpcBegin
  <2> QED BY <2>1, <2>2
<1> QED BY <1>2, <1>3, <1>4

(* The peer executes a request it had not executed.                        *)
LEMMA AnswerRefines ==
  ASSUME RpcInv, NEW s \in Session, PeerAnswers(s)
  PROVE  Remote!RemoteNext
<1> DEFINE c == Sent(s).call
<1>1. PICK a : a \in Frame /\ log' = Append(log, <<c, a.status>>)
  BY AnswerIs DEF AnswerTo
<1>2. Sending(s) /\ c \in 1 .. calls /\ ~Logged(c)
  BY AnswerIs DEF RpcInv, RequestsFit
<1> HIDE DEF c
<1>3. UNCHANGED <<calls, results>>
  BY DEF PeerAnswers
<1>4. a.status \in AnswerStatus /\ c \in Call
  BY <1>1, <1>2, ConnectorAssumption DEF Frame, RpcInv, RpcType, Call
<1>5. Remote!ExecuteOnce(c, a.status)
  BY <1>1, <1>2, <1>3 DEF Remote!ExecuteOnce, Logged
<1> QED BY <1>4, <1>5 DEF Remote!RemoteNext

(* The client begins as RemoteCall does.                                   *)
LEMMA StartRefines == RpcInit => Remote!RemoteInit
<1> SUFFICES ASSUME RpcInit PROVE Remote!RemoteInit
  OBVIOUS
<1>1. Outcome = [c \in Call |-> "pending"]
  BY DEF RpcInit, Outcome
<1> QED BY <1>1 DEF RpcInit, Remote!RemoteInit, Outcome

(* Each of its steps is one of RemoteCall or changes nothing there.        *)
LEMMA StepRefines ==
  ASSUME RpcInv, [RpcNext]_rpcVars
  PROVE  [Remote!RemoteNext]_Remote!remoteVars
<1>1. CASE UNCHANGED <<calls, results, log>>
  BY <1>1 DEF Remote!remoteVars
<1>2. CASE \E opcode \in Opcode, blob \in BlobUnits :
             RpcRefused(opcode, blob) \/ RpcBegin(opcode, blob)
  BY <1>2, BeginRefines
<1>3. CASE RpcContinue
  <2>1. CASE Connect \/ WriteSome \/ ReadSome
    BY <1>1, <2>1 DEF Connect, WriteSome, ReadSome
  <2> QED BY <1>3, <2>1, EndsRefine DEF RpcContinue
<1>4. CASE RpcClose \/ UNCHANGED rpcVars \/ \E s \in Session : PeerHangsUp(s)
  BY <1>1, <1>4 DEF RpcClose, rpcVars, PeerHangsUp
<1>5. CASE \E s \in Session : PeerAnswers(s)
  BY <1>5, AnswerRefines
<1> QED BY <1>2, <1>3, <1>4, <1>5 DEF RpcNext

(* No request is sent twice, and a call that returns an answer returns the *)
(* one the peer gave to that call, whatever the peer and the network do,   *)
(* as long as request ids do not come back (MaxId is 2^64 - 1).            *)
THEOREM ClientImplementsRemoteCall ==
  ASSUME MaxCalls <= MaxId PROVE RpcSpec => ImplementsRemoteCall
<1>1. RpcSound /\ [RpcNext]_rpcVars => [Remote!RemoteNext]_Remote!remoteVars
  BY StepRefines DEF RpcSound
<1> QED BY <1>1, StartRefines, RpcStaysSound, PTL
        DEF RpcSpec, ImplementsRemoteCall, Remote!RemoteSpec

(* With a peer that answers each request once the same holds however often *)
(* the ids wrap around: a late answer cannot outlive its connection.       *)
THEOREM HonestPeerImplementsRemoteCall == RpcSpec /\ []honest => ImplementsRemoteCall
<1>1. RpcSound /\ honest /\ [RpcNext]_rpcVars => [Remote!RemoteNext]_Remote!remoteVars
  BY StepRefines DEF RpcSound
<1> QED BY <1>1, StartRefines, RpcStaysSound, PTL
        DEF RpcSpec, ImplementsRemoteCall, Remote!RemoteSpec
=============================================================================
