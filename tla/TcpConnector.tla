---------------------------- MODULE TcpConnector ----------------------------
(***************************************************************************)
(* The RPC client: one call at a time under mutex_, over at most one       *)
(* connection.  Phases of a call:                                          *)
(*   connect   ExecuteLocked has its request id, no connection yet         *)
(*   write     in WriteWireFrame, `sent` units written                     *)
(*   header    in ReadWireFrame, reading the header                        *)
(*   malformed the header is refused                                       *)
(*   payload   the header is accepted, reading the payload                 *)
(*   check     a whole frame was read                                      *)
(***************************************************************************)
EXTENDS TcpConnection

CONSTANTS
  MaxCalls,      \* bound on the number of calls
  MaxId,         \* the largest request id, 2^64 - 1
  FirstId,       \* the id of the first call that is modelled
  BlobUnits,     \* sizes of the blocks that are Put
  UnrulyCalls    \* calls that may be answered twice or with malformed frames

ASSUME ConnectorAssumption ==
  /\ MaxCalls \in Nat /\ MaxId \in Nat /\ FirstId \in 1 .. MaxId
  /\ BlobUnits \subseteq Nat \ {0} /\ UnrulyCalls \subseteq Nat
  /\ 1 .. MaxCalls \subseteq Session

VARIABLES
  connection,  \* the session of connection_, or NoSession
  nextId,      \* next_request_id_
  rpc,         \* the call that holds mutex_
  calls,       \* number of calls made
  results,     \* what each call returned
  log,         \* what the peer executed (external)
  honest       \* every answer so far was a proper one

rpcVars == <<net, connection, nextId, rpc, calls, results, log, honest>>

Call == 1 .. MaxCalls
AnswerStatus == {"Ok", "NotFound"}

IdleRpc == [phase |-> "idle", request |-> <<>>, sent |-> 0, got |-> <<>>]

RpcInit ==
  /\ NetInit
  /\ connection = NoSession
  /\ nextId = FirstId
  /\ rpc = IdleRpc
  /\ calls = 0
  /\ results = [c \in Call |-> "pending"]
  /\ log = <<>>
  /\ honest = TRUE

RpcIdle == rpc.phase = "idle"
Request == rpc.request[1]

(* The call returns with the connection kept, or dropped.                  *)
RpcReturn(status) ==
  /\ results' = [results EXCEPT ![calls] = status]
  /\ rpc' = IdleRpc

ReturnAndKeep(status) == RpcReturn(status) /\ UNCHANGED <<net, connection>>

DropConnection == Hangup(connection) /\ connection' = NoSession

ReturnAndDrop(status) == RpcReturn(status) /\ DropConnection

-----------------------------------------------------------------------------
(* Get, Put and Ping up to the connection.                                 *)

(* Refused before a request id is taken: a block too large for a frame, no *)
(* memory to encode.  The configuration is a valid one.                    *)
RefuseErrors(opcode, blob) ==
  {"OutOfCapacity"} \cup
  (IF ValidateFrameSize(RequestUnits(opcode, blob)) THEN {} ELSE {"InvalidArgument"})

RpcRefused(opcode, blob) ==
  /\ RpcIdle /\ calls < MaxCalls
  /\ calls' = calls + 1
  /\ \E e \in RefuseErrors(opcode, blob) : results' = [results EXCEPT ![calls + 1] = e]
  /\ UNCHANGED <<net, connection, nextId, rpc, log, honest>>

(* Mutant: the id wraps to the reserved zero.                              *)
AllocateRequestIdToZero == nextId' = IF nextId = MaxId THEN 0 ELSE nextId + 1

AllocateRequestId == nextId' = IF nextId = MaxId THEN 1 ELSE nextId + 1

RequestFrame(opcode, blob) ==
  [kind |-> "request", opcode |-> opcode, status |-> "Ok", id |-> nextId,
   len |-> RequestUnits(opcode, blob), intact |-> TRUE, decodes |-> TRUE,
   call |-> calls + 1]

(* ExecuteLocked takes an id, then validates its own request.              *)
RpcBegin(opcode, blob) ==
  /\ RpcIdle /\ calls < MaxCalls
  /\ ValidateFrameSize(RequestUnits(opcode, blob))
  /\ AllocateRequestId
  /\ calls' = calls + 1
  /\ IF nextId = 0
     THEN results' = [results EXCEPT ![calls + 1] = "Corruption"] /\ UNCHANGED rpc
     ELSE \/ /\ rpc' = [IdleRpc EXCEPT
                          !.phase = IF connection = NoSession THEN "connect" ELSE "write",
                          !.request = <<RequestFrame(opcode, blob)>>]
             /\ UNCHANGED results
          \/ /\ opcode = "Put"   \* DecodePutRequest copies the block
             /\ results' = [results EXCEPT ![calls + 1] = "OutOfCapacity"]
             /\ UNCHANGED rpc
  /\ UNCHANGED <<net, connection, log, honest>>

(* One new session per call at most.                                       *)
Connect ==
  /\ rpc.phase = "connect"
  /\ Connected(calls)
  /\ connection' = calls
  /\ rpc' = [rpc EXCEPT !.phase = "write"]
  /\ UNCHANGED <<nextId, calls, results, log, honest>>

ConnectFails ==
  /\ rpc.phase = "connect"
  /\ \E e \in IoErrors \cup {"OutOfCapacity"} : ReturnAndKeep(e)
  /\ UNCHANGED <<nextId, calls, log, honest>>

-----------------------------------------------------------------------------
(* ExecuteLocked.                                                          *)

WriteSome ==
  /\ rpc.phase = "write"
  /\ SendUnit(connection, <<Request, rpc.sent + 1>>)
  /\ rpc' = [rpc EXCEPT !.sent = @ + 1,
                        !.phase = IF rpc.sent + 1 = HeaderUnits + Request.len
                                  THEN "header" ELSE "write"]
  /\ UNCHANGED <<connection, nextId, calls, results, log, honest>>

(* Mutant: the whole request is sent again after a failed write or read.   *)
IoFailsReplay ==
  /\ rpc.phase \in {"write", "header", "payload"}
  /\ rpc' = [rpc EXCEPT !.phase = "write", !.sent = 0, !.got = <<>>]
  /\ UNCHANGED <<net, connection, nextId, calls, results, log, honest>>

(* Mutant: the connection survives a timeout.                              *)
IoFailsKeeps ==
  /\ rpc.phase \in {"write", "header", "payload"}
  /\ \E e \in IoErrors \cup {"OutOfCapacity"} : ReturnAndKeep(e)
  /\ UNCHANGED <<nextId, calls, log, honest>>

(* Mutant: reads have no deadline.                                         *)
IoFailsNoDeadline ==
  /\ rpc.phase = "write"
  /\ \E e \in IoErrors \cup {"OutOfCapacity"} : ReturnAndDrop(e)
  /\ UNCHANGED <<nextId, calls, log, honest>>

(* A deadline passes, the socket fails, or memory runs out once network    *)
(* I/O has begun.                                                          *)
IoFails ==
  /\ rpc.phase \in {"write", "header", "payload"}
  /\ \E e \in IoErrors \cup {"OutOfCapacity"} : ReturnAndDrop(e)
  /\ UNCHANGED <<nextId, calls, log, honest>>

(* ReadExact of the header, then of as many units as the header announces. *)
ReadSome ==
  /\ rpc.phase \in {"header", "payload"}
  /\ RecvUnit(connection)
  /\ LET got == Append(rpc.got, Head(net[connection].down)) IN
       rpc' = [rpc EXCEPT !.got = got,
                 !.phase = IF Len(got) < HeaderUnits THEN "header"
                           ELSE IF Len(got) = HeaderUnits /\ ~DecodesHeader(got) THEN "malformed"
                           ELSE IF Len(got) < HeaderUnits + got[1][1].len THEN "payload"
                           ELSE "check"]
  /\ UNCHANGED <<connection, nextId, calls, results, log, honest>>

(* DecodeHeader refuses the header.                                        *)
HeaderMalformed ==
  /\ rpc.phase = "malformed"
  /\ ReturnAndDrop("Corruption")
  /\ UNCHANGED <<nextId, calls, log, honest>>

PeerEof ==
  /\ rpc.phase \in {"header", "payload"}
  /\ AtEof(connection)
  /\ ReturnAndDrop("NetworkError")
  /\ UNCHANGED <<nextId, calls, log, honest>>

Response == rpc.got[1][1]

Matches ==
  /\ Response.kind = "response"
  /\ Response.opcode = Request.opcode
  /\ Response.id = Request.id

(* ValidateResponse, DecodeRemoteErrorLocked and the block's own header.   *)
PayloadDecodes == Aligned(rpc.got) /\ Response.id # 0 /\ Response.decodes

ResponseRefused ==
  /\ rpc.phase = "check" /\ ~(Matches /\ PayloadDecodes)
  /\ ReturnAndDrop("Corruption")
  /\ UNCHANGED <<nextId, calls, log, honest>>

(* Memory runs out after the frame was read: where the code knows that     *)
(* the stream is still in step it keeps the connection.                    *)
ResponseNoMemory ==
  /\ rpc.phase = "check"
  /\ \/ /\ Matches /\ Response.len > 0
        /\ PayloadDecodes \/ Response.status = "Ok"
        /\ ReturnAndKeep("OutOfCapacity")
     \/ ReturnAndDrop("OutOfCapacity")
  /\ UNCHANGED <<nextId, calls, log, honest>>

ResponseAccepted ==
  /\ rpc.phase = "check" /\ Matches /\ PayloadDecodes
  /\ ReturnAndKeep(Response.status)
  /\ UNCHANGED <<nextId, calls, log, honest>>

(* Waits for the mutex, so never during a call.  Ids go on.                *)
RpcClose ==
  /\ RpcIdle
  /\ DropConnection
  /\ UNCHANGED <<nextId, rpc, calls, results, log, honest>>

-----------------------------------------------------------------------------
(* The peer (external): it reads whole requests, also from sessions the    *)
(* client has given up, and answers each.                                  *)

WholeRequest(s) ==
  /\ net[s].peer = "open" /\ net[s].up # <<>>
  /\ Len(net[s].up) >= HeaderUnits + net[s].up[1][1].len

ProperAnswers(f) ==
  {[kind |-> "response", opcode |-> f.opcode, status |-> status, id |-> f.id,
    len |-> IF status # "Ok" THEN ErrorUnits ELSE IF f.opcode = "Get" THEN 1 ELSE 0,
    intact |-> TRUE, decodes |-> TRUE, call |-> f.call] : status \in AnswerStatus}

(* One answer twice, or one of the malformed answers the tests send.       *)
ImproperAnswers(f) ==
  UNION {{Units(a) \o Units(a),
          Units([a EXCEPT !.kind = "request"]),
          Units([a EXCEPT !.opcode = IF @ = "Get" THEN "Put" ELSE "Get"]),
          Units([a EXCEPT !.id = 0]),
          Units([a EXCEPT !.intact = FALSE]),
          Units([a EXCEPT !.len = MaxPayload + 1]),
          Units([a EXCEPT !.decodes = (@ /\ a.len = 0)])} : a \in ProperAnswers(f)}

PeerAnswers(s) ==
  /\ WholeRequest(s)
  /\ LET f == net[s].up[1][1]
         rest == SubSeq(net[s].up, HeaderUnits + f.len + 1, Len(net[s].up))
         proper == {Units(a) : a \in ProperAnswers(f)}
     IN \E units \in proper \cup
                     (IF f.call \in UnrulyCalls THEN ImproperAnswers(f) ELSE {}) :
          /\ PeerSends(s, units, rest)
          /\ log' = Append(log, <<f.call, units[1][1].status>>)
          /\ honest' = (honest /\ units \in proper)
  /\ UNCHANGED <<connection, nextId, rpc, calls, results>>

PeerHangsUp(s) ==
  PeerCloses(s) /\ UNCHANGED <<connection, nextId, rpc, calls, results, log, honest>>

-----------------------------------------------------------------------------
(* Steps of the thread that holds mutex_.                                  *)
RpcContinue ==
  \/ Connect \/ ConnectFails
  \/ WriteSome \/ IoFails
  \/ ReadSome \/ HeaderMalformed \/ PeerEof
  \/ ResponseRefused \/ ResponseNoMemory \/ ResponseAccepted

RpcNext ==
  \/ \E opcode \in Opcode, blob \in BlobUnits : RpcRefused(opcode, blob) \/ RpcBegin(opcode, blob)
  \/ RpcContinue
  \/ RpcClose
  \/ \E s \in Session : PeerAnswers(s) \/ PeerHangsUp(s)

RpcSpec == RpcInit /\ [][RpcNext]_rpcVars

(* The thread that holds mutex_ keeps running, and poll has a deadline.    *)
(* Nothing is assumed of the peer.                                         *)
RpcFairSpec == RpcSpec /\ WF_rpcVars(RpcContinue)

-----------------------------------------------------------------------------
(* Properties.                                                             *)

(* Between calls an open connection is in step: no part of a request or of *)
(* an answer is left on it, so the next answer read belongs to the next    *)
(* request.  Every timeout, EOF or allocation failure in the middle of a   *)
(* frame drops it.  (For a peer that answers each request once.)           *)
IdleInStep ==
  honest /\ RpcIdle /\ connection # NoSession =>
    net[connection].up = <<>> /\ net[connection].down = <<>>

(* A peer that answers each request once is never accused of corruption,   *)
(* whatever calls failed before, and when request ids wrap around.         *)
NoFalseCorruption == honest => \A c \in Call : results[c] # "Corruption"

Remote == INSTANCE RemoteCall WITH
  asked      <- calls,
  executions <- log,
  outcome    <- [c \in Call |-> IF results[c] \in AnswerStatus \cup {"pending"}
                                THEN results[c] ELSE "failed"]

(* TcpConnector never sends a request twice (tcp_connector.h: no replay of *)
(* a failed request), and a call that returns an answer returns the one    *)
(* the peer gave to that call, whatever the peer and the network do.       *)
ImplementsRemoteCall == Remote!RemoteSpec

(* Every call returns, even if the peer says nothing.                      *)
EveryRpcReturns == rpc.phase # "idle" ~> rpc.phase = "idle"
=============================================================================
