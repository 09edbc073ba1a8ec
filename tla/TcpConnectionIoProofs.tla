----------------------- MODULE TcpConnectionIoProofs ------------------------
(***************************************************************************)
(* An inductive invariant of TcpConnectionIo, for every value of the       *)
(* constants: any number of objects, descriptors and threads that call     *)
(* Shutdown.  First the invariant, and that the steps within a call, of    *)
(* Shutdown, and those that open, close and hand over descriptors keep it; *)
(* then every step and what follows from it; last the deadlines, for every *)
(* resolution of the clock, every timeout and every INT_MAX, and the parts *)
(* of a transfer.                                                          *)
(***************************************************************************)
EXTENDS TcpConnectionIo, FiniteSetTheorems, WellFoundedInduction, TLAPS

(* The fields of io, and of a socket.                                      *)
CallFields ==
  {"pc", "op", "obj", "fd", "want", "done", "buf", "first", "left", "timeout", "now",
   "expires", "wake"}
SocketFields == {"open", "shut", "peer", "avail", "room", "failed"}

(* What the argument needs to know of the types.                           *)
IoType ==
  /\ fd \in [Object -> 0 .. MaxFd]
  /\ broken \in [Object -> BOOLEAN]
  /\ stop \in [Stopper -> Object \cup {NoObject}]
  /\ loose \subseteq Fd
  /\ DOMAIN sock = Fd
  /\ \A f \in Fd : /\ DOMAIN sock[f] = SocketFields
                   /\ sock[f].open \in BOOLEAN
                   /\ sock[f].shut \in BOOLEAN
                   /\ sock[f].failed \in BOOLEAN
  /\ DOMAIN io = CallFields /\ io.fd \in 0 .. MaxFd

(* The owner is inside ReadExact or WriteExact.                            *)
Exchanging == io.pc \in {"run", "ready", "poll", "mark", "shut"} /\ io.op # "connect"

(* A running call is on an object of the program; a read or a write uses   *)
(* its descriptor; a Connect has a candidate from its socket on.           *)
CallFits ==
  /\ io.pc = "idle" => io.op = "none" /\ io.fd = NoFd
  /\ io.pc # "idle" => io.obj \in Object /\ io.op # "none"
  /\ io.pc \in {"run", "mark", "shut"} => io.op # "connect"
  /\ io.pc \in {"candidate", "error"} => io.op = "connect"
  /\ io.pc = "candidate" => io.fd = NoFd
  /\ io.pc # "candidate" /\ io.op = "connect" => io.fd # NoFd
  /\ Exchanging => io.fd = fd[io.obj] /\ io.fd # NoFd

(* A Shutdown call under way keeps its object open and broken.             *)
StopFits ==
  \A t \in Stopper : stop[t] # NoObject => fd[stop[t]] # NoFd /\ broken[stop[t]]

(* The descriptor that Connect is trying.                                  *)
Candidate(f) == io.op = "connect" /\ io.fd = f

(* Open descriptors are held, each by one.                                 *)
Unshared ==
  /\ \A o, p \in Object : fd[o] = fd[p] /\ fd[o] # NoFd => o = p
  /\ \A o \in Object : fd[o] # NoFd => fd[o] \notin loose /\ ~Candidate(fd[o])
  /\ \A f \in loose : ~Candidate(f)
(* Something holds a descriptor, and only what is open is held.            *)
Held(f) == f \in loose \/ Candidate(f) \/ \E o \in Object : fd[o] = f
Owned == Unshared /\ \A f \in Fd : sock[f].open <=> Held(f)

(* A socket on which a call failed belongs to a broken connection, or to   *)
(* one the failing call is about to mark.                                  *)
FailedDead ==
  /\ \A o \in Object : fd[o] # NoFd /\ sock[fd[o]].failed =>
                         broken[o] \/ (io.pc = "mark" /\ io.obj = o)
  /\ \A f \in Fd : f \in loose \/ Candidate(f) => ~sock[f].failed
  /\ Exchanging /\ io.pc \in {"run", "ready", "poll"} => ~sock[io.fd].failed

(* The socket of a broken connection is shut down, unless the thread that  *)
(* broke it is about to.                                                   *)
ShutSeen ==
  \A o \in Object :
    broken[o] /\ fd[o] # NoFd /\ NoShutdown(o) /\ ~(io.pc = "shut" /\ io.obj = o)
      => sock[fd[o]].shut

(* The invariant.                                                          *)
IoInv == IoType /\ CallFits /\ StopFits /\ Owned /\ FailedDead /\ ShutSeen

-----------------------------------------------------------------------------
(* Facts about the constructors and the kernel's choice of a descriptor.   *)

(* No descriptor is written as one that is not in use.                     *)
LEMMA NoFdTyped == NoFd \in 0 .. MaxFd
BY IoAssumption DEF NoFd

(* The fields of a call that is not under way.                             *)
LEMMA IdleCall ==
  /\ DOMAIN IdleIo = CallFields
  /\ IdleIo.pc = "idle" /\ IdleIo.op = "none" /\ IdleIo.fd = NoFd
BY DEF IdleIo, CallFields

(* It has asked for nothing and transferred nothing.                       *)
LEMMA IdleBuffer ==
  /\ IdleIo.want = 0 /\ IdleIo.done = 0
  /\ IdleIo.buf = [i \in 1 .. MaxUnits |-> 0]
BY Zenon DEF IdleIo

(* It has no deadline.                                                     *)
LEMMA IdleTimes ==
  IdleIo.now = 0 /\ IdleIo.expires = 0 /\ IdleIo.wake = 0 /\ IdleIo.timeout = 0
BY Zenon DEF IdleIo

(* The fields of a closed socket and of one the kernel has just opened.    *)
LEMMA FreshSocket ==
  /\ DOMAIN FreeSocket = SocketFields
  /\ FreeSocket.open = FALSE /\ FreeSocket.shut = FALSE /\ FreeSocket.failed = FALSE
  /\ \A peer : /\ DOMAIN NewSocket(peer) = SocketFields
               /\ NewSocket(peer).open = TRUE /\ NewSocket(peer).shut = FALSE
               /\ NewSocket(peer).failed = FALSE
BY DEF FreeSocket, NewSocket, SocketFields

(* socket and accept return a descriptor that no one holds.                *)
LEMMA LowestIsFree ==
  ASSUME SomeFree PROVE LowestFree \in Fd /\ ~sock[LowestFree].open
<1> DEFINE Less == {ss \in Nat \X Nat : ss[1] < ss[2]}
<1>1. IsWellFoundedOn(Less, Nat)
  BY NatLessThanWellFounded DEF OpToRel
<1>2. FreeFd \subseteq Nat /\ FreeFd # {}
  BY IoAssumption DEF FreeFd, Fd, SomeFree
<1>3. PICK f \in FreeFd : \A g \in FreeFd : ~ (<<g, f>> \in Less)
  <2> HIDE DEF Less
  <2> QED BY <1>1, <1>2, WFMin
<1>4. ASSUME NEW g \in FreeFd PROVE f <= g
  <2>1. ~ (<<g, f>> \in Less) BY <1>3
  <2> QED BY <1>2, <2>1
<1>5. LowestFree \in FreeFd
  BY <1>4 DEF LowestFree
<1> QED BY <1>5 DEF FreeFd

-----------------------------------------------------------------------------
(* Steps that keep the descriptors and flags and move only within a call.  *)

(* No socket is opened, closed, shut down or broken.                       *)
SocketsKeep ==
  /\ DOMAIN sock' = Fd
  /\ \A f \in Fd : /\ DOMAIN sock'[f] = SocketFields
                   /\ sock'[f].open = sock[f].open
                   /\ sock'[f].shut = sock[f].shut
                   /\ sock'[f].failed = sock[f].failed

(* The call and its descriptor stay.                                       *)
SameCall ==
  DOMAIN io' = CallFields /\ io'.op = io.op /\ io'.obj = io.obj /\ io'.fd = io.fd

(* Connect goes on with the candidate f.                                   *)
SameStart(f) ==
  DOMAIN io' = CallFields /\ io'.pc = "ready" /\ io'.op = io.op /\ io'.obj = io.obj /\ io'.fd = f

(* A step of a call that keeps every descriptor and flag keeps IoInv.      *)
LEMMA QuietStep ==
  ASSUME IoInv, UNCHANGED <<fd, broken, loose, stop>>, SocketsKeep, SameCall,
         \/ io'.pc = io.pc
         \/ io.pc = "run" /\ io'.pc = "ready"
         \/ io.pc = "ready" /\ io'.pc = "poll"
         \/ io.pc = "poll" /\ io'.pc = "ready"
         \/ io.pc = "poll" /\ io'.pc = IF io.op = "connect" THEN "error" ELSE "run"
  PROVE  IoInv'
<1>1. IoType'
  BY DEF IoInv, IoType, SocketsKeep, SameCall
<1>2. CallFits'
  BY DEF IoInv, CallFits, SameCall, Exchanging
<1>3. StopFits'
  BY DEF IoInv, StopFits
<1>4. Owned'
  BY DEF IoInv, IoType, Owned, Unshared, Held, SocketsKeep, SameCall, Candidate
<1>5. FailedDead'
  BY DEF IoInv, IoType, CallFits, FailedDead, SocketsKeep, SameCall, Candidate, Exchanging, NoFd, Fd
<1>6. ShutSeen'
  BY DEF IoInv, IoType, ShutSeen, SocketsKeep, SameCall, NoShutdown, NoFd, Fd
<1> QED BY <1>1, <1>2, <1>3, <1>4, <1>5, <1>6 DEF IoInv

(* A read or a write that fails.                                           *)
LEMMA FailStep ==
  ASSUME IoInv, Fail, UNCHANGED <<fd, broken, loose, stop>>,
         io.op # "connect", io.pc \in {"run", "ready", "poll"}
  PROVE  IoInv'
<1>1. DOMAIN io' = CallFields /\ io'.pc = "mark" /\ io'.op = io.op /\ io'.obj = io.obj /\ io'.fd = io.fd
  BY DEF Fail, IoInv, IoType, CallFields
<1>2. io.fd \in Fd /\ io.obj \in Object /\ io.fd = fd[io.obj]
  BY DEF IoInv, IoType, CallFits, Exchanging, NoFd, Fd
<1>3. /\ DOMAIN sock' = Fd
      /\ \A f \in Fd : /\ DOMAIN sock'[f] = SocketFields
                       /\ sock'[f].open = sock[f].open
                       /\ sock'[f].shut = sock[f].shut
                       /\ f # io.fd => sock'[f].failed = sock[f].failed
      /\ sock'[io.fd].failed = TRUE
  BY <1>2 DEF Fail, IoInv, IoType, SocketFields
<1>4. IoType'
  <2>1. ASSUME NEW f \in Fd PROVE sock'[f].failed \in BOOLEAN
    BY <1>3 DEF IoInv, IoType
  <2> QED BY <1>1, <1>3, <2>1 DEF IoInv, IoType
<1>5. CallFits'
  BY <1>1, <1>2 DEF IoInv, CallFits, Exchanging
<1>6. StopFits'
  BY DEF IoInv, StopFits
<1>7. Owned'
  BY <1>1, <1>3 DEF IoInv, IoType, Owned, Unshared, Held, Candidate
<1>8. FailedDead'
  BY <1>1, <1>2, <1>3 DEF IoInv, IoType, Owned, Unshared, Held, FailedDead, Candidate, Exchanging, NoFd, Fd
<1>9. ShutSeen'
  BY <1>1, <1>3 DEF IoInv, IoType, CallFits, ShutSeen, NoShutdown, NoFd, Fd
<1> QED BY <1>4, <1>5, <1>6, <1>7, <1>8, <1>9 DEF IoInv

-----------------------------------------------------------------------------
(* A call returns without holding a candidate or a failed socket.          *)
LEMMA ReturnStep ==
  ASSUME IoInv, io' = IdleIo, UNCHANGED <<fd, broken, sock, loose, stop>>,
         io.pc = "run" \/ io.pc = "candidate"
  PROVE  IoInv'
<1>1. DOMAIN io' = CallFields /\ io'.pc = "idle" /\ io'.op = "none" /\ io'.fd = NoFd
  BY IdleCall
<1>2. \A f \in Fd : ~Candidate(f)
  BY DEF IoInv, CallFits, Candidate, NoFd, Fd
<1>3. IoType'
  BY <1>1, IoAssumption DEF IoInv, IoType, NoFd
<1>4. CallFits'
  BY <1>1 DEF CallFits, Exchanging
<1>5. StopFits'
  BY DEF IoInv, StopFits
<1>6. Owned'
  BY <1>1, <1>2 DEF IoInv, Owned, Unshared, Held, Candidate
<1>7. FailedDead'
  BY <1>1 DEF IoInv, FailedDead, Candidate, Exchanging
<1>8. ShutSeen'
  BY <1>1 DEF IoInv, ShutSeen, NoShutdown
<1> QED BY <1>3, <1>4, <1>5, <1>6, <1>7, <1>8 DEF IoInv

(* Connect closes a candidate, and tries the next one or returns.          *)
LEMMA DropStep ==
  ASSUME IoInv, io.op = "connect", io.pc \in {"ready", "poll", "error"},
         sock' = [sock EXCEPT ![io.fd] = FreeSocket],
         io' = IdleIo \/ io' = NextCandidate,
         UNCHANGED <<fd, broken, loose, stop>>
  PROVE  IoInv'
<1>1. io.fd \in Fd /\ io.obj \in Object
  BY DEF IoInv, IoType, CallFits, NoFd, Fd
<1>2. /\ DOMAIN io' = CallFields /\ io'.fd = NoFd
      /\ \/ io'.pc = "idle" /\ io'.op = "none"
         \/ io'.pc = "candidate" /\ io'.op = "connect" /\ io'.obj = io.obj
  BY IdleCall DEF NextCandidate, IoInv, IoType, CallFields
<1>3. /\ DOMAIN sock' = Fd /\ sock'[io.fd] = FreeSocket
      /\ \A f \in Fd : f # io.fd => sock'[f] = sock[f]
  BY <1>1 DEF IoInv, IoType
<1>4. io.fd \notin loose /\ \A o \in Object : fd[o] # io.fd
  BY <1>1 DEF IoInv, Owned, Unshared, Held, Candidate, NoFd, Fd
<1>5. IoType'
  <2>1. ASSUME NEW f \in Fd
        PROVE  /\ DOMAIN sock'[f] = SocketFields /\ sock'[f].open \in BOOLEAN
               /\ sock'[f].shut \in BOOLEAN /\ sock'[f].failed \in BOOLEAN
    <3>1. CASE f = io.fd
      BY <1>3, <3>1, FreshSocket
    <3>2. CASE f # io.fd
      BY <1>3, <3>2 DEF IoInv, IoType
    <3> QED BY <3>1, <3>2
  <2> QED BY <1>2, <1>3, <2>1, IoAssumption DEF IoInv, IoType, NoFd
<1>6. CallFits'
  BY <1>1, <1>2 DEF CallFits, Exchanging
<1>7. StopFits'
  BY DEF IoInv, StopFits
<1>8. Owned'
  <2>1. \A f \in Fd : ~Candidate(f)'
    BY <1>2 DEF Candidate, NoFd, Fd
  <2>2. \A o \in Object : fd[o] # NoFd => fd[o] \in Fd
    BY DEF IoInv, IoType, NoFd, Fd
  <2>3. ASSUME NEW f \in Fd
        PROVE  sock'[f].open <=> (f \in loose \/ \E o \in Object : fd[o] = f)
    <3>1. CASE f = io.fd
      BY <1>3, <1>4, <3>1, FreshSocket
    <3>2. CASE f # io.fd
      BY <1>3, <3>2 DEF IoInv, Owned, Unshared, Held, Candidate
    <3> QED BY <3>1, <3>2
  <2> QED BY <2>1, <2>2, <2>3 DEF IoInv, IoType, Owned, Unshared, Held
<1>9. FailedDead'
  BY <1>2, <1>3, <1>4, FreshSocket DEF IoInv, IoType, FailedDead, Candidate, Exchanging, NoFd, Fd
<1>10. ShutSeen'
  BY <1>2, <1>3, <1>4 DEF IoInv, IoType, ShutSeen, NoShutdown, NoFd, Fd
<1> QED BY <1>5, <1>6, <1>7, <1>8, <1>9, <1>10 DEF IoInv

(* A call begins, or a Connect goes on to the next address.                *)
LEMMA BeginStep ==
  ASSUME IoInv, UNCHANGED <<fd, broken, sock, loose, stop>>,
         DOMAIN io' = CallFields, io'.obj \in Object,
         io.pc = "idle" \/ io.pc = "candidate",
         \/ io'.pc = "candidate" /\ io'.op = "connect" /\ io'.fd = NoFd
         \/ /\ io'.pc = "run" /\ io'.op \in {"read", "write"}
            /\ io'.fd = fd[io'.obj] /\ fd[io'.obj] # NoFd /\ ~broken[io'.obj]
  PROVE  IoInv'
<1>1. \A f \in Fd : ~Candidate(f)
  BY DEF IoInv, CallFits, Candidate, NoFd, Fd
<1>2. \A f \in Fd : ~Candidate(f)'
  BY DEF Candidate, NoFd, Fd
<1>3. io'.fd \in 0 .. MaxFd
  BY IoAssumption DEF IoInv, IoType, NoFd
<1>4. IoType'
  BY <1>3 DEF IoInv, IoType
<1>5. CallFits'
  BY DEF CallFits, Exchanging
<1>6. StopFits'
  BY DEF IoInv, StopFits
<1>7. Owned'
  BY <1>1, <1>2 DEF IoInv, IoType, Owned, Unshared, Held, NoFd, Fd
<1>8. FailedDead'
  BY <1>2 DEF IoInv, FailedDead, Exchanging
<1>9. ShutSeen'
  BY DEF IoInv, ShutSeen, NoShutdown, CallFits
<1> QED BY <1>4, <1>5, <1>6, <1>7, <1>8, <1>9 DEF IoInv

-----------------------------------------------------------------------------
(* The steps of MarkBroken and of Shutdown.                                *)
LEMMA MarkStep ==
  ASSUME IoInv, MarkBroken
  PROVE  IoInv'
<1>1. /\ io.pc = "mark" /\ io.obj \in Object /\ io.op # "connect" /\ io.fd = fd[io.obj]
      /\ io.fd # NoFd
  BY DEF MarkBroken, IoInv, CallFits, Exchanging
<1>2. /\ broken' = [broken EXCEPT ![io.obj] = TRUE]
      /\ UNCHANGED <<fd, sock, loose, stop>>
  BY DEF MarkBroken
<1>3. \/ broken[io.obj] /\ io' = IdleIo
      \/ ~broken[io.obj] /\ io' = [io EXCEPT !.pc = "shut"]
  BY DEF MarkBroken
<1>4. /\ DOMAIN io' = CallFields
      /\ \/ broken[io.obj] /\ io'.pc = "idle" /\ io'.op = "none" /\ io'.fd = NoFd
         \/ ~broken[io.obj] /\ io'.pc = "shut" /\ io'.op = io.op /\ io'.obj = io.obj /\ io'.fd = io.fd
  BY <1>3, IdleCall DEF IoInv, IoType, CallFields
<1>5. /\ broken' \in [Object -> BOOLEAN] /\ broken'[io.obj]
      /\ \A o \in Object : o # io.obj => broken'[o] = broken[o]
  BY <1>1, <1>2 DEF IoInv, IoType
<1>6. IoType'
  BY <1>2, <1>4, <1>5, IoAssumption DEF IoInv, IoType, NoFd
<1>7. CallFits'
  BY <1>1, <1>2, <1>4 DEF CallFits, Exchanging, IoInv
<1>8. StopFits'
  BY <1>2, <1>5 DEF IoInv, IoType, StopFits
<1>9. Owned'
  BY <1>1, <1>2, <1>4 DEF IoInv, Owned, Unshared, Held, Candidate
<1>10. FailedDead'
  BY <1>1, <1>2, <1>4, <1>5 DEF IoInv, FailedDead, Candidate, Exchanging
<1>11. ShutSeen'
  BY <1>1, <1>2, <1>4, <1>5 DEF IoInv, ShutSeen, NoShutdown
<1> QED BY <1>6, <1>7, <1>8, <1>9, <1>10, <1>11 DEF IoInv

(* shutdown(2) on the socket of object o.                                  *)
LEMMA ShutSocket ==
  ASSUME IoInv, NEW o \in Object, fd[o] # NoFd,
         sock' = [sock EXCEPT ![fd[o]].shut = TRUE]
  PROVE  /\ DOMAIN sock' = Fd
         /\ \A f \in Fd : /\ DOMAIN sock'[f] = SocketFields
                          /\ sock'[f].open = sock[f].open
                          /\ sock'[f].failed = sock[f].failed
                          /\ sock'[f].shut \in BOOLEAN
                          /\ sock[f].shut => sock'[f].shut
         /\ sock'[fd[o]].shut
<1>1. fd[o] \in Fd
  BY DEF IoInv, IoType, NoFd, Fd
<1>2. /\ DOMAIN sock' = Fd /\ sock'[fd[o]] = [sock[fd[o]] EXCEPT !.shut = TRUE]
      /\ \A f \in Fd : f # fd[o] => sock'[f] = sock[f]
  BY <1>1 DEF IoInv, IoType
<1>3. /\ DOMAIN sock'[fd[o]] = SocketFields
      /\ sock'[fd[o]].open = sock[fd[o]].open /\ sock'[fd[o]].failed = sock[fd[o]].failed
      /\ sock'[fd[o]].shut = TRUE
  BY <1>1, <1>2 DEF IoInv, IoType, SocketFields
<1>4. ASSUME NEW f \in Fd
      PROVE  /\ DOMAIN sock'[f] = SocketFields
             /\ sock'[f].open = sock[f].open
             /\ sock'[f].failed = sock[f].failed
             /\ sock'[f].shut \in BOOLEAN
             /\ sock[f].shut => sock'[f].shut
  <2>1. CASE f = fd[o]
    BY <1>3, <2>1
  <2>2. CASE f # fd[o]
    BY <1>2, <2>2 DEF IoInv, IoType
  <2> QED BY <2>1, <2>2
<1> QED BY <1>2, <1>3, <1>4

(* MarkBroken shuts the socket down after it has set the flag.             *)
LEMMA MarkShutsStep ==
  ASSUME IoInv, MarkBrokenShuts
  PROVE  IoInv'
<1>1. io.pc = "shut" /\ io.obj \in Object /\ io.op # "connect" /\ fd[io.obj] # NoFd
  BY DEF MarkBrokenShuts, IoInv, CallFits, Exchanging
<1>2. /\ sock' = [sock EXCEPT ![fd[io.obj]].shut = TRUE]
      /\ UNCHANGED <<fd, broken, loose, stop>>
  BY DEF MarkBrokenShuts
<1>3. DOMAIN io' = CallFields /\ io'.pc = "idle" /\ io'.op = "none" /\ io'.fd = NoFd
  BY IdleCall DEF MarkBrokenShuts
<1>4. /\ DOMAIN sock' = Fd
      /\ \A f \in Fd : /\ DOMAIN sock'[f] = SocketFields
                       /\ sock'[f].open = sock[f].open
                       /\ sock'[f].failed = sock[f].failed
                       /\ sock'[f].shut \in BOOLEAN
                       /\ sock[f].shut => sock'[f].shut
      /\ sock'[fd[io.obj]].shut
  BY <1>1, <1>2, ShutSocket
<1>5. IoType'
  <2>1. \A f \in Fd : sock'[f].open \in BOOLEAN /\ sock'[f].failed \in BOOLEAN
    BY <1>4 DEF IoInv, IoType
  <2>2. io'.fd \in 0 .. MaxFd
    BY <1>3, IoAssumption DEF NoFd
  <2> QED BY <1>2, <1>3, <1>4, <2>1, <2>2 DEF IoInv, IoType
<1>6. CallFits'
  BY <1>3 DEF CallFits, Exchanging
<1>7. StopFits'
  BY <1>2 DEF IoInv, StopFits
<1>8. Owned'
  BY <1>1, <1>2, <1>3, <1>4 DEF IoInv, Owned, Unshared, Held, Candidate
<1>9. FailedDead'
  BY <1>1, <1>2, <1>3, <1>4 DEF IoInv, IoType, FailedDead, Candidate, Exchanging, NoFd, Fd
<1>10. ShutSeen'
  BY <1>1, <1>2, <1>3, <1>4 DEF IoInv, IoType, ShutSeen, NoShutdown, NoFd, Fd
<1> QED BY <1>5, <1>6, <1>7, <1>8, <1>9, <1>10 DEF IoInv

(* Shutdown sets the flag; only the first caller goes on.                  *)
LEMMA ShutdownStep ==
  ASSUME IoInv, NEW t \in Stopper, NEW o \in Object, Shutdown(t, o)
  PROVE  IoInv'
<1>1. /\ UNCHANGED <<fd, sock, loose, io>>
      /\ broken' \in [Object -> BOOLEAN] /\ broken'[o]
      /\ \A p \in Object : p # o => broken'[p] = broken[p]
  BY DEF Shutdown, IoInv, IoType
<1>2. /\ stop' \in [Stopper -> Object \cup {NoObject}]
      /\ \A u \in Stopper : u # t => stop'[u] = stop[u]
      /\ stop[t] = NoObject
      /\ fd[o] = NoFd \/ broken[o] => stop'[t] = NoObject
      /\ ~(fd[o] = NoFd \/ broken[o]) => stop'[t] = o
  BY DEF Shutdown, IoInv, IoType
<1>3. IoType'
  BY <1>1, <1>2 DEF IoInv, IoType
<1>4. CallFits'
  BY <1>1 DEF IoInv, CallFits, Exchanging
<1>5. StopFits'
  BY <1>1, <1>2 DEF IoInv, IoType, StopFits
<1>6. Owned'
  BY <1>1 DEF IoInv, Owned, Unshared, Held, Candidate
<1>7. FailedDead'
  BY <1>1 DEF IoInv, FailedDead, Candidate, Exchanging
<1>8. ShutSeen'
  BY <1>1, <1>2, IoAssumption DEF IoInv, ShutSeen, NoShutdown
<1> QED BY <1>3, <1>4, <1>5, <1>6, <1>7, <1>8 DEF IoInv

(* That caller shuts the socket down.                                      *)
LEMMA ShutdownShutsStep ==
  ASSUME IoInv, NEW t \in Stopper, ShutdownShuts(t)
  PROVE  IoInv'
<1>1. /\ UNCHANGED <<fd, broken, loose, io>>
      /\ stop' \in [Stopper -> Object \cup {NoObject}]
      /\ \A u \in Stopper : u # t => stop'[u] = stop[u]
      /\ stop'[t] = NoObject
  BY DEF ShutdownShuts, IoInv, IoType
<1>2. stop[t] \in Object /\ fd[stop[t]] # NoFd /\ sock' = [sock EXCEPT ![fd[stop[t]]].shut = TRUE]
  BY DEF ShutdownShuts, IoInv, IoType, StopFits
<1>3. /\ DOMAIN sock' = Fd
      /\ \A f \in Fd : /\ DOMAIN sock'[f] = SocketFields
                       /\ sock'[f].open = sock[f].open
                       /\ sock'[f].failed = sock[f].failed
                       /\ sock'[f].shut \in BOOLEAN
                       /\ sock[f].shut => sock'[f].shut
      /\ sock'[fd[stop[t]]].shut
  BY <1>2, ShutSocket
<1>4. IoType'
  <2>1. \A f \in Fd : sock'[f].open \in BOOLEAN /\ sock'[f].failed \in BOOLEAN
    BY <1>3 DEF IoInv, IoType
  <2> QED BY <1>1, <1>3, <2>1 DEF IoInv, IoType
<1>5. CallFits'
  BY <1>1 DEF IoInv, CallFits, Exchanging
<1>6. StopFits'
  BY <1>1 DEF IoInv, StopFits
<1>7. Owned'
  BY <1>1, <1>3 DEF IoInv, Owned, Unshared, Held, Candidate
<1>8. FailedDead'
  BY <1>1, <1>3 DEF IoInv, IoType, CallFits, FailedDead, Candidate, Exchanging, NoFd, Fd
<1>9. ShutSeen'
  BY <1>1, <1>2, <1>3 DEF IoInv, IoType, ShutSeen, NoShutdown, NoFd, Fd
<1> QED BY <1>4, <1>5, <1>6, <1>7, <1>8, <1>9 DEF IoInv

-----------------------------------------------------------------------------

(* Ownership.  The kernel's table after o has let go of its socket.        *)
LEMMA ReleasedSockets ==
  ASSUME IoInv, NEW o \in Object
  PROVE  /\ DOMAIN Released(o) = Fd
         /\ \A f \in Fd : f # fd[o] => Released(o)[f] = sock[f]
         /\ \A f \in Fd : f = fd[o] => Released(o)[f] = FreeSocket
BY DEF Released, IoInv, IoType, NoFd, Fd

(* Every socket of a table that keeps or frees each one is well formed.    *)
LEMMA SocketsTyped ==
  ASSUME IoInv,
         \A f \in Fd : \/ sock'[f] = sock[f] \/ sock'[f] = FreeSocket
                       \/ \E peer : sock'[f] = NewSocket(peer)
  PROVE  \A f \in Fd : /\ DOMAIN sock'[f] = SocketFields
                       /\ sock'[f].open \in BOOLEAN
                       /\ sock'[f].shut \in BOOLEAN
                       /\ sock'[f].failed \in BOOLEAN
<1> TAKE f \in Fd
<1>1. CASE sock'[f] = sock[f]
  BY <1>1 DEF IoInv, IoType
<1>2. CASE sock'[f] = FreeSocket
  BY <1>2, FreshSocket
<1>3. CASE \E peer : sock'[f] = NewSocket(peer)
  BY <1>3, FreshSocket
<1> QED BY <1>1, <1>2, <1>3

(* Close releases the descriptor of its object.                            *)
LEMMA CloseStep ==
  ASSUME IoInv, NEW o \in Object, Close(o)
  PROVE  IoInv'
<1>1. /\ io.pc = "idle" /\ io.op = "none" /\ io.fd = NoFd /\ NoShutdown(o) /\ fd[o] # NoFd
      /\ UNCHANGED <<loose, io, stop>>
  BY DEF Close, OwnerIdle, IoInv, CallFits
<1>2. /\ fd' \in [Object -> 0 .. MaxFd] /\ fd'[o] = NoFd
      /\ \A p \in Object : p # o => fd'[p] = fd[p]
      /\ broken' \in [Object -> BOOLEAN]
      /\ \A p \in Object : p # o => broken'[p] = broken[p]
  BY IoAssumption DEF Close, IoInv, IoType, NoFd
<1>3. /\ DOMAIN sock' = Fd
      /\ \A f \in Fd : f # fd[o] => sock'[f] = sock[f]
      /\ \A f \in Fd : f = fd[o] => sock'[f] = FreeSocket
  BY ReleasedSockets DEF Close
<1>4. IoType'
  BY <1>1, <1>2, <1>3, SocketsTyped DEF IoInv, IoType
<1>5. CallFits'
  BY <1>1 DEF IoInv, CallFits, Exchanging
<1>6. StopFits'
  BY <1>1, <1>2 DEF IoInv, IoType, StopFits, NoShutdown
<1>7. Owned'
  <2>1. Unshared'
    BY <1>1, <1>2 DEF IoInv, Owned, Unshared, Candidate
  <2>2. ASSUME NEW f \in Fd PROVE sock'[f].open <=> Held(f)'
    <3>1. CASE f = fd[o]
      <4>1. ~Held(f)'
        BY <1>1, <1>2, <3>1 DEF IoInv, Owned, Unshared, Held, Candidate, NoFd, Fd
      <4> QED BY <1>3, <3>1, <4>1, FreshSocket
    <3>2. CASE f # fd[o]
      <4>1. Held(f)' <=> Held(f)
        BY <1>1, <1>2, <3>2 DEF Held, Candidate, NoFd, Fd
      <4> QED BY <1>3, <3>2, <4>1 DEF IoInv, Owned
    <3> QED BY <3>1, <3>2
  <2> QED BY <2>1, <2>2 DEF Owned
<1>8. FailedDead'
  <2>1. \A p \in Object : fd'[p] # NoFd => p # o /\ fd[p] \in Fd /\ fd[p] # fd[o]
    BY <1>1, <1>2 DEF IoInv, IoType, Owned, Unshared, NoFd, Fd
  <2>2. \A p \in Object : fd'[p] # NoFd /\ sock'[fd'[p]].failed => broken'[p]
    BY <1>1, <1>2, <1>3, <2>1 DEF IoInv, FailedDead
  <2>3. \A f \in Fd : f \in loose' \/ Candidate(f)' => ~sock'[f].failed
    BY <1>1, <1>3, FreshSocket DEF IoInv, FailedDead, Candidate
  <2> QED BY <1>1, <2>2, <2>3 DEF FailedDead, Exchanging
<1>9. ShutSeen'
  BY <1>1, <1>2, <1>3, FreshSocket DEF IoInv, IoType, Owned, Unshared, ShutSeen, NoShutdown, NoFd, Fd
<1> QED BY <1>4, <1>5, <1>6, <1>7, <1>8, <1>9 DEF IoInv

(* Move assignment releases one descriptor and hands over the other.       *)
LEMMA MoveStep ==
  ASSUME IoInv, NEW o \in Object, NEW p \in Object, Move(o, p)
  PROVE  IoInv'
<1>1. /\ io.pc = "idle" /\ io.op = "none" /\ io.fd = NoFd /\ NoShutdown(o) /\ NoShutdown(p)
      /\ o # p /\ UNCHANGED <<loose, io, stop>>
  BY DEF Move, OwnerIdle, IoInv, CallFits
<1>2. /\ fd' \in [Object -> 0 .. MaxFd] /\ fd'[o] = fd[p] /\ fd'[p] = NoFd
      /\ \A q \in Object : q # o /\ q # p => fd'[q] = fd[q]
  BY <1>1, IoAssumption DEF Move, IoInv, IoType, NoFd
<1>3. /\ broken' \in [Object -> BOOLEAN] /\ broken'[o] = broken[p]
      /\ \A q \in Object : q # o /\ q # p => broken'[q] = broken[q]
  BY <1>1 DEF Move, IoInv, IoType
<1>4. /\ DOMAIN sock' = Fd
      /\ \A f \in Fd : f # fd[o] => sock'[f] = sock[f]
      /\ \A f \in Fd : f = fd[o] => sock'[f] = FreeSocket
  BY ReleasedSockets DEF Move
<1>5. IoType'
  BY <1>1, <1>2, <1>3, <1>4, SocketsTyped DEF IoInv, IoType
<1>6. CallFits'
  BY <1>1 DEF IoInv, CallFits, Exchanging
<1>7. StopFits'
  BY <1>1, <1>2, <1>3 DEF IoInv, IoType, StopFits, NoShutdown
<1>8. Owned'
  <2>1. Unshared'
    BY <1>1, <1>2 DEF IoInv, Owned, Unshared, Candidate
  <2>2. ASSUME NEW f \in Fd PROVE sock'[f].open <=> Held(f)'
    <3>1. CASE f = fd[o]
      <4>1. ~Held(f)'
        BY <1>1, <1>2, <3>1 DEF IoInv, Owned, Unshared, Held, Candidate, NoFd, Fd
      <4> QED BY <1>4, <3>1, <4>1, FreshSocket
    <3>2. CASE f # fd[o]
      <4>1. Held(f)' <=> Held(f)
        BY <1>1, <1>2, <3>2 DEF Held, Candidate, NoFd, Fd
      <4> QED BY <1>4, <3>2, <4>1 DEF IoInv, Owned
    <3> QED BY <3>1, <3>2
  <2> QED BY <2>1, <2>2 DEF Owned
<1>9. \A q \in Object : fd'[q] # NoFd =>
        \E r \in Object : /\ fd'[q] = fd[r] /\ broken'[q] = broken[r]
                          /\ NoShutdown(q)' => NoShutdown(r)
                          /\ fd[r] # fd[o]
  <2> SUFFICES ASSUME NEW q \in Object, fd'[q] # NoFd
               PROVE  \E r \in Object : /\ fd'[q] = fd[r] /\ broken'[q] = broken[r]
                                        /\ NoShutdown(q)' => NoShutdown(r)
                                        /\ fd[r] # fd[o]
    OBVIOUS
  <2>1. CASE q = o
    BY <1>1, <1>2, <1>3, <2>1 DEF IoInv, Owned, Unshared
  <2>2. CASE q # o
    BY <1>1, <1>2, <1>3, <2>2 DEF IoInv, Owned, Unshared, NoShutdown
  <2> QED BY <2>1, <2>2
<1>10. \A q \in Object : fd'[q] # NoFd => fd'[q] \in Fd
  BY <1>2 DEF NoFd, Fd
<1>11. FailedDead'
  <2>1. ASSUME NEW q \in Object, fd'[q] # NoFd, sock'[fd'[q]].failed PROVE broken'[q]
    <3>1. PICK r \in Object : fd'[q] = fd[r] /\ broken'[q] = broken[r] /\ fd[r] # fd[o]
      BY <1>9, <2>1 DEF NoShutdown
    <3>2. sock'[fd'[q]] = sock[fd[r]] /\ fd[r] # NoFd
      BY <1>4, <1>10, <2>1, <3>1
    <3>3. broken[r]
      BY <1>1, <2>1, <3>2 DEF IoInv, FailedDead
    <3> QED BY <3>1, <3>3
  <2>2. \A f \in Fd : f \in loose' \/ Candidate(f)' => ~sock'[f].failed
    BY <1>1, <1>4, FreshSocket DEF IoInv, FailedDead, Candidate
  <2> QED BY <1>1, <2>1, <2>2 DEF FailedDead, Exchanging
<1>12. ShutSeen'
  <2> SUFFICES ASSUME NEW q \in Object, broken'[q], fd'[q] # NoFd, NoShutdown(q)'
               PROVE  sock'[fd'[q]].shut
    BY DEF ShutSeen
  <2>1. PICK r \in Object : /\ fd'[q] = fd[r] /\ broken'[q] = broken[r]
                            /\ NoShutdown(q)' => NoShutdown(r)
                            /\ fd[r] # fd[o]
    BY <1>9 DEF NoShutdown
  <2>2. sock'[fd'[q]] = sock[fd[r]] /\ fd[r] # NoFd
    BY <1>4, <1>10, <2>1
  <2>3. sock[fd[r]].shut
    BY <1>1, <2>1, <2>2 DEF IoInv, ShutSeen
  <2> QED BY <2>2, <2>3
<1> QED BY <1>5, <1>6, <1>7, <1>8, <1>11, <1>12 DEF IoInv

(* accept, and socket with connect in progress: the kernel opens f, which  *)
(* no one held, and the caller or the running Connect now holds it.        *)
LEMMA OpenStep ==
  ASSUME IoInv, UNCHANGED <<fd, broken, stop>>,
         NEW f \in Fd, ~sock[f].open, NEW peer, sock' = [sock EXCEPT ![f] = NewSocket(peer)],
         \/ io.pc = "idle" /\ io' = io /\ loose = {} /\ loose' = {f}
         \/ io.pc = "candidate" /\ SameStart(f) /\ loose' = loose
  PROVE  IoInv'
<1>1. /\ DOMAIN sock' = Fd /\ sock'[f] = NewSocket(peer)
      /\ \A g \in Fd : g # f => sock'[g] = sock[g]
  BY DEF IoInv, IoType
<1>2. /\ ~Held(f)
      /\ \A o \in Object : fd[o] # f
      /\ \A o \in Object : fd[o] # NoFd => fd[o] \in Fd
  BY DEF IoInv, IoType, Owned, Held, NoFd, Fd
<1>3. DOMAIN io' = CallFields /\ io'.fd \in 0 .. MaxFd /\ f # NoFd
  BY DEF IoInv, IoType, SameStart, Fd, NoFd
<1>4. loose' \subseteq Fd
  BY DEF IoInv, IoType
<1>5. IoType'
  BY <1>1, <1>3, <1>4, SocketsTyped DEF IoInv, IoType
<1>6. CallFits'
  BY <1>3 DEF IoInv, CallFits, Exchanging, SameStart
<1>7. StopFits'
  BY DEF IoInv, StopFits
<1>8. /\ \A g \in Fd : g # f => (Candidate(g)' <=> Candidate(g)) /\ (g \in loose' <=> g \in loose)
      /\ Held(f)'
      /\ \A g \in loose' : ~Candidate(g)'
  BY <1>2, <1>3, <1>4 DEF IoInv, CallFits, IoType, Held, Candidate, SameStart, NoFd, Fd
<1>9. Owned'
  <2>1. Unshared'
    BY <1>2, <1>8 DEF IoInv, Owned, Unshared
  <2>2. ASSUME NEW g \in Fd PROVE sock'[g].open <=> Held(g)'
    <3>1. CASE g = f
      BY <1>1, <1>8, <3>1, FreshSocket
    <3>2. CASE g # f
      BY <1>1, <1>8, <3>2 DEF IoInv, Owned, Held
    <3> QED BY <3>1, <3>2
  <2> QED BY <2>1, <2>2 DEF Owned
<1>10. FailedDead'
  <2>1. \A o \in Object : fd'[o] # NoFd /\ sock'[fd'[o]].failed => broken'[o]
    BY <1>1, <1>2 DEF IoInv, FailedDead
  <2>2. \A g \in Fd : g \in loose' \/ Candidate(g)' => ~sock'[g].failed
    BY <1>1, <1>8, FreshSocket DEF IoInv, FailedDead
  <2> QED BY <2>1, <2>2 DEF IoInv, FailedDead, CallFits, Exchanging, SameStart
<1>11. ShutSeen'
  BY <1>1, <1>2 DEF IoInv, ShutSeen, NoShutdown, SameStart
<1> QED BY <1>5, <1>6, <1>7, <1>9, <1>10, <1>11 DEF IoInv

(* A caller's socket that Adopt refuses is closed.                         *)
LEMMA LooseClosed ==
  ASSUME IoInv, NEW f \in Fd, AdoptFails(f)
  PROVE  IoInv'
<1>1. /\ io.pc = "idle" /\ io.op = "none" /\ io.fd = NoFd /\ f \in loose
      /\ loose' = loose \ {f} /\ UNCHANGED <<fd, broken, io, stop>>
  BY DEF AdoptFails, OwnerIdle, IoInv, CallFits
<1>2. /\ DOMAIN sock' = Fd /\ sock'[f] = FreeSocket
      /\ \A g \in Fd : g # f => sock'[g] = sock[g]
  BY DEF AdoptFails, IoInv, IoType
<1>3. \A o \in Object : fd[o] # f /\ (fd[o] # NoFd => fd[o] \in Fd)
  BY <1>1 DEF IoInv, IoType, Owned, Unshared, NoFd, Fd
<1>4. IoType'
  BY <1>1, <1>2, SocketsTyped DEF IoInv, IoType
<1>5. CallFits' /\ StopFits'
  BY <1>1 DEF IoInv, CallFits, Exchanging, StopFits
<1>6. Owned'
  <2>1. Unshared'
    BY <1>1 DEF IoInv, Owned, Unshared, Candidate
  <2>2. ASSUME NEW g \in Fd PROVE sock'[g].open <=> Held(g)'
    <3>1. CASE g = f
      <4>1. ~Held(g)'
        BY <1>1, <1>3, <3>1 DEF Held, Candidate
      <4> QED BY <1>2, <3>1, <4>1, FreshSocket
    <3>2. CASE g # f
      <4>1. Held(g)' <=> Held(g)
        BY <1>1, <3>2 DEF Held, Candidate
      <4> QED BY <1>2, <3>2, <4>1 DEF IoInv, Owned
    <3> QED BY <3>1, <3>2
  <2> QED BY <2>1, <2>2 DEF Owned
<1>7. FailedDead'
  <2>1. \A o \in Object : fd'[o] # NoFd /\ sock'[fd'[o]].failed => broken'[o]
    BY <1>1, <1>2, <1>3 DEF IoInv, FailedDead
  <2>2. \A g \in Fd : g \in loose' \/ Candidate(g)' => ~sock'[g].failed
    BY <1>1, <1>2, FreshSocket DEF IoInv, FailedDead, Candidate
  <2> QED BY <1>1, <2>1, <2>2 DEF FailedDead, Exchanging
<1>8. ShutSeen'
  BY <1>1, <1>2, <1>3 DEF IoInv, ShutSeen, NoShutdown
<1> QED BY <1>4, <1>5, <1>6, <1>7, <1>8 DEF IoInv

(* No object and no other candidate holds f, and no read or write runs.    *)
Spare(f) ==
  /\ \A p \in Object : fd[p] # f
  /\ \A g \in Fd : g # f => ~Candidate(g)
  /\ io.pc \notin {"mark", "shut"}

(* The kernel's table: o has let go of its socket and f is open.           *)
Table(o, f) ==
  /\ DOMAIN sock' = Fd /\ sock'[f].open /\ ~sock'[f].failed
  /\ sock'[f] = sock[f] \/ \E peer : sock'[f] = NewSocket(peer)
  /\ \A g \in Fd : /\ g # fd[o] /\ g # f => sock'[g] = sock[g]
                   /\ g = fd[o] => sock'[g] = FreeSocket

(* The call returns.                                                       *)
CallOver == DOMAIN io' = CallFields /\ io'.pc = "idle" /\ io'.op = "none" /\ io'.fd = NoFd

(* A fresh connection over f is moved into o, which lets go of its own.    *)
LEMMA InstallStep ==
  ASSUME IoInv, NEW o \in Object, NoShutdown(o), NEW f \in Fd, Install(o, f), stop' = stop,
         Spare(f), Table(o, f), loose' = loose \ {f}, CallOver
  PROVE  IoInv'
<1>1. DOMAIN io' = CallFields /\ io'.pc = "idle" /\ io'.op = "none" /\ io'.fd = NoFd
  BY DEF CallOver
<1>2. /\ fd' \in [Object -> 0 .. MaxFd] /\ fd'[o] = f
      /\ \A p \in Object : p # o => fd'[p] = fd[p]
      /\ broken' \in [Object -> BOOLEAN] /\ broken'[o] = FALSE
      /\ \A p \in Object : p # o => broken'[p] = broken[p]
  BY DEF Install, IoInv, IoType, Fd
<1>3. IoType'
  <2>1. io'.fd \in 0 .. MaxFd
    BY <1>1, NoFdTyped
  <2>2. \A g \in Fd : \/ sock'[g] = sock[g] \/ sock'[g] = FreeSocket
                      \/ \E peer : sock'[g] = NewSocket(peer)
    BY DEF Table
  <2> QED BY <1>1, <1>2, <2>1, <2>2, SocketsTyped DEF IoInv, IoType, Table
<1>4. CallFits'
  BY <1>1 DEF CallFits, Exchanging
<1>5. StopFits'
  BY <1>2 DEF IoInv, IoType, StopFits, NoShutdown
<1>6. \A g \in Fd : ~Candidate(g)'
  BY <1>1 DEF Candidate
<1>7. Owned'
  <2>1. Unshared'
    <3>1. \A p, q \in Object : fd'[p] = fd'[q] /\ fd'[p] # NoFd => p = q
      BY <1>2 DEF IoInv, Owned, Unshared, Spare
    <3>2. \A p \in Object : fd'[p] # NoFd => fd'[p] \in Fd
      BY <1>2 DEF NoFd, Fd
    <3>3. \A p \in Object : fd'[p] # NoFd => fd'[p] \notin loose'
      BY <1>2 DEF IoInv, Owned, Unshared
    <3>4. loose' \subseteq Fd
      BY DEF IoInv, IoType
    <3> QED BY <1>6, <3>1, <3>2, <3>3, <3>4 DEF Unshared
  <2>2. ASSUME NEW g \in Fd PROVE sock'[g].open <=> Held(g)'
    <3>1. CASE g = f
      BY <1>2, <3>1 DEF Held, Table
    <3>2. CASE g # f /\ g = fd[o]
      <4>1. g # NoFd /\ g \notin loose
        BY <3>2 DEF IoInv, Owned, Unshared, NoFd, Fd
      <4>2. \A p \in Object : fd'[p] # g
        BY <1>2, <3>2, <4>1 DEF IoInv, Owned, Unshared
      <4>3. ~Held(g)'
        BY <1>6, <4>1, <4>2 DEF Held
      <4> QED BY <3>2, <4>3, FreshSocket DEF Table
    <3>3. CASE g # f /\ g # fd[o]
      <4>1. Held(g)' <=> Held(g)
        BY <1>2, <1>6, <3>3 DEF Held, Spare
      <4> QED BY <3>3, <4>1 DEF IoInv, Owned, Table
    <3> QED BY <3>1, <3>2, <3>3
  <2> QED BY <2>1, <2>2 DEF Owned
<1>8. \A p \in Object : p # o /\ fd'[p] # NoFd =>
        fd'[p] \in Fd /\ fd'[p] = fd[p] /\ fd[p] # f /\ fd[p] # fd[o]
  <2> SUFFICES ASSUME NEW p \in Object, p # o, fd'[p] # NoFd
               PROVE  fd'[p] \in Fd /\ fd'[p] = fd[p] /\ fd[p] # f /\ fd[p] # fd[o]
    OBVIOUS
  <2>1. fd'[p] = fd[p]
    BY <1>2
  <2>2. fd[p] \in Fd
    BY <2>1 DEF IoInv, IoType, NoFd, Fd
  <2>3. fd[p] # fd[o]
    BY <2>1 DEF IoInv, Owned, Unshared
  <2>4. fd[p] # f
    BY DEF Spare
  <2> QED BY <2>1, <2>2, <2>3, <2>4
<1>9. FailedDead'
  <2>1. \A p \in Object : fd'[p] # NoFd /\ sock'[fd'[p]].failed => broken'[p]
    BY <1>2, <1>8 DEF IoInv, FailedDead, Spare, Table
  <2>2. \A g \in Fd : g \in loose' \/ Candidate(g)' => ~sock'[g].failed
    BY <1>6, FreshSocket DEF IoInv, FailedDead, Table
  <2> QED BY <1>1, <2>1, <2>2 DEF FailedDead, Exchanging
<1>10. ShutSeen'
  <2> SUFFICES ASSUME NEW p \in Object, broken'[p], fd'[p] # NoFd, NoShutdown(p)'
               PROVE  sock'[fd'[p]].shut
    BY DEF ShutSeen
  <2>1. p # o
    BY <1>2
  <2>2. fd'[p] = fd[p] /\ sock'[fd[p]] = sock[fd[p]]
    BY <1>8, <2>1 DEF Table
  <2>3. broken[p] /\ NoShutdown(p)
    BY <1>2, <2>1 DEF NoShutdown
  <2>4. io.pc # "shut"
    BY DEF Spare
  <2> QED BY <2>2, <2>3, <2>4 DEF IoInv, ShutSeen
<1> QED BY <1>3, <1>4, <1>5, <1>7, <1>9, <1>10 DEF IoInv

-----------------------------------------------------------------------------
(* Every step keeps the invariant.                                         *)

(* A descriptor in use, and what a loose one or a candidate is not.        *)
LEMMA FdInUse ==
  ASSUME IoInv
  PROVE  /\ \A o \in Object : fd[o] # NoFd => fd[o] \in Fd
         /\ io.fd # NoFd => io.fd \in Fd
         /\ \A f \in loose : sock[f].open /\ \A o \in Object : fd[o] # f
         /\ io.op = "connect" /\ io.fd # NoFd =>
              sock[io.fd].open /\ \A o \in Object : fd[o] # io.fd
<1>1. /\ \A o \in Object : fd[o] # NoFd => fd[o] \in Fd
      /\ io.fd # NoFd => io.fd \in Fd
      /\ loose \subseteq Fd /\ NoFd \notin Fd
  BY DEF IoInv, IoType, NoFd, Fd
<1> QED BY <1>1 DEF IoInv, Owned, Unshared, Held, Candidate

(* The calls of the owner on a connection that are not under way yet.      *)
LEMMA OwnershipKeepsInv ==
  ASSUME IoInv,
         \/ \E o \in Object : Close(o) \/ \E p \in Object : Move(o, p)
         \/ Accept \/ \E f \in Fd : AdoptFails(f) \/ \E o \in Object : AdoptConnectedSocket(o, f)
  PROVE  IoInv'
<1>1. CASE \E o \in Object : Close(o) \/ \E p \in Object : Move(o, p)
  BY <1>1, CloseStep, MoveStep
<1>2. CASE Accept
  <2>1. LowestFree \in Fd /\ ~sock[LowestFree].open
    BY <1>2, LowestIsFree DEF Accept
  <2> QED BY <1>2, <2>1, OpenStep DEF Accept, OwnerIdle
<1>3. ASSUME NEW f \in Fd, AdoptFails(f) PROVE IoInv'
  BY <1>3, LooseClosed
<1>4. ASSUME NEW f \in Fd, NEW o \in Object, AdoptConnectedSocket(o, f) PROVE IoInv'
  <2>1. /\ io.pc = "idle" /\ io.op = "none" /\ io.fd = NoFd /\ NoShutdown(o) /\ f \in loose
        /\ Install(o, f) /\ loose' = loose \ {f} /\ UNCHANGED <<io, stop>>
        /\ sock' = Released(o)
    BY <1>4 DEF AdoptConnectedSocket, OwnerIdle, IoInv, CallFits
  <2>2. sock[f].open /\ ~sock[f].failed /\ \A p \in Object : fd[p] # f
    BY <2>1, FdInUse DEF IoInv, FailedDead
  <2>3. /\ DOMAIN sock' = Fd /\ sock'[f] = sock[f]
        /\ \A g \in Fd : /\ g # fd[o] /\ g # f => sock'[g] = sock[g]
                         /\ g = fd[o] => sock'[g] = FreeSocket
    BY <2>1, <2>2, ReleasedSockets
  <2>4. Spare(f) /\ Table(o, f)
    BY <2>1, <2>2, <2>3 DEF Spare, Table, Candidate
  <2>5. CallOver
    BY <2>1 DEF CallOver, IoInv, IoType
  <2> QED BY <2>1, <2>4, <2>5, InstallStep
<1> QED BY <1>1, <1>2, <1>3, <1>4

(* The steps of a Connect.                                                 *)
LEMMA ConnectKeepsInv ==
  ASSUME IoInv,
         \/ \E o \in Object, ms \in Timeout : ConnectBegin(o, ms)
         \/ ConnectGivesUp \/ CandidateFails \/ CandidateInProgress \/ CandidateAtOnce
         \/ CandidateConnected \/ CandidateRefused
  PROVE  IoInv'
<1>1. ASSUME NEW o \in Object, NEW ms \in Timeout, ConnectBegin(o, ms) PROVE IoInv'
  <2>1. /\ DOMAIN io' = CallFields /\ io'.obj = o /\ io.pc = "idle"
        /\ io'.pc = "candidate" /\ io'.op = "connect" /\ io'.fd = NoFd
    BY <1>1 DEF ConnectBegin, IdleIo, CallFields, OwnerIdle
  <2> QED BY <1>1, <2>1, BeginStep DEF ConnectBegin
<1>2. CASE ConnectGivesUp
  BY <1>2, ReturnStep DEF ConnectGivesUp
<1>3. ASSUME io.pc = "candidate"
      PROVE  io.obj \in Object /\ io.op = "connect" /\ io.fd = NoFd
  BY <1>3 DEF IoInv, CallFits
<1>4. CASE CandidateFails
  <2>1. io.pc = "candidate" /\ UNCHANGED <<fd, broken, sock, loose, stop>>
    BY <1>4 DEF CandidateFails
  <2>2. /\ DOMAIN io' = CallFields /\ io'.obj = io.obj
        /\ io'.pc = "candidate" /\ io'.op = io.op /\ io'.fd = NoFd
    BY <1>4 DEF CandidateFails, NextCandidate, IoInv, IoType, CallFields
  <2> QED BY <1>3, <2>1, <2>2, BeginStep
<1>5. CASE CandidateInProgress
  <2>1. LowestFree \in Fd /\ ~sock[LowestFree].open
    BY <1>5, LowestIsFree DEF CandidateInProgress
  <2>2. SameStart(LowestFree)
    BY <1>5 DEF CandidateInProgress, SameStart, IoInv, IoType, CallFields
  <2> QED BY <1>5, <2>1, <2>2, OpenStep DEF CandidateInProgress
<1>6. CASE CandidateAtOnce
  <2> DEFINE f == LowestFree
  <2>1. f \in Fd /\ ~sock[f].open
    BY <1>6, LowestIsFree DEF CandidateAtOnce
  <2>2. \A o \in Object : fd[o] # f
    BY <2>1 DEF IoInv, Owned, Held
  <2>3. f \notin loose
    BY <2>1 DEF IoInv, Owned, Held
  <2>4. /\ io.pc = "candidate" /\ NoShutdown(io.obj) /\ Install(io.obj, f) /\ stop' = stop
        /\ loose' = loose \ {f}
        /\ sock' = [Released(io.obj) EXCEPT ![f] = NewSocket("open")]
    BY <1>6, <2>3 DEF CandidateAtOnce
  <2>5. CallOver
    BY <1>6, IdleCall DEF CandidateAtOnce, CallOver
  <2>6. io.obj \in Object /\ io.fd = NoFd
    BY <1>3, <2>4
  <2> HIDE DEF f
  <2>7. /\ DOMAIN sock' = Fd /\ sock'[f] = NewSocket("open")
        /\ \A g \in Fd : /\ g # fd[io.obj] /\ g # f => sock'[g] = sock[g]
                         /\ g = fd[io.obj] => sock'[g] = FreeSocket
    BY <2>1, <2>2, <2>4, <2>6, ReleasedSockets
  <2>8. sock'[f].open /\ ~sock'[f].failed
    BY <2>7, FreshSocket
  <2>9. Spare(f)
    BY <2>2, <2>4, <2>6 DEF Spare, Candidate, NoFd, Fd
  <2>10. Table(io.obj, f)
    BY <2>7, <2>8 DEF Table
  <2> QED BY <2>1, <2>4, <2>5, <2>6, <2>9, <2>10, InstallStep
<1>7. ASSUME io.pc = "error"
      PROVE  io.obj \in Object /\ io.op = "connect" /\ io.fd # NoFd
  BY <1>7 DEF IoInv, CallFits
<1>8. CASE CandidateConnected
  <2> DEFINE f == io.fd
  <2>1. /\ io.pc = "error" /\ NoShutdown(io.obj) /\ Install(io.obj, f) /\ stop' = stop
        /\ loose' = loose /\ sock' = Released(io.obj)
    BY <1>8 DEF CandidateConnected
  <2>2. io.obj \in Object /\ Candidate(f) /\ f \in Fd
    BY <1>7, <2>1, FdInUse DEF Candidate
  <2>3. /\ sock[f].open /\ ~sock[f].failed /\ loose' = loose \ {f}
        /\ \A o \in Object : fd[o] # f
    BY <1>7, <2>1, <2>2, FdInUse DEF IoInv, Owned, Unshared, FailedDead
  <2>4. CallOver
    BY <1>8, IdleCall DEF CandidateConnected, CallOver
  <2>5. Spare(f)
    BY <2>1, <2>3 DEF Spare, Candidate
  <2> HIDE DEF f
  <2>6. /\ DOMAIN sock' = Fd /\ sock'[f] = sock[f]
        /\ \A g \in Fd : /\ g # fd[io.obj] /\ g # f => sock'[g] = sock[g]
                         /\ g = fd[io.obj] => sock'[g] = FreeSocket
    BY <2>1, <2>2, <2>3, ReleasedSockets
  <2>7. Table(io.obj, f)
    BY <2>3, <2>6 DEF Table
  <2> QED BY <2>1, <2>2, <2>3, <2>4, <2>5, <2>7, InstallStep
<1>9. CASE CandidateRefused
  BY <1>7, <1>9, DropStep DEF CandidateRefused
<1> QED BY <1>1, <1>2, <1>4, <1>5, <1>6, <1>8, <1>9

(* The steps of a read or a write outside poll.                            *)
LEMMA ExchangeKeepsInv ==
  ASSUME IoInv,
         \/ \E o \in Object, ms \in Timeout, op \in {"read", "write"}, n \in 1 .. MaxUnits :
              IoBegin(o, op, n, ms)
         \/ Transfer \/ Interrupted \/ WouldBlock \/ IoFails \/ IoExpires \/ IoReturns
  PROVE  IoInv'
<1>1. ASSUME NEW o \in Object, NEW ms \in Timeout, NEW op \in {"read", "write"},
             NEW n \in 1 .. MaxUnits, IoBegin(o, op, n, ms)
      PROVE  IoInv'
  <2>1. /\ DOMAIN io' = CallFields /\ io'.obj = o /\ io.pc = "idle"
        /\ io'.pc = "run" /\ io'.op = op /\ io'.fd = fd[o] /\ fd[o] # NoFd /\ ~broken[o]
    BY <1>1 DEF IoBegin, IdleIo, CallFields, OwnerIdle
  <2> QED BY <1>1, <2>1, BeginStep DEF IoBegin
<1>2. ASSUME io.pc = "run" PROVE io.op # "connect" /\ io.fd \in Fd
  BY <1>2, FdInUse DEF IoInv, CallFits, Exchanging
<1>3. CASE Transfer
  <2>1. SocketsKeep
    <3>1. \E n : Moved(n) /\ io.pc = "run"
      BY <1>3 DEF Transfer, AtWork
    <3> QED BY <1>2, <3>1 DEF Moved, SocketsKeep, IoInv, IoType, SocketFields
  <2>2. SameCall /\ io'.pc = io.pc
    BY <1>3 DEF Transfer, SameCall, IoInv, IoType, CallFields
  <2> QED BY <1>3, <2>1, <2>2, QuietStep DEF Transfer
<1>4. ASSUME sock' = sock PROVE SocketsKeep
  BY <1>4 DEF SocketsKeep, IoInv, IoType
<1>5. CASE Interrupted
  <2>1. SameCall /\ io'.pc = io.pc
    BY <1>5 DEF Interrupted, SameCall, IoInv, IoType, CallFields
  <2> QED BY <1>4, <1>5, <2>1, QuietStep DEF Interrupted
<1>6. CASE WouldBlock
  <2>1. SameCall /\ io.pc = "run" /\ io'.pc = "ready"
    BY <1>6 DEF WouldBlock, AtWork, SameCall, IoInv, IoType, CallFields
  <2> QED BY <1>4, <1>6, <2>1, QuietStep DEF WouldBlock
<1>7. CASE IoFails
  BY <1>2, <1>7, FailStep DEF IoFails, AtWork
<1>8. CASE IoExpires
  BY <1>2, <1>8, FailStep DEF IoExpires
<1>9. CASE IoReturns
  BY <1>9, ReturnStep DEF IoReturns
<1> QED BY <1>1, <1>3, <1>5, <1>6, <1>7, <1>8, <1>9

(* The steps of PollReady.                                                 *)
LEMMA PollKeepsInv ==
  ASSUME IoInv,
         \/ PollEnter \/ PollSeesBroken \/ PollTimesOut \/ PollInterrupted
         \/ PollReturns \/ PollReturnsError
  PROVE  IoInv'
<1>1. ASSUME sock' = sock PROVE SocketsKeep
  BY <1>1 DEF SocketsKeep, IoInv, IoType
<1>2. CASE PollEnter
  <2>1. SameCall /\ io.pc = "ready" /\ io'.pc = "poll"
    BY <1>2 DEF PollEnter, SameCall, IoInv, IoType, CallFields
  <2> QED BY <1>1, <1>2, <2>1, QuietStep DEF PollEnter
<1>3. CASE PollSeesBroken
  BY <1>3, FailStep DEF PollSeesBroken, SeenBroken
<1>4. ASSUME io.pc = "poll", PollFails(IdleIo) \/ PollFails(NextCandidate),
             UNCHANGED <<fd, broken, loose, stop>>
      PROVE  IoInv'
  <2>1. CASE io.op = "connect"
    BY <1>4, <2>1, DropStep DEF PollFails
  <2>2. CASE io.op # "connect"
    BY <1>4, <2>2, FailStep DEF PollFails
  <2> QED BY <2>1, <2>2
<1>5. CASE PollTimesOut
  BY <1>4, <1>5 DEF PollTimesOut
<1>6. CASE PollReturnsError
  BY <1>4, <1>6 DEF PollReturnsError
<1>7. CASE PollInterrupted
  <2>1. SameCall /\ io.pc = "poll" /\ io'.pc = "ready"
    BY <1>7 DEF PollInterrupted, SameCall, IoInv, IoType, CallFields
  <2> QED BY <1>1, <1>7, <2>1, QuietStep DEF PollInterrupted
<1>8. CASE PollReturns
  <2>1. /\ SameCall /\ io.pc = "poll"
        /\ io'.pc = IF io.op = "connect" THEN "error" ELSE "run"
    BY <1>8 DEF PollReturns, SameCall, IoInv, IoType, CallFields
  <2> QED BY <1>1, <1>8, <2>1, QuietStep DEF PollReturns
<1> QED BY <1>2, <1>3, <1>5, <1>6, <1>7, <1>8

(* The clock and the other end.                                            *)
LEMMA WorldKeepsInv ==
  ASSUME IoInv, Tick \/ \E f \in Fd : PeerActs(f)
  PROVE  IoInv'
<1>1. CASE Tick
  <2>1. SameCall /\ io'.pc = io.pc
    BY <1>1 DEF Tick, SameCall, IoInv, IoType, CallFields
  <2>2. SocketsKeep
    BY <1>1 DEF Tick, SocketsKeep, IoInv, IoType
  <2> QED BY <1>1, <2>1, <2>2, QuietStep DEF Tick
<1>2. ASSUME NEW f \in Fd, PeerActs(f) PROVE IoInv'
  <2>1. SocketsKeep
    BY <1>2 DEF PeerActs, SocketsKeep, IoInv, IoType, SocketFields
  <2>2. SameCall /\ io'.pc = io.pc
    BY <1>2 DEF PeerActs, SameCall, IoInv, IoType
  <2> QED BY <1>2, <2>1, <2>2, QuietStep DEF PeerActs
<1> QED BY <1>1, <1>2

(* A stutter keeps the invariant.                                          *)
LEMMA IoStutter ==
  ASSUME IoInv, UNCHANGED ioVars PROVE IoInv'
<1>1. SocketsKeep /\ SameCall /\ io'.pc = io.pc
  BY DEF ioVars, SocketsKeep, SameCall, IoInv, IoType
<1> QED BY <1>1, QuietStep DEF ioVars

(* All objects closed, no call under way.                                  *)
LEMMA IoInvInit == IoInit => IoInv
<1> SUFFICES ASSUME IoInit PROVE IoInv
  OBVIOUS
<1>1. \A f \in Fd : sock[f] = FreeSocket
  BY DEF IoInit
<1>2. io.pc = "idle" /\ io.op = "none" /\ io.fd = NoFd /\ DOMAIN io = CallFields
  BY IdleCall DEF IoInit
<1>3. NoFd \in 0 .. MaxFd /\ NoFd \notin Fd
  BY IoAssumption DEF NoFd, Fd
<1>4. IoType
  BY <1>1, <1>2, <1>3, FreshSocket DEF IoInit, IoType
<1>5. CallFits /\ StopFits
  BY <1>2 DEF IoInit, CallFits, StopFits, Exchanging
<1>6. Owned
  BY <1>1, <1>2, <1>3, FreshSocket DEF IoInit, Owned, Unshared, Held, Candidate
<1>7. FailedDead /\ ShutSeen
  BY <1>1, <1>2, <1>3, FreshSocket DEF IoInit, FailedDead, ShutSeen, Candidate, Exchanging
<1> QED BY <1>4, <1>5, <1>6, <1>7 DEF IoInv

(* Every action keeps the invariant.                                       *)
LEMMA IoInvStep == IoInv /\ [IoNext]_ioVars => IoInv'
<1> SUFFICES ASSUME IoInv, [IoNext]_ioVars PROVE IoInv'
  OBVIOUS
<1>1. CASE UNCHANGED ioVars
  BY <1>1, IoStutter
<1>2. CASE IoContinue
  BY <1>2, ConnectKeepsInv, ExchangeKeepsInv, PollKeepsInv, MarkStep, MarkShutsStep DEF IoContinue
<1>3. CASE \E t \in Stopper : ShutdownShuts(t) \/ \E o \in Object : Shutdown(t, o)
  BY <1>3, ShutdownStep, ShutdownShutsStep
<1>4. CASE \E o \in Object, ms \in Timeout :
             \/ ConnectBegin(o, ms)
             \/ \E op \in {"read", "write"}, n \in 1 .. MaxUnits : IoBegin(o, op, n, ms)
  BY <1>4, ConnectKeepsInv, ExchangeKeepsInv
<1> QED BY <1>1, <1>2, <1>3, <1>4, OwnershipKeepsInv, WorldKeepsInv DEF IoNext

(* IoInv is an invariant of the connection.                                *)
THEOREM IoInvariant == IoSpec => []IoInv
BY IoInvInit, IoInvStep, PTL DEF IoSpec

-----------------------------------------------------------------------------
(* What IoInv says of each property in one state or one step.              *)

(* Holders, counted, are the owner that Owned names.                       *)
LEMMA InvHasOneOwner == IoInv => OneOwnerPerFd
<1> SUFFICES ASSUME IoInv, NEW f \in Fd PROVE Holders(f) = IF sock[f].open THEN 1 ELSE 0
  BY DEF OneOwnerPerFd
<1> DEFINE S == {o \in Object : fd[o] = f}
<1>1. f # NoFd /\ (sock[f].open <=> Held(f))
  BY DEF IoInv, Owned, NoFd, Fd
<1>2. CASE \E o \in Object : fd[o] = f
  <2>1. PICK o \in Object : fd[o] = f
    BY <1>2
  <2>2. S = {o}
    BY <1>1, <2>1 DEF IoInv, Owned, Unshared
  <2>3. Cardinality(S) = 1
    BY <2>2, FS_Singleton
  <2>4. f \notin loose /\ ~(io.op = "connect" /\ io.fd = f)
    BY <1>1, <2>1 DEF IoInv, Owned, Unshared, Candidate
  <2>5. sock[f].open
    BY <1>1, <1>2 DEF Held
  <2> HIDE DEF S
  <2>6. Holders(f) = Cardinality(S) + 0 + 0
    BY <2>4 DEF Holders, S
  <2> QED BY <2>3, <2>5, <2>6
<1>3. CASE ~\E o \in Object : fd[o] = f
  <2>1. S = {}
    BY <1>3
  <2>2. Cardinality(S) = 0
    BY <2>1, FS_EmptySet
  <2>3. ~(f \in loose /\ io.op = "connect" /\ io.fd = f)
    BY DEF IoInv, Owned, Unshared, Candidate
  <2>4. sock[f].open <=> f \in loose \/ (io.op = "connect" /\ io.fd = f)
    BY <1>1, <1>3 DEF Held, Candidate
  <2> HIDE DEF S
  <2>5. Holders(f) = Cardinality(S) + (IF f \in loose THEN 1 ELSE 0)
                       + (IF io.op = "connect" /\ io.fd = f THEN 1 ELSE 0)
    BY DEF Holders, S
  <2> QED BY <2>2, <2>3, <2>4, <2>5
<1> QED BY <1>2, <1>3

(* A blocked call on a broken connection sees the shutdown of its socket.  *)
LEMMA InvWakes == IoInv => ShutdownWakes
<1> SUFFICES ASSUME IoInv, io.pc = "poll", SeenBroken, NoShutdown(io.obj) PROVE PollEvent
  BY DEF ShutdownWakes
<1>1. io.op # "connect" /\ broken[io.obj] /\ io.obj \in Object
  BY DEF SeenBroken, IoInv, CallFits
<1>2. io.fd = fd[io.obj] /\ io.fd # NoFd
  BY <1>1 DEF IoInv, CallFits, Exchanging
<1>3. sock[io.fd].shut
  BY <1>1, <1>2 DEF IoInv, ShutSeen
<1> QED BY <1>1, <1>3 DEF PollEvent, Finished, Socket

(* recv and send move units of sockets that have not failed.               *)
LEMMA InvTransfersLive == IoInv /\ Transfer => ~Socket.failed
<1> SUFFICES ASSUME IoInv, Transfer PROVE ~Socket.failed
  OBVIOUS
<1>1. io.pc = "run"
  BY DEF Transfer, AtWork
<1>2. Exchanging
  BY <1>1 DEF IoInv, CallFits, Exchanging
<1> QED BY <1>1, <1>2 DEF IoInv, FailedDead, Socket

(* Descriptors neither leak nor are shared, however many objects are moved,*)
(* adopted, connected and closed, and whatever fails on the way.           *)
THEOREM OneOwnerAlways == IoSpec => []OneOwnerPerFd
BY IoInvariant, InvHasOneOwner, PTL

(* Any number of threads may call Shutdown: none of their wakeups is lost. *)
THEOREM ShutdownWakesAlways == IoSpec => []ShutdownWakes
BY IoInvariant, InvWakes, PTL

(* No unit is exchanged over a socket on which an earlier call failed.     *)
THEOREM FailedStreamStaysDead == IoSpec => FailedStreamIsDead
<1>1. IoInv => [Transfer => ~Socket.failed]_ioVars
  BY InvTransfersLive
<1> QED BY <1>1, IoInvariant, PTL DEF FailedStreamIsDead

-----------------------------------------------------------------------------
(* Deadlines.                                                              *)

(* Rounding up to whole milliseconds.                                      *)
LEMMA RoundedUp ==
  ASSUME NEW x \in Nat, NEW t \in Nat \ {0}
  PROVE  LET q == (x + t - 1) \div t
         IN  q \in Nat /\ x <= q * t /\ q * t < x + t
<1> DEFINE y == x + t - 1
           q == y \div t
           r == y % t
<1>1. y \in Nat /\ y = x + t - 1
  OBVIOUS
<1> HIDE DEF y
<1>2. q \in Nat /\ r \in 0 .. t - 1 /\ y = q * t + r
  BY <1>1
<1>3. q * t \in Nat
  BY <1>2
<1> HIDE DEF q, r
<1>4. x <= q * t /\ q * t < x + t
  BY <1>1, <1>2, <1>3
<1> QED BY <1>2, <1>4 DEF q, y

(* The time of a call, its deadline and the end of its wait.               *)
ClockInv ==
  /\ DOMAIN io = CallFields
  /\ io.now \in Nat /\ io.expires \in Nat /\ io.wake \in Nat /\ io.timeout \in Nat
  /\ io.pc # "idle" => io.expires = ExpiresAt(io.timeout)
  /\ io.pc = "poll" =>
       /\ io.wake < io.expires + TicksPerMs \/ io.wake <= io.now
       /\ io.expires <= io.wake \/ io.expires <= io.now \/ io.timeout > IntMax

(* Deadline's constructor returns a time.                                  *)
LEMMA DeadlineTyped ==
  ASSUME NEW ms \in Nat PROVE ExpiresAt(ms) \in Nat
<1>1. ms * TicksPerMs \in Nat
  BY IoAssumption
<1> QED BY <1>1, IoAssumption DEF ExpiresAt

(* A deadline further away than poll can wait belongs to a timeout that    *)
(* does not fit an int.                                                    *)
LEMMA LongDeadline ==
  ASSUME NEW ms \in Nat, IntMax * TicksPerMs < ExpiresAt(ms)
  PROVE  ms > IntMax
<1>1. CASE ms >= TimeMax \div TicksPerMs
  <2>1. TimeMax \div TicksPerMs \in Nat
    BY IoAssumption
  <2> QED BY <1>1, <2>1, IoAssumption
<1>2. CASE ~(ms >= TimeMax \div TicksPerMs)
  <2>1. IntMax * TicksPerMs < ms * TicksPerMs
    BY <1>2 DEF ExpiresAt
  <2>2. ASSUME ms <= IntMax PROVE FALSE
    <3>1. ms * TicksPerMs <= IntMax * TicksPerMs
      BY <2>2, IoAssumption
    <3> QED BY <2>1, <3>1, IoAssumption
  <2> QED BY <2>2, IoAssumption
<1> QED BY <1>1, <1>2

(* PollReady computes how long to wait.                                    *)
LEMMA PollEnterClock ==
  ASSUME ClockInv, PollEnter
  PROVE  ClockInv'
<1> DEFINE ms == PollTimeoutMilliseconds
           d == io.expires - io.now
           q == (d + TicksPerMs - 1) \div TicksPerMs
<1>1. /\ DOMAIN io' = CallFields /\ io'.now = io.now /\ io'.expires = io.expires
      /\ io'.timeout = io.timeout /\ io'.pc = "poll" /\ io'.wake = io.now + ms * TicksPerMs
      /\ io.expires = ExpiresAt(io.timeout)
  BY DEF PollEnter, ClockInv, CallFields
<1>2. CASE Expired
  <2>1. ms = 0
    BY <1>2 DEF PollTimeoutMilliseconds
  <2>2. io'.wake = io.now
    BY <1>1, <2>1, IoAssumption DEF ClockInv
  <2> QED BY <1>1, <1>2, <2>2 DEF ClockInv, Expired
<1>3. CASE ~Expired
  <2>1. d \in Nat /\ io.expires = io.now + d
    BY <1>3 DEF ClockInv, Expired
  <2>2. ms = Lesser(IntMax, q)
    BY <1>3 DEF PollTimeoutMilliseconds
  <2> HIDE DEF d, ms
  <2>3. q \in Nat /\ d <= q * TicksPerMs /\ q * TicksPerMs < d + TicksPerMs
    BY <2>1, RoundedUp, IoAssumption
  <2> HIDE DEF q
  <2>4. CASE IntMax <= q
    <3>1. ms = IntMax
      BY <2>2, <2>4 DEF Lesser
    <3>2. IntMax * TicksPerMs \in Nat /\ IntMax * TicksPerMs <= q * TicksPerMs
      BY <2>3, <2>4, IoAssumption
    <3>3. q * TicksPerMs \in Nat /\ io.now \in Nat /\ TicksPerMs \in Nat
      BY <2>3, IoAssumption DEF ClockInv
    <3>4. io'.wake \in Nat /\ io'.wake < io.expires + TicksPerMs
      BY <1>1, <2>1, <2>3, <3>1, <3>2, <3>3
    <3>5. io.expires <= io'.wake \/ io.timeout > IntMax
      <4>1. CASE d <= IntMax * TicksPerMs
        BY <1>1, <2>1, <3>1, <3>2, <3>3, <4>1
      <4>2. CASE IntMax * TicksPerMs < d
        <5>1. IntMax * TicksPerMs < ExpiresAt(io.timeout)
          BY <1>1, <2>1, <3>2, <3>3, <4>2
        <5> QED BY <5>1, LongDeadline DEF ClockInv
      <4> QED BY <2>1, <3>2, <4>1, <4>2
    <3> QED BY <1>1, <3>4, <3>5 DEF ClockInv
  <2>5. CASE ~(IntMax <= q)
    <3>1. ms = q
      BY <2>2, <2>5 DEF Lesser
    <3>2. q * TicksPerMs \in Nat /\ io.now \in Nat /\ TicksPerMs \in Nat
      BY <2>3, IoAssumption DEF ClockInv
    <3>3. /\ io'.wake \in Nat /\ io'.wake < io.expires + TicksPerMs
          /\ io.expires <= io'.wake
      BY <1>1, <2>1, <2>3, <3>1, <3>2
    <3> QED BY <1>1, <3>3 DEF ClockInv
  <2> QED BY <2>4, <2>5
<1> QED BY <1>2, <1>3

(* A call that goes on keeps its deadline, and its wait while it waits.    *)
ClockKeeps ==
  /\ DOMAIN io' = CallFields /\ io.pc # "idle"
  /\ io'.now = io.now /\ io'.expires = io.expires /\ io'.wake = io.wake
  /\ io'.timeout = io.timeout
  /\ io'.pc = "poll" => io.pc = "poll"

(* Such a step keeps the invariant, and so does the end of a call.         *)
LEMMA ClockKeepsInv ==
  ASSUME ClockInv, ClockKeeps \/ io' = io \/ io' = IdleIo
  PROVE  ClockInv'
<1>1. CASE ClockKeeps
  BY <1>1 DEF ClockInv, ClockKeeps, ExpiresAt
<1>2. CASE io' = io
  BY <1>2 DEF ClockInv, ExpiresAt
<1>3. CASE io' = IdleIo
  <2>1. /\ DOMAIN io' = CallFields /\ io'.pc = "idle" /\ io'.now = 0 /\ io'.expires = 0
        /\ io'.wake = 0 /\ io'.timeout = 0
    BY <1>3 DEF IdleIo, CallFields
  <2> QED BY <2>1 DEF ClockInv
<1> QED BY <1>1, <1>2, <1>3

(* The steps inside a call other than PollEnter.                           *)
LEMMA ContinueClock ==
  ASSUME ClockInv, IoContinue, ~PollEnter
  PROVE  ClockKeeps \/ io' = io \/ io' = IdleIo
<1> USE DEF ClockInv
<1>1. ASSUME io.pc # "idle", io' = NextCandidate PROVE ClockKeeps
  BY <1>1 DEF NextCandidate, ClockKeeps, CallFields
<1>2. ASSUME io.pc # "idle", Fail PROVE ClockKeeps
  BY <1>2 DEF Fail, ClockKeeps, CallFields
<1>3. CASE ConnectGivesUp \/ CandidateAtOnce \/ CandidateConnected \/ IoReturns
           \/ MarkBrokenShuts
  BY <1>3 DEF ConnectGivesUp, CandidateAtOnce, CandidateConnected, IoReturns, MarkBrokenShuts
<1>4. CASE CandidateFails \/ CandidateRefused
  BY <1>1, <1>4 DEF CandidateFails, CandidateRefused
<1>5. CASE CandidateInProgress
  BY <1>5 DEF CandidateInProgress, ClockKeeps, CallFields
<1>6. CASE Transfer
  BY <1>6 DEF Transfer, AtWork, ClockKeeps, CallFields
<1>7. CASE Interrupted \/ WouldBlock
  BY <1>7 DEF Interrupted, WouldBlock, AtWork, ClockKeeps, CallFields
<1>8. CASE IoFails \/ IoExpires \/ PollSeesBroken
  BY <1>2, <1>8 DEF IoFails, IoExpires, PollSeesBroken, AtWork
<1>9. CASE PollTimesOut \/ PollReturnsError
  BY <1>1, <1>2, <1>9 DEF PollTimesOut, PollReturnsError, PollFails
<1>10. CASE PollInterrupted \/ PollReturns
  BY <1>10 DEF PollInterrupted, PollReturns, ClockKeeps, CallFields
<1>11. CASE MarkBroken
  BY <1>11 DEF MarkBroken, ClockKeeps, CallFields
<1> QED BY <1>3, <1>4, <1>5, <1>6, <1>7, <1>8, <1>9, <1>10, <1>11 DEF IoContinue

(* No call is under way at first.                                          *)
LEMMA ClockInit == IoInit => ClockInv
BY IdleCall, IdleTimes DEF IoInit, ClockInv

(* Every action keeps the invariant on times.                              *)
LEMMA ClockStep == ClockInv /\ [IoNext]_ioVars => ClockInv'
<1> SUFFICES ASSUME ClockInv, [IoNext]_ioVars PROVE ClockInv'
  OBVIOUS
<1>1. CASE IoContinue
  BY <1>1, ContinueClock, ClockKeepsInv, PollEnterClock
<1>2. ASSUME NEW o \in Object, NEW ms \in Timeout,
             \/ ConnectBegin(o, ms)
             \/ \E op \in {"read", "write"}, n \in 1 .. MaxUnits : IoBegin(o, op, n, ms)
      PROVE  ClockInv'
  <2> DEFINE Begun == /\ DOMAIN io' = CallFields /\ io'.pc # "poll" /\ io'.now = 0
                      /\ io'.wake = 0 /\ io'.timeout = ms /\ io'.expires = ExpiresAt(ms)
  <2>1. ASSUME ConnectBegin(o, ms) PROVE Begun
    BY <2>1 DEF ConnectBegin, IdleIo, CallFields
  <2>2. ASSUME NEW op \in {"read", "write"}, NEW n \in 1 .. MaxUnits, IoBegin(o, op, n, ms)
        PROVE  Begun
    BY <2>2 DEF IoBegin, IdleIo, CallFields
  <2>3. Begun
    BY <1>2, <2>1, <2>2
  <2> QED BY <2>3, DeadlineTyped, IoAssumption DEF ClockInv, ExpiresAt
<1>3. CASE Tick
  <2>1. /\ DOMAIN io' = CallFields /\ io'.pc = io.pc /\ io'.now = io.now + 1
        /\ io'.wake = io.wake /\ io'.timeout = io.timeout /\ io'.expires = io.expires
    BY <1>3 DEF Tick, ClockInv, CallFields
  <2> QED BY <2>1, IoAssumption DEF ClockInv, ExpiresAt
<1>4. CASE UNCHANGED io
  BY <1>4, ClockKeepsInv
<1>5. ASSUME IoNext, ~IoContinue, ~Tick,
             ~\E o \in Object, ms \in Timeout :
                \/ ConnectBegin(o, ms)
                \/ \E op \in {"read", "write"}, n \in 1 .. MaxUnits : IoBegin(o, op, n, ms)
      PROVE  UNCHANGED io
  BY <1>5 DEF IoNext, Close, Move, Accept, AdoptFails, AdoptConnectedSocket, ShutdownShuts,
              Shutdown, PeerActs
<1> QED BY <1>1, <1>2, <1>3, <1>4, <1>5 DEF ioVars

(* The times of a call are as ClockInv says.                               *)
THEOREM ClockInvariant == IoSpec => []ClockInv
BY ClockInit, ClockStep, PTL DEF IoSpec

(* However many parts, signals and waits a call takes, none of its waits   *)
(* ends later than the rounding allows.                                    *)
THEOREM OneDeadlinePerCall == IoSpec => []WaitsWithinDeadline
<1>1. ClockInv => WaitsWithinDeadline
  BY DEF ClockInv, WaitsWithinDeadline
<1> QED BY <1>1, ClockInvariant, PTL

(* A call whose timeout fits an int does not time out in poll before its   *)
(* deadline.                                                               *)
THEOREM TimeoutsAreNotEarly == IoSpec => NoEarlyTimeout
<1>1. ClockInv => [PollTimesOut => io.now >= io.expires \/ io.timeout > IntMax]_ioVars
  <2> SUFFICES ASSUME ClockInv, PollTimesOut PROVE io.now >= io.expires \/ io.timeout > IntMax
    OBVIOUS
  <2>1. io.pc = "poll" /\ io.now >= io.wake
    BY DEF PollTimesOut
  <2> QED BY <2>1 DEF ClockInv
<1> QED BY <1>1, ClockInvariant, PTL DEF NoEarlyTimeout

-----------------------------------------------------------------------------
(* Parts of a transfer.                                                    *)

(* A call has exchanged a prefix of what it was asked for, in place.       *)
PrefixInv ==
  /\ DOMAIN io = CallFields
  /\ io.want \in 0 .. MaxUnits /\ io.done \in 0 .. io.want
  /\ DOMAIN io.buf = 1 .. MaxUnits
  /\ ExactTransfer

(* A step that leaves request, count and buffer of the call alone.         *)
SameBuffer ==
  DOMAIN io' = CallFields /\ io'.want = io.want /\ io'.done = io.done /\ io'.buf = io.buf

(* Such a step keeps the invariant, and so does the start or the end of a  *)
(* call.                                                                   *)
LEMMA SameBufferKeeps ==
  ASSUME PrefixInv,
         \/ SameBuffer \/ io' = io
         \/ /\ DOMAIN io' = CallFields /\ io'.want \in 0 .. MaxUnits /\ io'.done = 0
            /\ DOMAIN io'.buf = 1 .. MaxUnits
  PROVE  PrefixInv'
<1>1. MaxUnits \in Nat
  BY IoAssumption
<1>2. CASE SameBuffer \/ io' = io
  BY <1>2 DEF PrefixInv, SameBuffer, ExactTransfer
<1>3. CASE /\ DOMAIN io' = CallFields /\ io'.want \in 0 .. MaxUnits /\ io'.done = 0
           /\ DOMAIN io'.buf = 1 .. MaxUnits
  BY <1>1, <1>3 DEF PrefixInv, ExactTransfer
<1> QED BY <1>2, <1>3

(* recv or send moves the next units.                                      *)
LEMMA TransferKeepsPrefix ==
  ASSUME PrefixInv, Transfer
  PROVE  PrefixInv'
<1>1. PICK n \in 1 .. io.want - io.done :
        io' = [io EXCEPT !.done = @ + n, !.first = FALSE,
                 !.buf = [i \in 1 .. MaxUnits |->
                            IF i \in io.done + 1 .. io.done + n THEN i ELSE @[i]]]
  BY DEF Transfer
<1>2. /\ DOMAIN io' = CallFields /\ io'.want = io.want /\ io'.done = io.done + n
      /\ io'.buf = [i \in 1 .. MaxUnits |->
                      IF i \in io.done + 1 .. io.done + n THEN i ELSE io.buf[i]]
  BY <1>1 DEF PrefixInv, CallFields
<1>3. /\ io.want \in Nat /\ io.done \in Nat /\ io.want <= MaxUnits /\ MaxUnits \in Nat
      /\ n \in Nat /\ io.done + n <= io.want
  BY <1>1, IoAssumption DEF PrefixInv
<1>4. ASSUME NEW i \in 1 .. io.done + n PROVE io'.buf[i] = i
  <2>1. i \in 1 .. MaxUnits
    BY <1>3
  <2>2. CASE i \in io.done + 1 .. io.done + n
    BY <1>2, <2>1, <2>2
  <2>3. CASE i \in 1 .. io.done
    <3>1. i \notin io.done + 1 .. io.done + n
      BY <1>3, <2>3
    <3> QED BY <1>2, <2>1, <2>3, <3>1 DEF PrefixInv, ExactTransfer
  <2> QED BY <1>3, <2>2, <2>3
<1> QED BY <1>2, <1>3, <1>4 DEF PrefixInv, ExactTransfer

(* Every action keeps the invariant on the buffer.                         *)
LEMMA PrefixStep == PrefixInv /\ [IoNext]_ioVars => PrefixInv'
<1> SUFFICES ASSUME PrefixInv, [IoNext]_ioVars PROVE PrefixInv'
  OBVIOUS
<1> DEFINE Fresh == /\ DOMAIN io' = CallFields /\ io'.want \in 0 .. MaxUnits /\ io'.done = 0
                    /\ DOMAIN io'.buf = 1 .. MaxUnits
<1>1. ASSUME io' = IdleIo PROVE Fresh
  <2>1. DOMAIN io'.buf = 1 .. MaxUnits BY <1>1, IdleBuffer
  <2> QED BY <1>1, <2>1, IdleCall, IdleBuffer, IoAssumption
<1>2. ASSUME io' = NextCandidate \/ Fail PROVE SameBuffer
  BY <1>2 DEF NextCandidate, Fail, PrefixInv, CallFields, SameBuffer
<1>3. CASE Transfer
  BY <1>3, TransferKeepsPrefix
<1>4. CASE UNCHANGED io
  BY <1>4, SameBufferKeeps
<1>5. ASSUME NEW o \in Object, NEW ms \in Timeout,
             \/ ConnectBegin(o, ms)
             \/ \E op \in {"read", "write"}, n \in 1 .. MaxUnits : IoBegin(o, op, n, ms)
      PROVE  Fresh
  <2>1. ASSUME ConnectBegin(o, ms) PROVE Fresh
    BY <2>1, IoAssumption DEF ConnectBegin, IdleIo, CallFields
  <2>2. ASSUME NEW op \in {"read", "write"}, NEW n \in 1 .. MaxUnits, IoBegin(o, op, n, ms)
        PROVE  Fresh
    <3>1. /\ DOMAIN io' = CallFields /\ io'.want = n /\ io'.done = 0
          /\ io'.buf = [i \in 1 .. MaxUnits |-> 0]
      BY <2>2 DEF IoBegin, IdleIo, CallFields
    <3>2. n \in 0 .. MaxUnits
      BY IoAssumption
    <3> QED BY <3>1, <3>2
  <2> QED BY <1>5, <2>1, <2>2
<1>6. CASE Tick \/ CandidateInProgress \/ Interrupted \/ WouldBlock \/ PollEnter
           \/ PollInterrupted \/ PollReturns
  <2>1. SameBuffer
    BY <1>6 DEF Tick, CandidateInProgress, Interrupted, WouldBlock, PollEnter,
                PollInterrupted, PollReturns, PrefixInv, CallFields, SameBuffer
  <2> QED BY <2>1, SameBufferKeeps
<1>7. CASE MarkBroken
  <2>1. SameBuffer \/ io' = IdleIo
    BY <1>7 DEF MarkBroken, PrefixInv, CallFields, SameBuffer
  <2> QED BY <1>1, <2>1, SameBufferKeeps
<1>8. CASE \/ ConnectGivesUp \/ CandidateAtOnce \/ CandidateConnected \/ IoReturns
           \/ MarkBrokenShuts \/ CandidateFails \/ CandidateRefused
           \/ IoFails \/ IoExpires \/ PollSeesBroken \/ PollTimesOut \/ PollReturnsError
  <2>1. io' = IdleIo \/ io' = NextCandidate \/ Fail
    BY <1>8 DEF ConnectGivesUp, CandidateAtOnce, CandidateConnected, IoReturns,
                MarkBrokenShuts, CandidateFails, CandidateRefused, IoFails, IoExpires,
                PollSeesBroken, PollTimesOut, PollReturnsError, PollFails
  <2> HIDE DEF Fresh
  <2>2. Fresh \/ SameBuffer
    BY <1>1, <1>2, <2>1
  <2> QED BY <2>2, SameBufferKeeps DEF Fresh
<1>9. ASSUME IoNext, ~IoContinue, ~Tick,
             ~\E o \in Object, ms \in Timeout :
                \/ ConnectBegin(o, ms)
                \/ \E op \in {"read", "write"}, n \in 1 .. MaxUnits : IoBegin(o, op, n, ms)
      PROVE  UNCHANGED io
  BY <1>9 DEF IoNext, Close, Move, Accept, AdoptFails, AdoptConnectedSocket, ShutdownShuts,
              Shutdown, PeerActs
<1>10. CASE IoContinue
  BY <1>3, <1>6, <1>7, <1>8, <1>10 DEF IoContinue
<1> QED BY <1>4, <1>5, <1>6, <1>9, <1>10, SameBufferKeeps DEF ioVars

(* However recv and send split a transfer of any length, unit i of the     *)
(* caller's buffer is unit i of the stream.                                *)
THEOREM TransfersExact == IoSpec => []ExactTransfer
<1>1. IoInit => PrefixInv
  <2> SUFFICES ASSUME IoInit PROVE PrefixInv OBVIOUS
  <2>1. io = IdleIo BY DEF IoInit
  <2>2. DOMAIN io.buf = 1 .. MaxUnits BY <2>1, IdleBuffer
  <2>3. io.done = 0 /\ io.want = 0 /\ DOMAIN io = CallFields BY <2>1, IdleBuffer, IdleCall
  <2>4. ExactTransfer BY <2>3 DEF ExactTransfer
  <2> QED BY <2>2, <2>3, <2>4, IoAssumption DEF PrefixInv
<1>2. PrefixInv => ExactTransfer
  BY DEF PrefixInv
<1> QED BY <1>1, <1>2, PrefixStep, PTL DEF IoSpec
=============================================================================
