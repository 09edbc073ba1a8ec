-------------------------- MODULE TcpConnectionIo ---------------------------
(***************************************************************************)
(* TcpConnection objects over the kernel's sockets, byte by byte (a byte   *)
(* is a unit).  One thread owns the objects and calls one operation at a   *)
(* time; other threads may call Shutdown at any moment (tcp_connection.h). *)
(* Program counters of the owner's call:                                   *)
(*   run       at the head of the loop of ReadExact or WriteExact          *)
(*   ready     at the head of the loop of PollReady                        *)
(*   poll      blocked in poll                                             *)
(*   mark      the call fails: before the exchange of MarkBroken           *)
(*   shut      before the shutdown of MarkBroken                           *)
(*   candidate at the head of the loop of Connect                          *)
(*   error     before SO_ERROR is read                                     *)
(***************************************************************************)
EXTENDS Integers, FiniteSets

CONSTANTS
  Object,      \* the TcpConnection objects
  NoObject,
  Stopper,     \* threads that call Shutdown
  MaxFd,       \* descriptors the process may hold
  Timeout,     \* timeouts, in milliseconds
  TicksPerMs,  \* resolution of Clock
  IntMax,      \* INT_MAX
  TimeMax,     \* Clock::time_point::max(), from the start of a call
  MaxNow,      \* bound on the clock
  MaxUnits,    \* bound on the units of a call
  Window,      \* units a socket can buffer, each way
  Addresses    \* bound on the addresses of a host

ASSUME IoAssumption ==
  /\ {MaxFd, TicksPerMs, IntMax, MaxUnits, Window, Addresses} \subseteq Nat \ {0}
  /\ Timeout \subseteq Nat /\ MaxNow \in Nat /\ TimeMax \in Nat /\ MaxNow < TimeMax
  /\ IntMax < TimeMax \div TicksPerMs
  /\ NoObject \notin Object

VARIABLES
  fd,      \* socket_fd_ of each object
  broken,  \* broken_ of each object
  sock,    \* the kernel's sockets (external)
  loose,   \* descriptors a caller holds and has not given to Adopt yet
  io,      \* the call of the owner
  stop     \* the object each other thread is about to shut down

ioVars == <<fd, broken, sock, loose, io, stop>>

Fd == 1 .. MaxFd
NoFd == 0

(* avail and room: what recv and send can move at once.  failed: a read or *)
(* a write on it has failed.                                               *)
FreeSocket == [open |-> FALSE, shut |-> FALSE, peer |-> "none", avail |-> 0,
               room |-> 0, failed |-> FALSE]
NewSocket(peer) == [FreeSocket EXCEPT !.open = TRUE, !.peer = peer, !.room = Window]

(* now: Clock::now(), from the start of the call.                          *)
IdleIo == [pc |-> "idle", op |-> "none", obj |-> NoObject, fd |-> NoFd, want |-> 0,
           done |-> 0, buf |-> [i \in 1 .. MaxUnits |-> 0], first |-> TRUE, left |-> 0,
           timeout |-> 0, now |-> 0, expires |-> 0, wake |-> 0]

IoInit ==
  /\ fd = [o \in Object |-> NoFd]
  /\ broken = [o \in Object |-> TRUE]
  /\ sock = [f \in Fd |-> FreeSocket]
  /\ loose = {}
  /\ io = IdleIo
  /\ stop = [t \in Stopper |-> NoObject]

OwnerIdle == io.pc = "idle"

(* What Close, moves and adoption ask of the caller: no Shutdown call on   *)
(* the object is active.                                                   *)
NoShutdown(o) == \A t \in Stopper : stop[t] # o

FreeFd == {f \in Fd : ~sock[f].open}
LowestFree == CHOOSE f \in FreeFd : \A g \in FreeFd : f <= g
SomeFree == FreeFd # {}

Lesser(a, b) == IF a <= b THEN a ELSE b

-----------------------------------------------------------------------------
(* Deadline.                                                               *)

ExpiresAt(timeout) ==
  IF timeout >= TimeMax \div TicksPerMs THEN TimeMax ELSE timeout * TicksPerMs

Expired == io.now >= io.expires

(* Mutant: the remaining time is rounded down.                             *)
PollTimeoutFloor ==
  IF Expired THEN 0 ELSE Lesser(IntMax, (io.expires - io.now) \div TicksPerMs)

PollTimeoutMilliseconds ==
  IF Expired THEN 0
  ELSE Lesser(IntMax, (io.expires - io.now + TicksPerMs - 1) \div TicksPerMs)

-----------------------------------------------------------------------------
(* Ownership of descriptors.                                               *)

(* The kernel's table without the socket o holds.                          *)
Released(o) == IF fd[o] = NoFd THEN sock ELSE [sock EXCEPT ![fd[o]] = FreeSocket]

Close(o) ==
  /\ OwnerIdle /\ NoShutdown(o) /\ fd[o] # NoFd
  /\ sock' = Released(o)
  /\ fd' = [fd EXCEPT ![o] = NoFd]
  /\ broken' = [broken EXCEPT ![o] = TRUE]
  /\ UNCHANGED <<loose, io, stop>>

(* Mutant: the source keeps its descriptor.                                *)
MoveKeepsSource(o, p) ==
  /\ OwnerIdle /\ NoShutdown(o) /\ NoShutdown(p) /\ o # p
  /\ sock' = Released(o)
  /\ fd' = [fd EXCEPT ![o] = fd[p]]
  /\ broken' = [broken EXCEPT ![o] = broken[p], ![p] = TRUE]
  /\ UNCHANGED <<loose, io, stop>>

(* o = std::move(p); for a closed o, also the move constructor.            *)
Move(o, p) ==
  /\ OwnerIdle /\ NoShutdown(o) /\ NoShutdown(p) /\ o # p
  /\ sock' = Released(o)
  /\ fd' = [fd EXCEPT ![o] = fd[p], ![p] = NoFd]
  /\ broken' = [broken EXCEPT ![o] = broken[p], ![p] = TRUE]
  /\ UNCHANGED <<loose, io, stop>>

(* A connection over f is made and moved into o.                           *)
Install(o, f) ==
  /\ fd' = [fd EXCEPT ![o] = f]
  /\ broken' = [broken EXCEPT ![o] = FALSE]

(* accept, or socketpair, outside TcpConnection (external).                *)
Accept ==
  /\ OwnerIdle /\ SomeFree /\ loose = {}
  /\ sock' = [sock EXCEPT ![LowestFree] = NewSocket("open")]
  /\ loose' = {LowestFree}
  /\ UNCHANGED <<fd, broken, io, stop>>

AdoptConnectedSocket(o, f) ==
  /\ OwnerIdle /\ NoShutdown(o) /\ f \in loose
  /\ sock' = Released(o)
  /\ Install(o, f)
  /\ loose' = loose \ {f}
  /\ UNCHANGED <<io, stop>>

(* Bad options, not a connected stream socket, or fcntl fails.             *)
AdoptFails(f) ==
  /\ OwnerIdle /\ f \in loose
  /\ sock' = [sock EXCEPT ![f] = FreeSocket]
  /\ loose' = loose \ {f}
  /\ UNCHANGED <<fd, broken, io, stop>>

-----------------------------------------------------------------------------
(* Connect: every address in turn, under one deadline.                     *)

ConnectBegin(o, timeout) ==
  /\ OwnerIdle
  /\ \E n \in 0 .. Addresses :
       io' = [IdleIo EXCEPT !.pc = "candidate", !.op = "connect", !.obj = o, !.left = n,
                            !.timeout = timeout, !.expires = ExpiresAt(timeout)]
  /\ UNCHANGED <<fd, broken, sock, loose, stop>>

(* The deadline has passed, or no address is left.                         *)
ConnectGivesUp ==
  /\ io.pc = "candidate" /\ (io.left = 0 \/ Expired)
  /\ io' = IdleIo
  /\ UNCHANGED <<fd, broken, sock, loose, stop>>

NextCandidate == [io EXCEPT !.pc = "candidate", !.fd = NoFd, !.left = @ - 1]

(* No socket, fcntl fails, or connect is refused at once.                  *)
CandidateFails ==
  /\ io.pc = "candidate" /\ io.left > 0 /\ ~Expired
  /\ io' = NextCandidate
  /\ UNCHANGED <<fd, broken, sock, loose, stop>>

CandidateInProgress ==
  /\ io.pc = "candidate" /\ io.left > 0 /\ ~Expired /\ SomeFree
  /\ sock' = [sock EXCEPT ![LowestFree] = NewSocket("pending")]
  /\ io' = [io EXCEPT !.pc = "ready", !.fd = LowestFree]
  /\ UNCHANGED <<fd, broken, loose, stop>>

(* The caller moves the new connection into o, which closes what o held.   *)
CandidateAtOnce ==
  /\ io.pc = "candidate" /\ io.left > 0 /\ ~Expired /\ SomeFree /\ NoShutdown(io.obj)
  /\ sock' = [Released(io.obj) EXCEPT ![LowestFree] = NewSocket("open")]
  /\ Install(io.obj, LowestFree)
  /\ io' = IdleIo
  /\ UNCHANGED <<loose, stop>>

(* SO_ERROR is zero.                                                       *)
CandidateConnected ==
  /\ io.pc = "error" /\ sock[io.fd].peer = "open" /\ NoShutdown(io.obj)
  /\ sock' = Released(io.obj)
  /\ Install(io.obj, io.fd)
  /\ io' = IdleIo
  /\ UNCHANGED <<loose, stop>>

(* It is not, or getsockopt fails.                                         *)
CandidateRefused ==
  /\ io.pc = "error"
  /\ sock' = [sock EXCEPT ![io.fd] = FreeSocket]
  /\ io' = NextCandidate
  /\ UNCHANGED <<fd, broken, loose, stop>>

-----------------------------------------------------------------------------
(* ReadExact and WriteExact.                                               *)

(* On a closed or broken connection both return Unavailable at once.       *)
IoBegin(o, op, n, timeout) ==
  /\ OwnerIdle /\ fd[o] # NoFd /\ ~broken[o]
  /\ io' = [IdleIo EXCEPT !.pc = "run", !.op = op, !.obj = o, !.fd = fd[o], !.want = n,
                          !.timeout = timeout, !.expires = ExpiresAt(timeout)]
  /\ UNCHANGED <<fd, broken, sock, loose, stop>>

Socket == sock[io.fd]
AtWork == io.pc = "run" /\ io.done < io.want /\ (io.first \/ ~Expired)
Movable == IF io.op = "read" THEN Socket.avail
           ELSE IF Socket.shut \/ Socket.peer = "reset" THEN 0 ELSE Socket.room
Finished == \/ Socket.shut \/ Socket.peer = "reset"
            \/ io.op = "read" /\ Socket.peer = "closed"

IoReturns ==
  /\ io.pc = "run" /\ io.done = io.want
  /\ io' = IdleIo
  /\ UNCHANGED <<fd, broken, sock, loose, stop>>

Moved(n) ==
  IF io.op = "read" THEN sock' = [sock EXCEPT ![io.fd].avail = @ - n]
  ELSE sock' = [sock EXCEPT ![io.fd].room = @ - n]

(* Mutant: every recv and send starts at the beginning of the buffer.      *)
TransferFromStart ==
  /\ AtWork
  /\ \E n \in 1 .. io.want - io.done :
       /\ n <= Movable /\ Moved(n)
       /\ io' = [io EXCEPT !.done = @ + n, !.first = FALSE,
                   !.buf = [i \in 1 .. MaxUnits |-> IF i <= n THEN io.done + i ELSE @[i]]]
  /\ UNCHANGED <<fd, broken, loose, stop>>

(* recv or send moves the next units of the stream: buf says which unit of *)
(* the stream each place of the caller's buffer was exchanged with.        *)
Transfer ==
  /\ AtWork
  /\ \E n \in 1 .. io.want - io.done :
       /\ n <= Movable /\ Moved(n)
       /\ io' = [io EXCEPT !.done = @ + n, !.first = FALSE,
                   !.buf = [i \in 1 .. MaxUnits |->
                              IF i \in io.done + 1 .. io.done + n THEN i ELSE @[i]]]
  /\ UNCHANGED <<fd, broken, loose, stop>>

(* EINTR, or EAGAIN.                                                       *)
Interrupted ==
  /\ AtWork
  /\ io' = [io EXCEPT !.first = FALSE]
  /\ UNCHANGED <<fd, broken, sock, loose, stop>>

WouldBlock ==
  /\ AtWork /\ Movable = 0 /\ ~Finished
  /\ io' = [io EXCEPT !.first = FALSE, !.pc = "ready"]
  /\ UNCHANGED <<fd, broken, sock, loose, stop>>

(* The call will return an error, after MarkBroken.                        *)
Fail ==
  /\ io' = [io EXCEPT !.pc = "mark"]
  /\ sock' = [sock EXCEPT ![io.fd].failed = TRUE]

(* End of stream, or an error of recv or send.                             *)
IoFails ==
  /\ AtWork /\ Movable = 0 /\ Finished
  /\ Fail
  /\ UNCHANGED <<fd, broken, loose, stop>>

(* Mutant: a timeout between two parts leaves the connection usable.       *)
IoExpiresKeeps ==
  /\ io.pc = "run" /\ io.done < io.want /\ ~io.first /\ Expired
  /\ io' = IdleIo
  /\ sock' = [sock EXCEPT ![io.fd].failed = TRUE]
  /\ UNCHANGED <<fd, broken, loose, stop>>

IoExpires ==
  /\ io.pc = "run" /\ io.done < io.want /\ ~io.first /\ Expired
  /\ Fail
  /\ UNCHANGED <<fd, broken, loose, stop>>

-----------------------------------------------------------------------------
(* PollReady, for all three.                                               *)

(* The connection was shut down: not asked during Connect.                 *)
SeenBroken == io.op # "connect" /\ broken[io.obj]

(* PollReady fails: Connect drops the candidate, the others are broken.    *)
PollFails(next) ==
  IF io.op = "connect"
  THEN io' = next /\ sock' = [sock EXCEPT ![io.fd] = FreeSocket]
  ELSE Fail

(* Mutant: each wait gets the whole timeout again.                         *)
PollEnterAfresh ==
  /\ io.pc = "ready" /\ ~SeenBroken
  /\ io' = [io EXCEPT !.pc = "poll", !.wake = io.now + Lesser(IntMax, io.timeout) * TicksPerMs]
  /\ UNCHANGED <<fd, broken, sock, loose, stop>>

PollEnter ==
  /\ io.pc = "ready" /\ ~SeenBroken
  /\ io' = [io EXCEPT !.pc = "poll", !.wake = io.now + PollTimeoutMilliseconds * TicksPerMs]
  /\ UNCHANGED <<fd, broken, sock, loose, stop>>

PollSeesBroken ==
  /\ io.pc = "ready" /\ SeenBroken
  /\ Fail
  /\ UNCHANGED <<fd, broken, loose, stop>>

PollEvent == IF io.op = "connect" THEN Socket.peer # "pending" ELSE Movable > 0 \/ Finished

PollTimesOut ==
  /\ io.pc = "poll" /\ io.now >= io.wake /\ ~PollEvent
  /\ PollFails(IdleIo)
  /\ UNCHANGED <<fd, broken, loose, stop>>

(* EINTR.                                                                  *)
PollInterrupted ==
  /\ io.pc = "poll"
  /\ io' = [io EXCEPT !.pc = "ready"]
  /\ UNCHANGED <<fd, broken, sock, loose, stop>>

PollReturns ==
  /\ io.pc = "poll" /\ PollEvent /\ ~SeenBroken
  /\ io' = [io EXCEPT !.pc = IF io.op = "connect" THEN "error" ELSE "run"]
  /\ UNCHANGED <<fd, broken, sock, loose, stop>>

(* Woken by a Shutdown, POLLERR or POLLHUP alone, or poll itself fails.    *)
PollReturnsError ==
  /\ io.pc = "poll"
  /\ PollFails(NextCandidate)
  /\ UNCHANGED <<fd, broken, loose, stop>>

-----------------------------------------------------------------------------
(* MarkBroken, and Shutdown on another thread: whoever sets broken_ first  *)
(* shuts the socket down.                                                  *)

MarkBroken ==
  /\ io.pc = "mark"
  /\ io' = IF broken[io.obj] THEN IdleIo ELSE [io EXCEPT !.pc = "shut"]
  /\ broken' = [broken EXCEPT ![io.obj] = TRUE]
  /\ UNCHANGED <<fd, sock, loose, stop>>

MarkBrokenShuts ==
  /\ io.pc = "shut"
  /\ sock' = [sock EXCEPT ![fd[io.obj]].shut = TRUE]
  /\ io' = IdleIo
  /\ UNCHANGED <<fd, broken, loose, stop>>

Shutdown(t, o) ==
  /\ stop[t] = NoObject
  /\ broken' = [broken EXCEPT ![o] = TRUE]
  /\ stop' = [stop EXCEPT ![t] = IF fd[o] = NoFd \/ broken[o] THEN NoObject ELSE o]
  /\ UNCHANGED <<fd, sock, loose, io>>

(* Mutant: Shutdown only sets the flag.                                    *)
ShutdownNoWake(t) ==
  /\ stop[t] # NoObject
  /\ stop' = [stop EXCEPT ![t] = NoObject]
  /\ UNCHANGED <<fd, broken, sock, loose, io>>

ShutdownShuts(t) ==
  /\ stop[t] # NoObject
  /\ sock' = [sock EXCEPT ![fd[stop[t]]].shut = TRUE]
  /\ stop' = [stop EXCEPT ![t] = NoObject]
  /\ UNCHANGED <<fd, broken, loose, io>>

-----------------------------------------------------------------------------
(* The clock, and the other end (external).                                *)

Tick ==
  /\ ~OwnerIdle /\ io.now < MaxNow
  /\ io' = [io EXCEPT !.now = @ + 1]
  /\ UNCHANGED <<fd, broken, sock, loose, stop>>

(* What the peer does between two calls is as good as done when the next   *)
(* call on the socket begins.                                              *)
PeerActs(f) ==
  /\ f = io.fd
  /\ LET s == sock[f] IN
       \/ /\ s.peer = "open" /\ ~s.shut /\ s.avail < Window
          /\ sock' = [sock EXCEPT ![f].avail = @ + 1]
       \/ s.peer = "open" /\ s.room = 0 /\ sock' = [sock EXCEPT ![f].room = Window]
       \/ s.peer = "pending" /\ sock' = [sock EXCEPT ![f].peer = "open"]
       \/ s.peer = "open" /\ sock' = [sock EXCEPT ![f].peer = "closed"]
       \/ /\ s.peer \in {"pending", "open", "closed"}
          /\ sock' = [sock EXCEPT ![f].peer = "reset", ![f].avail = 0]
  /\ UNCHANGED <<fd, broken, loose, io, stop>>

-----------------------------------------------------------------------------
IoContinue ==
  \/ ConnectGivesUp \/ CandidateFails \/ CandidateInProgress \/ CandidateAtOnce
  \/ CandidateConnected \/ CandidateRefused
  \/ Transfer \/ Interrupted \/ WouldBlock \/ IoFails \/ IoExpires \/ IoReturns
  \/ PollEnter \/ PollSeesBroken \/ PollTimesOut \/ PollInterrupted
  \/ PollReturns \/ PollReturnsError
  \/ MarkBroken \/ MarkBrokenShuts

IoNext ==
  \/ \E o \in Object : Close(o) \/ \E p \in Object : Move(o, p)
  \/ Accept \/ \E f \in Fd : AdoptFails(f) \/ \E o \in Object : AdoptConnectedSocket(o, f)
  \/ \E o \in Object, ms \in Timeout :
       \/ ConnectBegin(o, ms)
       \/ \E op \in {"read", "write"}, n \in 1 .. MaxUnits : IoBegin(o, op, n, ms)
  \/ IoContinue
  \/ \E t \in Stopper : ShutdownShuts(t) \/ \E o \in Object : Shutdown(t, o)
  \/ Tick
  \/ \E f \in Fd : PeerActs(f)

IoSpec == IoInit /\ [][IoNext]_ioVars

-----------------------------------------------------------------------------
(* Properties.                                                             *)

Holders(f) ==
  Cardinality({o \in Object : fd[o] = f}) + (IF f \in loose THEN 1 ELSE 0)
    + (IF io.op = "connect" /\ io.fd = f THEN 1 ELSE 0)

(* Every open descriptor has exactly one owner, an object, the candidate   *)
(* of a running Connect or a caller, and no one holds a closed one: through*)
(* moves, adoption, failed candidates and timeouts nothing leaks, and no   *)
(* close hits a descriptor the kernel has given out again.                 *)
OneOwnerPerFd == \A f \in Fd : Holders(f) = IF sock[f].open THEN 1 ELSE 0

(* However recv and send split a transfer, unit i of the caller's buffer   *)
(* is unit i of the stream, counted from where the call began.             *)
ExactTransfer ==
  \A i \in 1 .. io.done : io.buf[i] = i

(* One deadline covers a whole call: no wait in poll lasts more than the   *)
(* rounding to milliseconds past it, however many parts and signals came   *)
(* before.                                                                 *)
WaitsWithinDeadline == io.pc = "poll" => io.wake < io.expires + TicksPerMs \/ io.wake <= io.now

(* A call times out in poll only when its deadline has passed (timeouts    *)
(* above INT_MAX milliseconds excepted: poll cannot wait that long).       *)
NoEarlyTimeout == [][PollTimesOut => io.now >= io.expires \/ io.timeout > IntMax]_ioVars

(* Once a read or a write has failed, perhaps in the middle of a frame, no *)
(* later call moves a unit of that socket, so no one can read a stream     *)
(* that is out of step.                                                    *)
FailedStreamIsDead == [][Transfer => ~Socket.failed]_ioVars

(* No wakeup is lost: when no Shutdown call is left half done, a call that *)
(* is blocked in poll on a broken connection has an event to return for,   *)
(* without a deadline and whatever the peer does.  PollReady looks at      *)
(* broken_ before it waits, and Shutdown sets it before it shuts the       *)
(* socket.                                                                 *)
ShutdownWakes == io.pc = "poll" /\ SeenBroken /\ NoShutdown(io.obj) => PollEvent
=============================================================================
