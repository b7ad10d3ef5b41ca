----------------------------- MODULE IocpWorker -----------------------------
(***************************************************************************)
(* A worker thread of the Windows server: the loop of ain_worker_proc with *)
(* the sockets of os/win/ain_socket.c and the completion port of           *)
(* os/win/ain_io.c.                                                        *)
(*                                                                         *)
(* What differs from the ring of the Linux server: a slot has its socket   *)
(* from the moment it accepts; closing a socket completes its operations;  *)
(* completions are taken in batches; the result of a completion is read    *)
(* from the event when its turn comes, not when it was queued; and a read  *)
(* or a write that completes at once runs its handler inside the call that *)
(* submitted it, although the port gets its completion too.                *)
(***************************************************************************)
EXTENDS Integers, Sequences, SequencesExt, FiniteSets

CONSTANTS
  Slot,          (* connection slots of this worker                        *)
  Protos,        (* what the protocols of their listeners may be           *)
  Fd,            (* sockets the system may give out                        *)
  IO_QUERY_CNT,  (* size of a batch                                        *)
  IDLE_LIMIT,    (* seconds a kept-alive connection may be idle (10)       *)
  Start,         (* what the clock says when the worker starts             *)
  MaxTime,       (* bound: last second of the clock                        *)
  MaxIo,         (* bound: connections, chunks and failures from outside   *)
  MaxTwice       (* bound: reads and writes that complete at once          *)

INVALID_SOCKET == -1
AIN_TIMEOUT    == -2

(* The clock counts from 1970; wdata->time and conn->time start at 0. *)
ASSUME IocpAssumption ==
  /\ IsFiniteSet(Slot) /\ IsFiniteSet(Fd) /\ Fd \subseteq Nat
  /\ Cardinality(Fd) >= Cardinality(Slot)
  /\ Protos \subseteq [Slot -> {"http", "ain", "sip", "none"}]
  /\ IO_QUERY_CNT \in Nat \ {0} /\ IDLE_LIMIT \in Nat
  /\ MaxIo \in Nat /\ MaxTwice \in Nat
  /\ Start \in Nat /\ Start > IDLE_LIMIT /\ MaxTime \in Nat /\ MaxTime >= Start

VARIABLES
  Proto,         (* protocol of each slot's listener                       *)
  conn,          (* the slots                                              *)
  handler,       (* handler of each slot's read event                      *)
  internal,      (* OVERLAPPED.Internal of its two events                  *)
  evtfd,         (* their descriptors                                      *)
  kernel,        (* operations in the system, per slot                     *)
  port,          (* the completion port: packets not taken yet             *)
  batch,         (* ov_array: packets taken and not handled yet            *)
  inline,        (* a completion the code handles within a call, if any    *)
  open,          (* sockets open                                           *)
  clock, time,   (* the time of day, and wdata->time                       *)
  ior, pc, quit,
  io, twice      (* what MaxIo and MaxTwice bound, so far                  *)

outside == <<Proto, io, twice>>
slots == <<conn, handler, internal, evtfd, kernel, open>>
vars == <<outside, slots, port, batch, inline, clock, time, ior, pc, quit>>

Event == {"read_evt", "write_evt"}
EventOf(op) == IF op = "write" THEN "write_evt" ELSE "read_evt"
Bytes == {"none", "some", "quit"}
Packet == [slot : Slot, evt : Event, bytes : Bytes]

TypeOK ==
  /\ Proto \in Protos
  /\ conn \in [Slot -> [fd : Fd \cup {INVALID_SOCKET}, connected : {0, 1},
                        keep_alive : {0, 1}, time : {0} \cup Start .. MaxTime]]
  /\ handler \in [Slot -> {"ain_socket_onaccept", "ain_conn_onread"}]
  /\ internal \in [Slot -> [Event -> {"pending", "ok", "error"}]]
  /\ evtfd \in [Slot -> [Event -> Fd \cup {INVALID_SOCKET}]]
  /\ kernel \in [Slot -> Seq({"accept", "read", "write"})]
  /\ port \in Seq(Packet)
  /\ batch \in Seq(Packet) /\ Len(batch) <= IO_QUERY_CNT
  /\ inline \in Seq(Packet) /\ Len(inline) <= 1
  /\ open \in SUBSET Fd
  /\ clock \in Start .. MaxTime /\ time \in {0} \cup Start .. MaxTime
  /\ ior \in AIN_TIMEOUT .. IO_QUERY_CNT
  /\ pc \in {"wait", "batch", "sweep", "drain", "ended"}
  /\ quit \in {"RUN", "QUIT_REQ", "QUIT_CMD", "END"}
  /\ io \in 0 .. MaxIo /\ twice \in 0 .. MaxTwice

(* ain_conn_init and the first ain_conn_accept of every slot. *)
Init ==
  LET fd == CHOOSE f \in [Slot -> Fd] : \A c, d \in Slot : f[c] = f[d] => c = d
  IN
  /\ Proto \in Protos
  /\ conn = [c \in Slot |-> [fd |-> fd[c], connected |-> 0, keep_alive |-> 0,
                             time |-> 0]]
  /\ handler = [c \in Slot |-> "ain_socket_onaccept"]
  /\ internal = [c \in Slot |-> [read_evt |-> "pending", write_evt |-> "ok"]]
  /\ evtfd = [c \in Slot |-> [read_evt |-> fd[c], write_evt |-> INVALID_SOCKET]]
  /\ kernel = [c \in Slot |-> <<"accept">>]
  /\ open = {fd[c] : c \in Slot}
  /\ port = <<>> /\ batch = <<>> /\ inline = <<>>
  /\ clock = Start /\ time = 0
  /\ ior = 0 /\ pc = "wait" /\ quit = "RUN" /\ io = 0 /\ twice = 0

-----------------------------------------------------------------------------
(* Something the system or a client may do, or not. *)
Happens == io < MaxIo /\ io' = io + 1 /\ UNCHANGED <<Proto, twice>>

(* What the functions of ain_conn.c and os/win/ain_socket.c do to a slot. *)

Shut(k, now) == [k EXCEPT !.fd = INVALID_SOCKET, !.connected = 0, !.time = now]

(* A completion, and those of the operations that the sockets of some slots had
   when they were closed, in the order in which the system gets to them. *)
PacketOf(c, op, bytes) == [slot |-> c, evt |-> EventOf(op), bytes |-> bytes]
Cancelled(S) ==
  LET ops == UNION {{c} \X DOMAIN kernel[c] : c \in S}
  IN {[n \in DOMAIN s |-> PacketOf(s[n][1], kernel[s[n][1]][s[n][2]], "none")] :
        s \in SetToSeqs(ops)}
CancelledInternal(c, i) ==
  [e \in Event |-> IF \E n \in DOMAIN kernel[c] : EventOf(kernel[c][n]) = e
                   THEN "error" ELSE i[e]]

(* Mutant of Close: the slot forgets its socket and does not close it. *)
CloseSlotOnly(c) ==
  /\ conn' = [conn EXCEPT ![c] = Shut(@, time)]
  /\ inline' = <<>>
  /\ UNCHANGED <<handler, internal, evtfd, kernel, port, open>>

(* ain_conn_close of a slot that is now k, with i in its OVERLAPPEDs. *)
CloseAs(c, k, i) ==
  /\ conn' = [conn EXCEPT ![c] = Shut(k, time)]
  /\ open' = open \ {k.fd}
  /\ kernel' = [kernel EXCEPT ![c] = <<>>]
  /\ internal' = [internal EXCEPT ![c] = CancelledInternal(c, i)]
  /\ \E packets \in Cancelled({c}) : port' = port \o packets
  /\ inline' = <<>>

Close(c) == CloseAs(c, conn[c], internal[c]) /\ UNCHANGED <<handler, evtfd>>

(* ain_socket_read and ain_socket_write on fd, for a slot that is now k. *)
Submit(c, op, k, fd) ==
  LET e == EventOf(op) IN
  /\ fd \in open
  /\ conn' = [conn EXCEPT ![c] = k]
  /\ handler' = IF op = "read" THEN [handler EXCEPT ![c] = "ain_conn_onread"]
                ELSE handler
  /\ evtfd' = [evtfd EXCEPT ![c][e] = fd]
  /\ \/ /\ internal' = [internal EXCEPT ![c][e] = "pending"]
        /\ kernel' = [kernel EXCEPT ![c] = Append(@, op)]
        /\ inline' = <<>>
        /\ UNCHANGED <<port, outside>>
     \/ /\ twice < MaxTwice /\ twice' = twice + 1
        /\ internal' = [internal EXCEPT ![c][e] = "ok"]
        /\ \E bytes \in IF op = "read" THEN Bytes ELSE {"some"} :
             /\ inline' = <<PacketOf(c, op, bytes)>>
             /\ port' = Append(port, PacketOf(c, op, bytes))
        /\ UNCHANGED <<kernel, Proto, io>>
  /\ UNCHANGED open

(* WSARecv and WSASend fail on a socket that is closed, and may fail on one
   that was reset; the event is prepared, its OVERLAPPED zeroed, before that. *)
SubmitFails(c, op, k, fd) ==
  LET e == EventOf(op) IN
  /\ \/ fd \notin open /\ UNCHANGED outside
     \/ fd \in open /\ Happens
  /\ CloseAs(c, k, [internal[c] EXCEPT ![e] = "ok"])
  /\ handler' = IF op = "read" THEN [handler EXCEPT ![c] = "ain_conn_onread"]
                ELSE handler
  /\ evtfd' = [evtfd EXCEPT ![c][e] = fd]

Submits(c, op, k, fd) == Submit(c, op, k, fd) \/ SubmitFails(c, op, k, fd)

-----------------------------------------------------------------------------
(* The system, the clients and the main thread. *)

Complete(c, op, bytes, status) ==
  /\ \E n \in DOMAIN kernel[c] :
       /\ kernel[c][n] = op
       /\ kernel' = [kernel EXCEPT ![c] = RemoveAt(@, n)]
  /\ port' = Append(port, PacketOf(c, op, bytes))
  /\ internal' = [internal EXCEPT ![c][EventOf(op)] = status]
  /\ UNCHANGED <<conn, handler, evtfd, open, batch, inline, clock, time, ior, pc,
                 quit>>

ClientConnects(c) ==
  Happens /\ Complete(c, "accept", "none", "ok")
ClientSends(c) ==
  /\ Happens
  /\ \E bytes \in {"some", "quit"} : Complete(c, "read", bytes, "ok")
ClientLeaves(c) ==
  /\ UNCHANGED outside
  /\ \E s \in {"ok", "error"} : Complete(c, "read", "none", s)
WriteDone(c) ==
  /\ UNCHANGED outside
  /\ \/ Complete(c, "write", "some", "ok") \/ Complete(c, "write", "none", "error")

Tick ==
  /\ clock < MaxTime
  /\ clock' = clock + 1
  /\ UNCHANGED <<slots, port, batch, inline, time, ior, pc, quit, outside>>

MainRequests ==
  /\ quit # "QUIT_REQ"
  /\ quit' = "QUIT_REQ"
  /\ UNCHANGED <<slots, port, batch, inline, clock, time, ior, pc, outside>>

-----------------------------------------------------------------------------
(* ain_wait_io_events *)

(* Mutant of Taken: one packet more than ov_array holds. *)
TakenOneMore == IF Len(port) <= IO_QUERY_CNT THEN Len(port) ELSE IO_QUERY_CNT + 1

Taken == IF Len(port) < IO_QUERY_CNT THEN Len(port) ELSE IO_QUERY_CNT

(* GetQueuedCompletionStatusEx takes what there is, a batch at the most. *)
TakeBatch ==
  /\ pc = "wait" /\ port # <<>>
  /\ batch' = SubSeq(port, 1, Taken)
  /\ port' = SubSeq(port, Taken + 1, Len(port))
  /\ ior' = Taken
  /\ pc' = "batch"
  /\ UNCHANGED <<slots, inline, clock, time, quit, outside>>

TimedOut ==
  /\ pc = "wait" /\ port = <<>>
  /\ ior' = AIN_TIMEOUT
  /\ pc' = "sweep"
  /\ UNCHANGED <<slots, port, batch, inline, clock, time, quit, outside>>

BatchDone ==
  /\ pc = "batch" /\ batch = <<>> /\ inline = <<>>
  /\ pc' = "sweep"
  /\ UNCHANGED <<slots, port, batch, inline, clock, time, ior, quit, outside>>

(* The event a handler runs for: one that completed at once, before the next
   of the batch. *)
Now == IF inline # <<>> THEN Head(inline) ELSE Head(batch)
Take(c, e) ==
  /\ pc = "batch" /\ (inline # <<>> \/ batch # <<>>)
  /\ Now.slot = c /\ Now.evt = e
  /\ batch' = IF inline # <<>> THEN batch ELSE Tail(batch)
  /\ UNCHANGED <<clock, time, ior, pc>>

(* evt->error and evt->res: cleared by the call, or read from the event. *)
Result == IF inline # <<>> THEN "ok" ELSE internal[Now.slot][Now.evt]

(* ain_socket_onaccept.  SO_UPDATE_ACCEPT_CONTEXT fails on a slot that has no
   socket any more. *)
OnAccept(c) ==
  /\ Take(c, "read_evt") /\ handler[c] = "ain_socket_onaccept"
  /\ UNCHANGED quit
  /\ \/ /\ Result # "ok" \/ conn[c].fd \notin open
        /\ Close(c) /\ UNCHANGED outside
     \/ /\ Result = "ok" /\ conn[c].fd \in open
        /\ Submits(c, "read", [conn[c] EXCEPT !.connected = 1], evtfd[c].read_evt)

(* ain_conn_onread: the end of a connection, or an operation that failed. *)
OnReadEnd(c) ==
  /\ Take(c, "read_evt") /\ handler[c] = "ain_conn_onread"
  /\ Now.bytes = "none" \/ Result = "error"
  /\ Close(c)
  /\ UNCHANGED <<quit, outside>>

(* A completion whose event is in use again: read once more. *)
OnReadPending(c) ==
  /\ Take(c, "read_evt") /\ handler[c] = "ain_conn_onread"
  /\ Now.bytes # "none" /\ Result = "pending"
  /\ Submits(c, "read", conn[c], evtfd[c].read_evt)
  /\ UNCHANGED quit

Received(c) ==
  /\ Take(c, "read_evt") /\ handler[c] = "ain_conn_onread"
  /\ Now.bytes # "none" /\ Result = "ok"

OnReadHttp(c) ==
  /\ Received(c) /\ Proto[c] = "http"
  /\ Submits(c, "write", [conn[c] EXCEPT !.time = time, !.keep_alive = 1], conn[c].fd)
  /\ UNCHANGED quit

OnReadSip(c) ==
  /\ Received(c) /\ Proto[c] = "sip"
  /\ Submits(c, "read", [conn[c] EXCEPT !.time = time], evtfd[c].read_evt)
  /\ UNCHANGED quit

OnReadHangUp(c) ==
  /\ Received(c) /\ Proto[c] \in {"ain", "none"}
  /\ quit' = IF Proto[c] = "ain" /\ Now.bytes = "quit" THEN "QUIT_CMD" ELSE quit
  /\ Close(c)
  /\ UNCHANGED outside

(* Mutant of OnWrite: nothing follows the response. *)
OnWriteForgets(c) ==
  /\ Take(c, "write_evt")
  /\ UNCHANGED quit
  /\ \/ /\ Result # "ok" \/ Now.bytes = "none"
        /\ Close(c) /\ UNCHANGED outside
     \/ /\ Result = "ok" /\ Now.bytes # "none"
        /\ inline' = <<>> /\ UNCHANGED <<slots, port, outside>>

(* ain_conn_onwrite *)
OnWrite(c) ==
  /\ Take(c, "write_evt")
  /\ UNCHANGED quit
  /\ \/ /\ Result # "ok" \/ Now.bytes = "none"
        /\ Close(c) /\ UNCHANGED outside
     \/ /\ Result = "ok" /\ Now.bytes # "none"
        /\ Submits(c, "read", conn[c], evtfd[c].read_evt)

Handle(c) ==
  \/ OnAccept(c) \/ OnReadEnd(c) \/ OnReadPending(c)
  \/ OnReadHttp(c) \/ OnReadSip(c) \/ OnReadHangUp(c) \/ OnWrite(c)

-----------------------------------------------------------------------------
(* The rest of the loop of ain_worker_proc. *)

(* Mutant of Reusable: a slot without a client counts as closed. *)
ReusableUnconnected(k, now) == k.connected = 0 /\ now - k.time > 0

Reusable(k, now) == k.fd = INVALID_SOCKET /\ now - k.time > 0
Idle(k, now) ==
  k.fd # INVALID_SOCKET /\ k.keep_alive = 1 /\ k.connected = 1
    /\ now - k.time > IDLE_LIMIT

(* Mutant of GoesOn: only the worker's own command ends the loop. *)
GoesOnUnlessCommand == quit # "QUIT_CMD"

GoesOn == quit # "QUIT_REQ"

(* Mutant of WorkerTime: a timeout does not update wdata->time. *)
WorkerTimeStale == time

WorkerTime == IF ior = AIN_TIMEOUT THEN clock ELSE time

(* The slots that accept again get new sockets, those that idled are closed. *)
Sweep ==
  /\ pc = "sweep"
  /\ time' = WorkerTime
  /\ LET busy  == ior = IO_QUERY_CNT
         again == {c \in Slot : ~busy /\ Reusable(conn[c], time')}
         idle  == {c \in Slot : ~busy /\ Idle(conn[c], time')}
     IN \E fd \in [again -> Fd \ open] :
        /\ \A c, d \in again : fd[c] = fd[d] => c = d
        /\ conn' = [c \in Slot |->
              IF c \in again THEN [conn[c] EXCEPT !.fd = fd[c], !.connected = 0]
              ELSE IF c \in idle THEN Shut(conn[c], time') ELSE conn[c]]
        /\ handler' = [c \in Slot |->
              IF c \in again THEN "ain_socket_onaccept" ELSE handler[c]]
        /\ evtfd' = [c \in Slot |->
              IF c \in again THEN [evtfd[c] EXCEPT !.read_evt = fd[c]] ELSE evtfd[c]]
        /\ internal' = [c \in Slot |->
              IF c \in again THEN [internal[c] EXCEPT !.read_evt = "pending"]
              ELSE IF c \in idle THEN CancelledInternal(c, internal[c]) ELSE internal[c]]
        /\ kernel' = [c \in Slot |->
              IF c \in again THEN Append(kernel[c], "accept")
              ELSE IF c \in idle THEN <<>> ELSE kernel[c]]
        /\ \E packets \in Cancelled(idle) : port' = port \o packets
        /\ open' = (open \ {conn[c].fd : c \in idle}) \cup {fd[c] : c \in again}
  /\ pc' = IF GoesOn THEN "wait" ELSE "drain"
  /\ ior' = 0
  /\ UNCHANGED <<batch, inline, clock, quit, outside>>

(* The slots are closed, the port and the pool go, and END is written. *)
WriteEnd ==
  /\ pc = "drain"
  /\ conn' = [c \in Slot |-> Shut(conn[c], time)]
  /\ open' = open \ {conn[c].fd : c \in Slot}
  /\ kernel' = [c \in Slot |-> <<>>]
  /\ port' = <<>>
  /\ pc' = "ended" /\ quit' = "END"
  /\ UNCHANGED <<handler, internal, evtfd, batch, inline, clock, time, ior, outside>>

WorkerStep ==
  \/ TakeBatch \/ TimedOut \/ BatchDone \/ Sweep \/ WriteEnd
  \/ \E c \in Slot : Handle(c)

Next ==
  \/ WorkerStep
  \/ \E c \in Slot :
       ClientConnects(c) \/ ClientSends(c) \/ ClientLeaves(c) \/ WriteDone(c)
  \/ Tick
  \/ MainRequests

Spec == Init /\ [][Next]_vars

(* The thread is scheduled, the clock goes on and the main thread answers a
   command.  Clients owe nothing; MaxIo makes them go quiet in the end. *)
FairSpec ==
  /\ Spec
  /\ WF_vars(WorkerStep) /\ WF_vars(Tick)
  /\ WF_vars(quit = "QUIT_CMD" /\ MainRequests)

-----------------------------------------------------------------------------
Queue == inline \o batch \o port
Of(c) == {n \in DOMAIN Queue : Queue[n].slot = c}

(* Whatever completes at once or twice: every open socket belongs to exactly
   one slot, and none is left when the worker has ended. *)
SocketsOwned ==
  /\ open = {conn[c].fd : c \in Slot} \ {INVALID_SOCKET}
  /\ \A c, d \in Slot : conn[c].fd = conn[d].fd /\ conn[c].fd \in Fd => c = d

(* As long as nothing completes at once, and is handled twice for it, a slot
   has one operation under way, in the system or queued, although its socket
   may be closed under it and the slot used again; so a completion meets the
   handler it was submitted with. *)
OneOpPerSlot ==
  twice = 0 => \A c \in Slot :
    /\ Len(kernel[c]) + Cardinality(Of(c)) <= 1
    /\ kernel[c] = <<"accept">> => handler[c] = "ain_socket_onaccept"

(* In the same case a slot with a socket is never forgotten: something is under
   way for it. *)
SlotIsServed ==
  twice = 0 => \A c \in Slot :
    conn[c].fd # INVALID_SOCKET => kernel[c] # <<>> \/ Of(c) # {}

(* The phase of a slot as a client sees it: where its operation is, and what the
   event says of one that is queued. *)
PhaseOfOp == [accept |-> "listening", read |-> "reading", write |-> "writing"]
PhaseOfPacket(c, p) ==
  CASE p.evt = "write_evt" ->
         IF internal[c].write_evt = "ok" /\ p.bytes # "none" THEN "written" ELSE "failed"
    [] p.evt = "read_evt" /\ handler[c] = "ain_socket_onaccept" ->
         IF internal[c].read_evt = "ok" THEN "arrived" ELSE "failed"
    [] OTHER ->
         IF internal[c].read_evt = "error" \/ p.bytes = "none" THEN "failed" ELSE "heard"
Phase(c) ==
  IF conn[c].fd = INVALID_SOCKET THEN "closed"
  ELSE IF kernel[c] # <<>> THEN PhaseOfOp[Head(kernel[c])]
  ELSE IF Of(c) # {} THEN PhaseOfPacket(c, Queue[CHOOSE n \in Of(c) : TRUE])
  ELSE "forgotten"
PhaseSocket(c) == IF Phase(c) = "listening" THEN INVALID_SOCKET ELSE conn[c].fd

Life == INSTANCE SlotLife
          WITH Socket <- Fd, None <- INVALID_SOCKET,
               phase <- [c \in Slot |-> Phase(c)],
               sock <- [c \in Slot |-> PhaseSocket(c)],
               stopped <- (pc = "ended")

(* In the same case the worker follows the life of its slots (module SlotLife),
   but that it may drop a client: it answers only after it heard, on the socket
   it heard on, no two slots serve one socket, no slot that listens closes before
   the end, and none with a socket is ever forgotten. *)
FollowsSlotLife ==
  Life!Init /\ [][twice' = 0 => Life!ServeOrDrop \/ Life!Stop]_(Life!vars)

(* A request to quit ends the worker, whatever it finds in the port. *)
QuitHonoured == quit = "QUIT_REQ" ~> pc = "ended"

(* "re-use closed socket": a slot that closed accepts again, once the clock has
   gone on and its worker has had nothing to do for a moment. *)
ClosedSlotReused ==
  \A c \in Slot :
    conn[c].fd = INVALID_SOCKET /\ pc # "ended" /\ conn[c].time < MaxTime
      ~> conn[c].fd # INVALID_SOCKET \/ pc = "ended" \/ quit = "QUIT_REQ"
=============================================================================
