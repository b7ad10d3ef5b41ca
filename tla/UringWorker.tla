---------------------------- MODULE UringWorker ----------------------------
(***************************************************************************)
(* One worker process of the Linux server: the loop of ain_worker_proc     *)
(* over the connection slots of its listeners, and the io_uring through    *)
(* which every accept, read and write of a slot goes.                      *)
(*                                                                         *)
(* A slot (ain_conn_t) owns two events, read_evt for accepts and reads and *)
(* write_evt for writes.  Submitting an operation stores the handler in    *)
(* the event and puts the operation in the ring; the kernel completes it   *)
(* whenever it likes; the worker takes completions in the order in which   *)
(* they arrived and runs the handler the event holds at that moment, which *)
(* reads and writes the slot and usually submits the next operation.       *)
(* Clients are what the kernel reports of them.                            *)
(***************************************************************************)
EXTENDS Integers, Sequences

CONSTANTS
  Slot,          (* the connection slots of this worker                    *)
  Proto,         (* protocol handler of each slot's listener               *)
  Fd,            (* descriptors the kernel may give to a client socket     *)
  IO_QUERY_CNT,  (* number of completions that makes the worker skip a sweep *)
  IDLE_LIMIT,    (* seconds a kept-alive connection may be idle (10)       *)
  MaxTime,       (* bound: last second of the clock                        *)
  MaxIo          (* bound: connections, chunks and signals from outside    *)

INVALID_SOCKET == -1
AIN_ERROR      == -1
AIN_TIMEOUT    == -2

ASSUME WorkerAssumption ==
  /\ Proto \in [Slot -> {"http", "ain", "sip", "none"}]
  /\ Fd \subseteq Nat
  /\ IO_QUERY_CNT \in Nat \ {0}
  /\ IDLE_LIMIT \in Nat
  /\ MaxTime \in Nat
  /\ MaxIo \in Nat

VARIABLES
  conn,       (* the slots                                                 *)
  readEvt,    (* their read events: handler and descriptor                 *)
  writeEvt,   (* their write events: allocated yet? and descriptor         *)
  ring,       (* operations in the kernel, per slot                        *)
  cq,         (* the completion queue                                      *)
  open,       (* descriptors of client sockets open in this process        *)
  clock,      (* the time of day, in seconds                               *)
  time,       (* wdata->time                                               *)
  ior,        (* result of ain_wait_io_events, or completions handled      *)
  pc,         (* where the worker is                                       *)
  quit,       (* wdata->quit, shared with the parent                       *)
  io          (* connections, chunks and signals so far                    *)

loop == <<time, ior, pc, quit>>
vars == <<conn, readEvt, writeEvt, ring, cq, open, loop, clock, io>>

(* An operation: its slot, its event, what it does on which descriptor, and
   its result.  An accept names the accepted descriptor once it completes. *)
Op == [slot : Slot, evt : {"read_evt", "write_evt"},
       op : {"accept", "read", "write"}, fd : Fd \cup {INVALID_SOCKET},
       res : {"pending", "ok", "quit", "zero", "error"}]

AcceptOp(c)   == [slot |-> c, evt |-> "read_evt", op |-> "accept",
                  fd |-> INVALID_SOCKET, res |-> "pending"]
ReadOp(c, f)  == [slot |-> c, evt |-> "read_evt", op |-> "read",
                  fd |-> f, res |-> "pending"]
WriteOp(c, f) == [slot |-> c, evt |-> "write_evt", op |-> "write",
                  fd |-> f, res |-> "pending"]

TypeOK ==
  /\ conn \in [Slot -> [fd : Fd \cup {INVALID_SOCKET}, connected : {0, 1},
                        keep_alive : {0, 1}, time : 0 .. MaxTime]]
  /\ readEvt \in [Slot -> [handler : {"ain_socket_onaccept", "ain_socket_onread"},
                           fd : Fd \cup {INVALID_SOCKET}]]
  /\ writeEvt \in [Slot -> [alloc : {0, 1}, fd : Fd \cup {INVALID_SOCKET}]]
  /\ ring \in [Slot -> Seq(Op)]
  /\ cq \in Seq(Op)
  /\ open \in SUBSET Fd
  /\ clock \in 0 .. MaxTime
  /\ time \in 0 .. MaxTime
  /\ ior \in AIN_TIMEOUT .. IO_QUERY_CNT + 1
  /\ pc \in {"wait", "sweep", "drain", "closed", "ended"}
  /\ quit \in {"RUN", "QUIT_REQ", "END", "QUIT_CMD"}
  /\ io \in 0 .. MaxIo

-----------------------------------------------------------------------------
(* What the functions of ain_conn.c and ain_socket.c do to one slot. *)

(* ain_conn_close, on the slot; its socket is dropped from open beside it.
   The protocol handlers do nothing when told of the end of a connection. *)
Closed(k, now) == [k EXCEPT !.fd = INVALID_SOCKET, !.connected = 0, !.time = now]

(* Mutant of Close: the slot is cleared, its socket stays open. *)
CloseSlotOnly(c) ==
  /\ conn' = [conn EXCEPT ![c] = Closed(@, time)]
  /\ UNCHANGED <<readEvt, writeEvt, ring, open>>

(* The part of a handler that gives up: close the slot, submit nothing. *)
Close(c) ==
  /\ conn' = [conn EXCEPT ![c] = Closed(@, time)]
  /\ open' = open \ {conn[c].fd}
  /\ UNCHANGED <<readEvt, writeEvt, ring>>

(* Mutant of SubmitRead: the handler of the event is not set. *)
SubmitReadOnly(c, f) ==
  /\ readEvt' = [readEvt EXCEPT ![c].fd = f]
  /\ ring' = [ring EXCEPT ![c] = Append(@, ReadOp(c, f))]

(* ain_socket_read on descriptor f. *)
SubmitRead(c, f) ==
  /\ readEvt' = [readEvt EXCEPT ![c] = [handler |-> "ain_socket_onread", fd |-> f]]
  /\ ring' = [ring EXCEPT ![c] = Append(@, ReadOp(c, f))]

(* ain_conn_init and the first ain_conn_accept of every slot.  The slots lie
   in fresh pages, which are zero, and so is the shared worker data. *)
Init ==
  /\ conn = [c \in Slot |-> [fd |-> INVALID_SOCKET, connected |-> 0,
                             keep_alive |-> 0, time |-> 0]]
  /\ readEvt = [c \in Slot |-> [handler |-> "ain_socket_onaccept",
                                fd |-> INVALID_SOCKET]]
  /\ writeEvt = [c \in Slot |-> [alloc |-> 0, fd |-> INVALID_SOCKET]]
  /\ ring = [c \in Slot |-> <<AcceptOp(c)>>]
  /\ cq = <<>>
  /\ open = {}
  /\ clock = 0
  /\ time = 0
  /\ ior = 0
  /\ pc = "wait"
  /\ quit = "RUN"
  /\ io = 0

-----------------------------------------------------------------------------
(* The kernel and the clients.  A slot never has two operations in the ring
   (OneOpPerSlot), so taking the first one is taking any of them. *)

Complete(c, f, r) ==
  /\ ring' = [ring EXCEPT ![c] = Tail(@)]
  /\ cq' = Append(cq, [Head(ring[c]) EXCEPT !.fd = f, !.res = r])
  /\ UNCHANGED <<conn, readEvt, writeEvt, loop, clock>>

Waiting(c, op) == ring[c] # <<>> /\ Head(ring[c]).op = op

(* A client connects; accept returns the lowest descriptor that is free. *)
ClientConnects(c) ==
  /\ Waiting(c, "accept")
  /\ io < MaxIo
  /\ \E f \in Fd \ open :
       /\ \A g \in Fd \ open : f <= g
       /\ open' = open \cup {f}
       /\ Complete(c, f, "ok")
  /\ io' = io + 1

AcceptFails(c) ==
  /\ Waiting(c, "accept")
  /\ Complete(c, INVALID_SOCKET, "error")
  /\ UNCHANGED <<open, io>>

(* A chunk arrives: exactly the management command or anything else. *)
ClientSends(c) ==
  /\ Waiting(c, "read")
  /\ io < MaxIo
  /\ \E r \in {"ok", "quit"} : Complete(c, Head(ring[c]).fd, r)
  /\ io' = io + 1
  /\ UNCHANGED open

(* The client closes or resets the connection under a read. *)
ClientLeaves(c) ==
  /\ Waiting(c, "read")
  /\ \E r \in {"zero", "error"} : Complete(c, Head(ring[c]).fd, r)
  /\ UNCHANGED <<open, io>>

WriteDone(c) ==
  /\ Waiting(c, "write")
  /\ \E r \in {"ok", "error"} : Complete(c, Head(ring[c]).fd, r)
  /\ UNCHANGED <<open, io>>

Tick ==
  /\ clock < MaxTime
  /\ clock' = clock + 1
  /\ UNCHANGED <<conn, readEvt, writeEvt, ring, cq, open, loop, io>>

(* The parent stores its request whatever the word holds. *)
ParentRequests ==
  /\ quit # "QUIT_REQ"
  /\ quit' = "QUIT_REQ"
  /\ UNCHANGED <<conn, readEvt, writeEvt, ring, cq, open, time, ior, pc, clock, io>>

-----------------------------------------------------------------------------
(* ain_wait_io_events: one completion at a time. *)

(* The completion at hand, when it is one of event e of slot c.  The counter
   of completions stops just above IO_QUERY_CNT, the only value it is
   compared with. *)
Take(c, e) ==
  /\ pc = "wait"
  /\ cq # <<>> /\ Head(cq).slot = c /\ Head(cq).evt = e
  /\ cq' = Tail(cq)
  /\ ior' = IF ior <= IO_QUERY_CNT THEN ior + 1 ELSE ior
  /\ UNCHANGED <<time, pc, clock, io>>

Result == Head(cq).res

(* ain_socket_onaccept *)
OnAcceptError(c) ==
  /\ Take(c, "read_evt")
  /\ readEvt[c].handler = "ain_socket_onaccept"
  /\ Result = "error"
  /\ Close(c)
  /\ UNCHANGED quit

OnAccept(c) ==
  /\ Take(c, "read_evt")
  /\ readEvt[c].handler = "ain_socket_onaccept"
  /\ Result # "error"
  /\ conn' = [conn EXCEPT ![c].fd = Head(cq).fd, ![c].connected = 1]
  /\ SubmitRead(c, Head(cq).fd)
  /\ UNCHANGED <<writeEvt, open, quit>>

(* Mutant of OnReadEnd: the end of a connection is answered like a chunk. *)
AnswerOnEnd(c) ==
  /\ Take(c, "read_evt")
  /\ readEvt[c].handler = "ain_socket_onread"
  /\ Result \in {"zero", "error"}
  /\ ring' = [ring EXCEPT ![c] = Append(@, WriteOp(c, conn[c].fd))]
  /\ UNCHANGED <<conn, readEvt, writeEvt, open, quit>>

(* ain_socket_onread and ain_conn_onread.  The condition there also lets an
   error equal to AIN_IO_PENDING, -3, through; no read ends with -ESRCH. *)
OnReadEnd(c) ==
  /\ Take(c, "read_evt")
  /\ readEvt[c].handler = "ain_socket_onread"
  /\ Result \in {"zero", "error"}
  /\ Close(c)
  /\ UNCHANGED quit

Received(c) ==
  /\ Take(c, "read_evt")
  /\ readEvt[c].handler = "ain_socket_onread"
  /\ Result \in {"ok", "quit"}

(* on_http answers every chunk with the response in write_evt, which the
   first chunk allocates. *)
OnReadHttp(c) ==
  /\ Received(c) /\ Proto[c] = "http"
  /\ conn' = [conn EXCEPT ![c].time = time, ![c].keep_alive = 1]
  /\ writeEvt' = [writeEvt EXCEPT ![c] = [alloc |-> 1, fd |-> conn[c].fd]]
  /\ ring' = [ring EXCEPT ![c] = Append(@, WriteOp(c, conn[c].fd))]
  /\ UNCHANGED <<readEvt, open, quit>>

(* on_ain hangs up whatever it is told, as on_proto_none does; "quit" stores a
   command first. *)
OnReadHangUp(c) ==
  /\ Received(c) /\ Proto[c] \in {"ain", "none"}
  /\ quit' = IF Proto[c] = "ain" /\ Result = "quit" THEN "QUIT_CMD" ELSE quit
  /\ Close(c)

(* on_sip asks for more. *)
OnReadSip(c) ==
  /\ Received(c) /\ Proto[c] = "sip"
  /\ conn' = [conn EXCEPT ![c].time = time]
  /\ SubmitRead(c, readEvt[c].fd)
  /\ UNCHANGED <<writeEvt, open, quit>>

(* ain_socket_onwrite and ain_conn_onwrite *)
OnWriteError(c) ==
  /\ Take(c, "write_evt")
  /\ Result \in {"zero", "error"}
  /\ Close(c)
  /\ UNCHANGED quit

(* Mutant of OnWrite: nothing follows the response. *)
OnWriteForgets(c) ==
  /\ Take(c, "write_evt")
  /\ Result \notin {"zero", "error"}
  /\ UNCHANGED <<conn, readEvt, ring, writeEvt, open, quit>>

OnWrite(c) ==
  /\ Take(c, "write_evt")
  /\ Result \notin {"zero", "error"}
  /\ SubmitRead(c, readEvt[c].fd)
  /\ UNCHANGED <<conn, writeEvt, open, quit>>

Handle(c) ==
  \/ OnAcceptError(c) \/ OnAccept(c)
  \/ OnReadEnd(c) \/ OnReadHttp(c) \/ OnReadHangUp(c) \/ OnReadSip(c)
  \/ OnWriteError(c) \/ OnWrite(c)

(* Mutants of Expired: a result code of its own for an idle wait; the code
   for a timeout, which the sweep is written for, but which accepts again on
   every slot that is still waiting for its client. *)
ExpiredPending(n) == IF n = 0 THEN -3 ELSE n
ExpiredTimeout(n) == IF n = 0 THEN AIN_TIMEOUT ELSE n

(* What the wait returns when 50 ms pass without a completion: the number of
   completions handled, never AIN_TIMEOUT. *)
Expired(n) == n

(* The wait ends only on an empty completion queue: it expires, or a signal
   interrupts it. *)
WaitEnds ==
  /\ pc = "wait" /\ cq = <<>>
  /\ \/ ior' = Expired(ior) /\ io' = io
     \/ ior' = AIN_ERROR /\ io < MaxIo /\ io' = io + 1
  /\ pc' = "sweep"
  /\ UNCHANGED <<conn, readEvt, writeEvt, ring, cq, open, time, quit, clock>>

-----------------------------------------------------------------------------
(* The rest of the loop of ain_worker_proc. *)

(* A slot without a socket is accepted on again once the clock has moved; an
   idle kept-alive connection is closed. *)
Reusable(k, now) == k.fd = INVALID_SOCKET /\ now - k.time > 0
Idle(k, now) ==
  /\ k.keep_alive = 1
  /\ k.connected = 1
  /\ now - k.time > IDLE_LIMIT

(* Mutant of GoesOn: only the worker's own command ends the loop. *)
GoesOnUnlessCommand == quit # "QUIT_CMD"

(* The loop condition. *)
GoesOn == quit # "QUIT_REQ"

(* ain_conn_accept, on the slot; handler and operation are set beside it. *)
Accepting(k) == [k EXCEPT !.connected = 0]

(* The body of the loop after the wait, and the loop condition. *)
Sweep ==
  /\ pc = "sweep"
  /\ time' = IF ior = AIN_TIMEOUT THEN clock ELSE time
  /\ LET busy  == ior = IO_QUERY_CNT
         again == {c \in Slot : ~busy /\ Reusable(conn[c], time')}
         idle  == {c \in Slot : ~busy /\ c \notin again /\ Idle(conn[c], time')}
     IN /\ conn' = [c \in Slot |->
              IF c \in again THEN Accepting(conn[c])
              ELSE IF c \in idle THEN Closed(conn[c], time') ELSE conn[c]]
        /\ readEvt' = [c \in Slot |->
              IF c \in again
              THEN [readEvt[c] EXCEPT !.handler = "ain_socket_onaccept"]
              ELSE readEvt[c]]
        /\ ring' = [c \in Slot |->
              IF c \in again THEN Append(ring[c], AcceptOp(c)) ELSE ring[c]]
        /\ open' = open \ {conn[c].fd : c \in idle}
  /\ pc' = IF GoesOn THEN "wait" ELSE "drain"
  /\ ior' = 0
  /\ UNCHANGED <<writeEvt, cq, quit, clock, io>>

(* After the loop: close every slot, destroy the ring and the pool.  The ring
   takes its operations and unhandled completions with it. *)
CloseAll ==
  /\ pc = "drain"
  /\ conn' = [c \in Slot |-> Closed(conn[c], time)]
  /\ open' = open \ {conn[c].fd : c \in Slot}
  /\ ring' = [c \in Slot |-> <<>>]
  /\ cq' = <<>>
  /\ pc' = "closed"
  /\ UNCHANGED <<readEvt, writeEvt, time, ior, quit, clock, io>>

WriteEnd ==
  /\ pc = "closed"
  /\ quit' = "END"
  /\ pc' = "ended"
  /\ UNCHANGED <<conn, readEvt, writeEvt, ring, cq, open, time, ior, clock, io>>

-----------------------------------------------------------------------------
WorkerStep == (\E c \in Slot : Handle(c)) \/ WaitEnds \/ Sweep \/ CloseAll \/ WriteEnd

KernelStep(c) ==
  \/ ClientConnects(c) \/ AcceptFails(c) \/ ClientSends(c) \/ ClientLeaves(c)
  \/ WriteDone(c)

Next ==
  \/ WorkerStep
  \/ \E c \in Slot : KernelStep(c)
  \/ ParentRequests
  \/ Tick

Spec == Init /\ [][Next]_vars

(* The worker is scheduled, the clock goes on, and the parent answers a
   command at its next poll.  No client, and no signal, has to do anything. *)
FairSpec ==
  /\ Spec
  /\ WF_vars(WorkerStep)
  /\ WF_vars(Tick)
  /\ WF_vars(quit = "QUIT_CMD" /\ ParentRequests)

-----------------------------------------------------------------------------
(* Properties. *)

Serving == pc \in {"wait", "sweep"}

(* The operations of slot c the worker has yet to handle: in the kernel, and
   in the completion queue. *)
Ops(c) ==
  {ring[c][n] : n \in DOMAIN ring[c]} \cup
  {cq[n] : n \in {m \in DOMAIN cq : cq[m].slot = c}}

(* A slot never has two operations under way: its one read event, its buffer
   and its handler are not reused under an operation that still needs them. *)
OneOpPerSlot ==
  /\ \A c \in Slot : Len(ring[c]) <= 1
  /\ \A c \in Slot, n \in DOMAIN cq : cq[n].slot = c => ring[c] = <<>>
  /\ \A m, n \in DOMAIN cq : cq[m].slot = cq[n].slot => m = n

(* The handler that will run for an accept or a read is the one that was
   submitted with it, although event and completion only meet when the
   completion is taken. *)
HandlerMatchesOp ==
  \A c \in Slot : \A o \in Ops(c) :
    o.evt = "read_evt" =>
      (readEvt[c].handler = "ain_socket_onaccept" <=> o.op = "accept")

(* A connection the server keeps is never forgotten: while the worker serves,
   some operation on its own open socket is under way for it, and no other
   slot owns that socket. *)
ConnectionIsServed ==
  Serving =>
    \A c \in Slot : conn[c].connected = 1 =>
      /\ conn[c].fd \in open
      /\ \E o \in Ops(c) : o.op # "accept" /\ o.fd = conn[c].fd
      /\ \A d \in Slot \ {c} : conn[d].fd # conn[c].fd

(* No client socket leaks while the worker serves: each open descriptor
   belongs to a slot, or to an accept the worker has yet to handle. *)
NoSocketLeak ==
  Serving =>
    open = {conn[c].fd : c \in {d \in Slot : conn[d].connected = 1}} \cup
           {cq[n].fd : n \in {m \in DOMAIN cq : cq[m].op = "accept" /\ cq[m].res = "ok"}}

(* A request to quit is honoured although a management client may overwrite
   the word that carries it with a command of its own. *)
QuitHonoured == (quit = "QUIT_REQ") ~> (pc = "ended")

(* The life of a slot, read off its one operation. *)
Phase(c) ==
  IF Ops(c) = {} THEN "closed"
  ELSE LET o == CHOOSE x \in Ops(c) : TRUE
       IN CASE o.res = "pending" /\ o.op = "accept" -> "listening"
            [] o.res = "pending" /\ o.op = "read"   -> "reading"
            [] o.res = "pending" /\ o.op = "write"  -> "writing"
            [] o.res \in {"zero", "error"}          -> "failed"
            [] o.res \in {"ok", "quit"} /\ o.op = "accept" -> "arrived"
            [] o.res \in {"ok", "quit"} /\ o.op = "read"   -> "heard"
            [] o.res \in {"ok", "quit"} /\ o.op = "write"  -> "written"

OpSocket(c) ==
  IF Ops(c) = {} THEN INVALID_SOCKET ELSE (CHOOSE o \in Ops(c) : TRUE).fd

(* The worker implements the life of its slots: a client is answered only
   after it was heard, on its own socket, and closed only when it left, failed
   or was told so. *)
Life == INSTANCE SlotLife
          WITH Socket <- Fd, None <- INVALID_SOCKET,
               phase <- [c \in Slot |-> Phase(c)],
               sock <- [c \in Slot |-> OpSocket(c)],
               stopped <- (pc \in {"closed", "ended"})
ImplementsSlotLife == Life!Spec

(* "re-use closed socket": a slot that closed is accepted on again, once the
   clock has gone on, as long as the worker serves. *)
ClosedSlotReused ==
  \A c \in Slot :
    (Serving /\ Ops(c) = {} /\ conn[c].time < MaxTime)
      ~> (Ops(c) # {} \/ ~Serving)
=============================================================================
