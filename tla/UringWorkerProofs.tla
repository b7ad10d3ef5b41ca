------------------------- MODULE UringWorkerProofs -------------------------
(***************************************************************************)
(* A worker of the Linux server serves each of its slots with one          *)
(* operation at a time, on a socket of the slot's own, and so implements   *)
(* the life of its slots (module SlotLife); for every number of slots,     *)
(* listeners, descriptors and events.                                      *)
(*                                                                         *)
(* The proof has two levels.  QueueInv is about the ring and the           *)
(* completion queue as sequences, and gives what each step does to the     *)
(* operations of a slot, Ops(c).  SlotInv and SocketInv relate those       *)
(* operations to the slot, its event and the open sockets, and no longer   *)
(* look at the sequences.                                                  *)
(***************************************************************************)
EXTENDS UringWorker, SequenceTheorems, TLAPS

(* The scalar part: the worker's time never moves (ior is never AIN_TIMEOUT),
   and no slot is stamped with another time. *)
LoopInv ==
  /\ TypeOK
  /\ time = 0
  /\ \A c \in Slot : conn[c].time = 0
  /\ ior >= AIN_ERROR

(* Each slot has at most one operation, in its place. *)
QueueInv ==
  /\ OneOpPerSlot
  /\ \A c \in Slot : ring[c] # <<>> =>
       Head(ring[c]).slot = c /\ Head(ring[c]).res = "pending"
  /\ \A n \in DOMAIN cq : cq[n].res # "pending"
  /\ ~Serving /\ pc # "drain" => cq = <<>> /\ \A c \in Slot : ring[c] = <<>>

(* The operation of a slot, its event and its connection belong together. *)
Fits(c, o) ==
  \/ /\ o.op = "accept" /\ o.evt = "read_evt"
     /\ o.res \in {"pending", "ok", "error"}
     /\ o.fd \in Fd <=> o.res = "ok"
     /\ readEvt[c].handler = "ain_socket_onaccept"
     /\ conn[c].connected = 0 /\ conn[c].fd = INVALID_SOCKET
  \/ /\ <<o.op, o.evt>> \in {<<"read", "read_evt">>, <<"write", "write_evt">>}
     /\ o.op = "write" => o.res # "quit"
     /\ o.fd \in Fd
     /\ readEvt[c] = [handler |-> "ain_socket_onread", fd |-> o.fd]
     /\ conn[c].connected = 1 /\ conn[c].fd = o.fd

SlotInv ==
  \A c \in Slot :
    /\ \A o \in Ops(c) : Fits(c, o)
    /\ Ops(c) = {} => conn[c].connected = 0 /\ conn[c].fd = INVALID_SOCKET

(* The open sockets are those of the operations, each of one slot. *)
SocketInv ==
  /\ \A c, d \in Slot : \A o \in Ops(c), p \in Ops(d) :
       o.fd \in Fd /\ o.fd = p.fd => c = d
  /\ \A c \in Slot : \A o \in Ops(c) : o.fd \in Fd => o.fd \in open
  /\ Serving \/ pc = "drain" =>
       \A f \in open : \E c \in Slot : \E o \in Ops(c) : o.fd = f

WorkerInv == LoopInv /\ QueueInv /\ SlotInv /\ SocketInv
-----------------------------------------------------------------------------
(* The queues. *)

(* What Ops(c) holds, without its set notation. *)
LEMMA OpsMember ==
  ASSUME NEW c \in Slot
  PROVE  /\ \A o : o \in Ops(c) <=>
              \/ \E n \in DOMAIN ring[c] : o = ring[c][n]
              \/ \E n \in DOMAIN cq : cq[n].slot = c /\ o = cq[n]
         /\ \A o : o \in Ops(c)' <=>
              \/ \E n \in DOMAIN ring'[c] : o = ring'[c][n]
              \/ \E n \in DOMAIN cq' : cq'[n].slot = c /\ o = cq'[n]
  BY DEF Ops

(* A slot that has an operation in the ring has no other. *)
LEMMA RingOps ==
  ASSUME LoopInv, QueueInv, NEW c \in Slot, ring[c] # <<>>
  PROVE  /\ ring[c] = <<Head(ring[c])>> /\ Head(ring[c]) \in Op
         /\ Ops(c) = {Head(ring[c])}
         /\ \A n \in DOMAIN cq : cq[n].slot # c
<1>1. ring[c] \in Seq(Op) /\ Len(ring[c]) = 1
  <2>1. ring[c] \in Seq(Op)
    BY DEF LoopInv, TypeOK
  <2>2. Len(ring[c]) <= 1
    BY DEF QueueInv, OneOpPerSlot
  <2>3. Len(ring[c]) \in Nat /\ Len(ring[c]) # 0
    BY <2>1, EmptySeq
  <2>4. \A n \in Nat : n <= 1 /\ n # 0 => n = 1
    OBVIOUS
  <2>5. Len(ring[c]) = 1
    BY ONLY <2>2, <2>3, <2>4
  <2> QED
    BY <2>1, <2>5
<1>2. ring[c] = <<Head(ring[c])>> /\ Head(ring[c]) \in Op
  BY <1>1
<1>3. \A n \in DOMAIN cq : cq[n].slot # c
  BY DEF QueueInv, OneOpPerSlot
<1>4. \A o : o \in Ops(c) <=> o = Head(ring[c])
  BY <1>1, <1>2, <1>3, OpsMember
<1> QED
  BY <1>2, <1>3, <1>4

(* A slot that has a completion has no other operation. *)
LEMMA CqOps ==
  ASSUME LoopInv, QueueInv, NEW n \in DOMAIN cq
  PROVE  /\ cq[n] \in Op /\ ring[cq[n].slot] = <<>>
         /\ Ops(cq[n].slot) = {cq[n]}
         /\ \A m \in DOMAIN cq : cq[m].slot = cq[n].slot => m = n
<1>1. cq[n] \in Op /\ cq[n].slot \in Slot
  <2>1. cq \in Seq(Op)
    BY DEF LoopInv, TypeOK
  <2>2. cq[n] \in Op
    BY <2>1, ElementOfSeq
  <2> QED
    BY <2>2 DEF Op
<1>2. /\ ring[cq[n].slot] = <<>>
      /\ \A m \in DOMAIN cq : cq[m].slot = cq[n].slot => m = n
  BY <1>1 DEF QueueInv, OneOpPerSlot
<1>3. DOMAIN ring[cq[n].slot] = {}
  BY <1>2
<1>4. \A o : o \in Ops(cq[n].slot) <=> o = cq[n]
  BY <1>1, <1>2, <1>3, OpsMember
<1> QED
  BY <1>1, <1>2, <1>4

(* The operation once it completed. *)
Completed(o, f, r) == [o EXCEPT !.fd = f, !.res = r]

(* In short: all operations of a slot are one. *)
LEMMA OneOp ==
  ASSUME LoopInv, QueueInv, NEW c \in Slot, NEW o \in Ops(c)
  PROVE  Ops(c) = {o}
<1>1. CASE ring[c] # <<>>
  BY <1>1, RingOps
<1>2. CASE ring[c] = <<>>
  <2>1. DOMAIN ring[c] = {}
    BY <1>2
  <2>2. PICK n \in DOMAIN cq : cq[n].slot = c /\ o = cq[n]
    BY <2>1, OpsMember
  <2> QED
    BY <2>2, CqOps
<1> QED
  BY <1>1, <1>2

(* The kernel's part: it moves the one operation of a slot, with its result,
   from the ring to the completion queue. *)
LEMMA CompleteOps ==
  ASSUME LoopInv, QueueInv, NEW c \in Slot, ring[c] # <<>>,
         NEW f \in Fd \cup {INVALID_SOCKET}, NEW r \in {"ok", "quit", "zero", "error"},
         Complete(c, f, r)
  PROVE  /\ ring' \in [Slot -> Seq(Op)] /\ cq' \in Seq(Op)
         /\ QueueInv'
         /\ Ops(c) = {Head(ring[c])}
         /\ Ops(c)' = {Completed(Head(ring[c]), f, r)}
         /\ \A d \in Slot \ {c} : Ops(d)' = Ops(d)
<1> DEFINE p == Completed(Head(ring[c]), f, r)
<1>1. /\ ring[c] = <<Head(ring[c])>> /\ Head(ring[c]) \in Op
      /\ Head(ring[c]).slot = c
      /\ Ops(c) = {Head(ring[c])}
      /\ \A n \in DOMAIN cq : cq[n].slot # c
  BY RingOps DEF QueueInv
<1>2. p \in Op /\ p.slot = c /\ p.res = r
  BY <1>1 DEF Op, Completed
<1> HIDE DEF p
<1>3. /\ ring' \in [Slot -> Seq(Op)] /\ ring'[c] = <<>>
      /\ \A d \in Slot \ {c} : ring'[d] = ring[d]
  <2>1. ring \in [Slot -> Seq(Op)] /\ ring' = [ring EXCEPT ![c] = Tail(@)]
    BY DEF Complete, LoopInv, TypeOK
  <2>2. Tail(<<Head(ring[c])>>) = <<>>
    OBVIOUS
  <2>4. Tail(ring[c]) = <<>>
    BY <1>1, <2>2
  <2>3. <<>> \in Seq(Op)
    OBVIOUS
  <2> QED
    BY <2>1, <2>4, <2>3
<1>4. /\ cq \in Seq(Op) /\ cq' \in Seq(Op) /\ Len(cq') = Len(cq) + 1
      /\ cq'[Len(cq) + 1] = p
      /\ \A n \in 1 .. Len(cq) : cq'[n] = cq[n]
  BY <1>2 DEF Complete, LoopInv, TypeOK, p, Completed
<1>5. /\ DOMAIN cq = 1 .. Len(cq) /\ DOMAIN cq' = 1 .. Len(cq) + 1
      /\ Len(cq) \in Nat
  BY <1>4
<1>6. QueueInv'
  <2>1. OneOpPerSlot'
    <3>1. \A d \in Slot : Len(ring'[d]) <= 1
      BY <1>3 DEF OneOpPerSlot, QueueInv
    <3>2. ASSUME NEW d \in Slot, NEW n \in DOMAIN cq', cq'[n].slot = d
          PROVE  ring'[d] = <<>>
      BY <3>2, <1>2, <1>3, <1>4, <1>5, SMTT(30) DEF OneOpPerSlot, QueueInv
    <3>3. ASSUME NEW m \in DOMAIN cq', NEW n \in DOMAIN cq',
                 cq'[m].slot = cq'[n].slot
          PROVE  m = n
      BY <3>3, <1>1, <1>2, <1>4, <1>5 DEF OneOpPerSlot, QueueInv
    <3> QED
      BY <3>1, <3>2, <3>3 DEF OneOpPerSlot
  <2>2. (\A d \in Slot : ring[d] # <<>> =>
           Head(ring[d]).slot = d /\ Head(ring[d]).res = "pending")'
    BY <1>3 DEF QueueInv
  <2>3. (\A n \in DOMAIN cq : cq[n].res # "pending")'
    BY <1>2, <1>4, <1>5 DEF QueueInv
  <2>4. pc' = pc /\ (Serving \/ pc = "drain")
    BY <1>1 DEF Complete, loop, QueueInv
  <2> QED
    BY <2>1, <2>2, <2>3, <2>4 DEF QueueInv, Serving
<1>7. Ops(c)' = {p}
  <2>1. DOMAIN ring'[c] = {}
    BY <1>3
  <2>2. \A q : q \in Ops(c)' <=> q = p
    BY <1>1, <1>2, <1>4, <1>5, <2>1, OpsMember
  <2> QED
    BY <2>2
<1>8. ASSUME NEW d \in Slot \ {c} PROVE Ops(d)' = Ops(d)
  <2>1. /\ ring'[d] = ring[d]
        /\ \A q : (\E n \in DOMAIN cq' : cq'[n].slot = d /\ q = cq'[n])
                 <=> \E n \in DOMAIN cq : cq[n].slot = d /\ q = cq[n]
    BY <1>2, <1>3, <1>4, <1>5, SMTT(30)
  <2>2. \A q : q \in Ops(d)' <=> q \in Ops(d)
    BY <2>1, OpsMember
  <2> QED
    BY <2>2
<1> QED
  BY <1>1, <1>3, <1>4, <1>6, <1>7, <1>8 DEF p

(* Taking a completion off the queue leaves the slot without operation. *)
LEMMA TakeFirst ==
  ASSUME LoopInv, QueueInv, NEW c \in Slot, NEW e, Take(c, e)
  PROVE  /\ cq' \in Seq(Op)
         /\ Head(cq) \in Op /\ Head(cq).slot = c /\ Head(cq).evt = e
         /\ Head(cq).res # "pending"
         /\ Ops(c) = {Head(cq)}
         /\ ring[c] = <<>>
         /\ \A n \in DOMAIN cq' : n \in Nat /\ n + 1 \in DOMAIN cq /\ cq'[n] = cq[n + 1]
                                  /\ cq'[n].slot # c /\ cq'[n].res # "pending"
         /\ \A m, n \in DOMAIN cq' : cq'[m].slot = cq'[n].slot => m = n
         /\ \A n \in DOMAIN cq : cq[n].slot # c => n - 1 \in DOMAIN cq' /\ cq[n] = cq'[n - 1]
<1>1. cq \in Seq(Op) /\ cq # <<>> /\ Head(cq).slot = c /\ Head(cq).evt = e
      /\ cq' = Tail(cq)
  BY DEF Take, LoopInv, TypeOK
<1>2. Len(cq) \in Nat /\ Len(cq) # 0 /\ DOMAIN cq = 1 .. Len(cq)
  BY <1>1, EmptySeq
<1>3. /\ cq' \in Seq(Op) /\ Len(cq') = Len(cq) - 1
      /\ \A n \in 1 .. Len(cq') : cq'[n] = cq[n + 1]
  BY <1>1, HeadTailProperties
<1>4. DOMAIN cq' = 1 .. Len(cq) - 1
  BY <1>3
<1>5. Head(cq) = cq[1] /\ 1 \in DOMAIN cq
  BY <1>1, <1>2
<1>6. /\ Head(cq) \in Op /\ ring[c] = <<>> /\ Ops(c) = {Head(cq)}
      /\ \A m \in DOMAIN cq : cq[m].slot = c => m = 1
  BY <1>1, <1>5, CqOps
<1>7. /\ \A n \in DOMAIN cq : cq[n].res # "pending"
      /\ \A m, n \in DOMAIN cq : cq[m].slot = cq[n].slot => m = n
  BY DEF QueueInv, OneOpPerSlot
<1>8. ASSUME NEW n \in DOMAIN cq'
      PROVE  /\ n \in Nat /\ n + 1 \in DOMAIN cq /\ n + 1 # 1 /\ cq'[n] = cq[n + 1]
             /\ cq'[n].slot # c /\ cq'[n].res # "pending"
  <2>1. n \in Nat /\ n + 1 \in DOMAIN cq /\ n + 1 # 1
    BY <1>2, <1>4
  <2>2. cq'[n] = cq[n + 1]
    BY <1>3, <1>4
  <2> QED
    BY <2>1, <2>2, <1>6, <1>7
<1>9. ASSUME NEW m \in DOMAIN cq', NEW n \in DOMAIN cq', cq'[m].slot = cq'[n].slot
      PROVE  m = n
  <2>1. m + 1 = n + 1
    BY <1>7, <1>8, <1>9
  <2> QED
    BY <1>8, <2>1
<1>10. ASSUME NEW n \in DOMAIN cq, cq[n].slot # c
       PROVE  n - 1 \in DOMAIN cq' /\ cq[n] = cq'[n - 1]
  <2>1. n # 1
    BY <1>1, <1>5, <1>10
  <2>2. n - 1 \in DOMAIN cq' /\ (n - 1) + 1 = n
    BY <2>1, <1>2, <1>4
  <2> QED
    BY <2>2, <1>8
<1>11. Head(cq).res # "pending"
  BY <1>5, <1>7
<1> QED
  BY <1>1, <1>3, <1>6, <1>8, <1>9, <1>10, <1>11

(* A handler that submits nothing leaves its slot without an operation. *)
LEMMA TakeOps ==
  ASSUME LoopInv, QueueInv, NEW c \in Slot, NEW e, Take(c, e), ring' = ring
  PROVE  /\ QueueInv'
         /\ Ops(c)' = {}
         /\ \A d \in Slot \ {c} : Ops(d)' = Ops(d)
<1>1. QueueInv'
  <2>1. \A d \in Slot, n \in DOMAIN cq' : cq'[n].slot = d => ring'[d] = <<>>
    BY TakeFirst DEF QueueInv, OneOpPerSlot
  <2>2. OneOpPerSlot'
    BY <2>1, TakeFirst DEF QueueInv, OneOpPerSlot
  <2>3. pc' = pc /\ Serving
    BY DEF Take, Serving
  <2> QED
    BY <2>2, <2>3, TakeFirst DEF QueueInv, Serving
<1>2. Ops(c)' = {}
  <2>1. DOMAIN ring'[c] = {}
    BY TakeFirst
  <2>2. \A p : p \notin Ops(c)'
    BY <2>1, TakeFirst, OpsMember
  <2> QED
    BY <2>2
<1>3. ASSUME NEW d \in Slot \ {c} PROVE Ops(d)' = Ops(d)
  <2>1. \A p : (\E n \in DOMAIN cq' : cq'[n].slot = d /\ p = cq'[n])
                 <=> \E n \in DOMAIN cq : cq[n].slot = d /\ p = cq[n]
    BY TakeFirst
  <2>2. \A p : p \in Ops(d)' <=> p \in Ops(d)
    BY <2>1, OpsMember
  <2> QED
    BY <2>2
<1> QED
  BY <1>1, <1>2, <1>3

(* A handler that submits an operation leaves its slot with that one alone. *)
LEMMA SubmitOps ==
  ASSUME LoopInv, QueueInv, NEW c \in Slot, NEW e, Take(c, e),
         NEW o \in Op, o.slot = c, o.res = "pending",
         ring' = [ring EXCEPT ![c] = Append(@, o)]
  PROVE  /\ ring' \in [Slot -> Seq(Op)]
         /\ QueueInv'
         /\ Ops(c)' = {o}
         /\ \A d \in Slot \ {c} : Ops(d)' = Ops(d)
<1>1. /\ ring' \in [Slot -> Seq(Op)] /\ ring'[c] = <<o>>
      /\ \A d \in Slot \ {c} : ring'[d] = ring[d]
  <2>1. ring \in [Slot -> Seq(Op)] /\ ring[c] = <<>>
    BY TakeFirst DEF LoopInv, TypeOK
  <2>2. Append(<<>>, o) = <<o>> /\ <<o>> \in Seq(Op)
    OBVIOUS
  <2> QED
    BY <2>1, <2>2
<1>2. QueueInv'
  <2>1. ASSUME NEW d \in Slot, NEW n \in DOMAIN cq', cq'[n].slot = d
        PROVE  ring'[d] = <<>>
    BY <1>1, <2>1, TakeFirst DEF QueueInv, OneOpPerSlot
  <2>2. Len(<<o>>) = 1 /\ Head(<<o>>) = o
    OBVIOUS
  <2>3. ASSUME NEW d \in Slot
        PROVE  /\ Len(ring'[d]) <= 1
               /\ ring'[d] # <<>> => Head(ring'[d]).slot = d /\ Head(ring'[d]).res = "pending"
    <3>1. CASE d = c
      BY <3>1, <1>1, <2>2
    <3>2. CASE d # c
      BY <3>2, <1>1 DEF QueueInv, OneOpPerSlot
    <3> QED
      BY <3>1, <3>2
  <2>4. OneOpPerSlot'
    BY <2>1, <2>3, TakeFirst DEF OneOpPerSlot
  <2>5. pc' = pc /\ Serving
    BY DEF Take, Serving
  <2> QED
    BY <2>3, <2>4, <2>5, TakeFirst DEF QueueInv, Serving
<1>3. Ops(c)' = {o}
  <2>1. DOMAIN ring'[c] = {1} /\ ring'[c][1] = o
    BY <1>1
  <2>2. \A p : p \in Ops(c)' <=> p = o
    BY <2>1, TakeFirst, OpsMember
  <2> QED
    BY <2>2
<1>4. ASSUME NEW d \in Slot \ {c} PROVE Ops(d)' = Ops(d)
  <2>1. \A p : (\E n \in DOMAIN cq' : cq'[n].slot = d /\ p = cq'[n])
                 <=> \E n \in DOMAIN cq : cq[n].slot = d /\ p = cq[n]
    BY TakeFirst
  <2>2. \A p : p \in Ops(d)' <=> p \in Ops(d)
    <3>1. ring'[d] = ring[d]
      BY <1>1
    <3> QED
      BY <2>1, <3>1, OpsMember
  <2> QED
    BY <2>2
<1> QED
  BY <1>1, <1>2, <1>3, <1>4

(* A step that leaves the queues alone leaves the operations alone. *)
LEMMA SameOps ==
  ASSUME ring' = ring, cq' = cq
  PROVE  \A c \in Slot : Ops(c)' = Ops(c)
  BY DEF Ops

-----------------------------------------------------------------------------
(* The slots. *)

(* Only slot c moved, and its operation still fits. *)
LEMMA SlotMoves ==
  ASSUME SlotInv, NEW c \in Slot,
         \A d \in Slot \ {c} :
            Ops(d)' = Ops(d) /\ conn'[d] = conn[d] /\ readEvt'[d] = readEvt[d],
         \A o \in Ops(c)' : Fits(c, o)',
         Ops(c)' = {} => conn'[c].connected = 0 /\ conn'[c].fd = INVALID_SOCKET
  PROVE  SlotInv'
<1>1. ASSUME NEW d \in Slot \ {c}
      PROVE  /\ \A o \in Ops(d)' : Fits(d, o)'
             /\ Ops(d)' = {} => conn'[d].connected = 0 /\ conn'[d].fd = INVALID_SOCKET
  BY DEF SlotInv, Fits
<1> QED
  BY <1>1 DEF SlotInv

(* The operation of slot c moved on, on the same socket. *)
LEMMA SocketStays ==
  ASSUME SocketInv, NEW c \in Slot, NEW o, NEW p,
         \A d \in Slot \ {c} : Ops(d)' = Ops(d),
         Ops(c) = {o}, Ops(c)' = {p}, p.fd = o.fd, open' = open, pc' = pc
  PROVE  SocketInv'
  BY DEF SocketInv, Serving

(* A client arrived at slot c, on a descriptor that was free. *)
LEMMA SocketOpens ==
  ASSUME SocketInv, NEW c \in Slot, NEW o, NEW p,
         \A d \in Slot \ {c} : Ops(d)' = Ops(d),
         Ops(c) = {o}, Ops(c)' = {p}, o.fd \notin Fd, p.fd \in Fd \ open,
         open' = open \cup {p.fd}, open \subseteq Fd, pc' = pc
  PROVE  SocketInv'
<1>1. ASSUME NEW a \in Slot, NEW b \in Slot, NEW x \in Ops(a)', NEW y \in Ops(b)',
             x.fd \in Fd, x.fd = y.fd
      PROVE  a = b
  BY <1>1 DEF SocketInv
<1>2. ASSUME NEW a \in Slot, NEW x \in Ops(a)', x.fd \in Fd
      PROVE  x.fd \in open'
  BY <1>2 DEF SocketInv
<1>3. ASSUME (Serving \/ pc = "drain")', NEW f \in open'
      PROVE  \E a \in Slot : \E x \in Ops(a)' : x.fd = f
  <2>1. CASE f = p.fd
    BY <2>1
  <2>2. CASE f \in open
    BY <1>3, <2>2 DEF SocketInv, Serving
  <2> QED
    BY <2>1, <2>2
<1> QED
  BY <1>1, <1>2, <1>3 DEF SocketInv

(* Slot c closed, and its socket with it. *)
LEMMA SocketCloses ==
  ASSUME SocketInv, NEW c \in Slot, NEW o,
         \A d \in Slot \ {c} : Ops(d)' = Ops(d),
         Ops(c) = {o}, Ops(c)' = {}, open' = open \ {o.fd}, open \subseteq Fd, pc' = pc
  PROVE  SocketInv'
<1>1. ASSUME NEW a \in Slot, NEW x \in Ops(a)', x.fd \in Fd
      PROVE  x.fd \in open'
  BY <1>1 DEF SocketInv
<1>2. ASSUME (Serving \/ pc = "drain")', NEW f \in open'
      PROVE  \E a \in Slot : \E x \in Ops(a)' : x.fd = f
  BY <1>2 DEF SocketInv, Serving
<1> QED
  BY <1>1, <1>2 DEF SocketInv

-----------------------------------------------------------------------------
(* The steps. *)

(* The kernel's part of the step of slot c keeps what is typed. *)
LEMMA CompleteTypes ==
  ASSUME LoopInv, QueueInv, NEW c \in Slot, ring[c] # <<>>,
         NEW f \in Fd \cup {INVALID_SOCKET}, NEW r \in {"ok", "quit", "zero", "error"},
         Complete(c, f, r), open' \in SUBSET Fd, io' \in 0 .. MaxIo
  PROVE  LoopInv'
<1>1. ring' \in [Slot -> Seq(Op)] /\ cq' \in Seq(Op)
  BY CompleteOps
<1>2. UNCHANGED <<conn, readEvt, writeEvt, loop, clock>>
  BY DEF Complete
<1> QED
  BY <1>1, <1>2 DEF LoopInv, TypeOK, loop

(* What a handler does to the operations: the one of slot c makes room for the
   next, on the same socket, or, if it failed or was a read, for none. *)
HandledOp(c) ==
  \E o : /\ Ops(c) = {o} /\ o.res \in {"ok", "quit", "zero", "error"}
         /\ \A d \in Slot \ {c} : Ops(d)' = Ops(d)
         /\ \/ Ops(c)' = {} /\ (o.res \in {"zero", "error"} \/ o.op = "read")
            \/ \E p : /\ Ops(c)' = {p} /\ p.res = "pending" /\ p.fd = o.fd
                      /\ o.res \in {"ok", "quit"}
                      /\ <<o.op, p.op>> \in {<<"accept", "read">>, <<"read", "read">>,
                                             <<"read", "write">>, <<"write", "read">>}

(* What the kernel does to them: it completes the one of slot c; an accept on
   a descriptor that was free. *)
CompletedOp(c) ==
  \E o, p : /\ Ops(c) = {o} /\ o.res = "pending" /\ Ops(c)' = {p} /\ p.op = o.op
            /\ \A d \in Slot \ {c} : Ops(d)' = Ops(d)
            /\ \/ /\ o.op \in {"read", "write"} /\ p.fd = o.fd
                  /\ p.res \in {"ok", "quit", "zero", "error"}
               \/ o.op = "accept" /\ p.fd = INVALID_SOCKET /\ p.res = "error"
               \/ o.op = "accept" /\ p.fd \in Fd \ open /\ p.res = "ok"

(* A client connects to slot c, or accept fails, or the operation under way
   on its socket ends: in each case the operation still fits. *)
LEMMA KernelInv ==
  ASSUME WorkerInv, NEW c \in Slot, KernelStep(c)
  PROVE  WorkerInv' /\ CompletedOp(c)
<1>1. ring[c] # <<>>
  BY DEF KernelStep, ClientConnects, AcceptFails, ClientSends, ClientLeaves,
         WriteDone, Waiting
<1>a. LoopInv /\ QueueInv /\ SlotInv /\ SocketInv
  BY DEF WorkerInv
<1>o. PICK o : o = Head(ring[c])
  OBVIOUS
<1>2. /\ o \in Op /\ o.slot = c /\ o.res = "pending"
      /\ Ops(c) = {o} /\ Fits(c, o)
  BY <1>a, <1>o, <1>1, RingOps DEF QueueInv, SlotInv
<1>3. open \subseteq Fd /\ io \in 0 .. MaxIo /\ MaxIo \in Nat
  BY WorkerAssumption DEF WorkerInv, LoopInv, TypeOK
<1>4. /\ o.fd \in Fd \cup {INVALID_SOCKET}
      /\ o = [slot |-> o.slot, evt |-> o.evt, op |-> o.op, fd |-> o.fd, res |-> o.res]
  BY <1>2 DEF Op
<1>5. ASSUME NEW f \in Fd \cup {INVALID_SOCKET}, NEW r \in {"ok", "quit", "zero", "error"},
             Complete(c, f, r), io' \in 0 .. MaxIo,
             \/ o.op # "accept" /\ f = o.fd /\ open' = open /\ (o.op = "write" => r # "quit")
             \/ o.op = "accept" /\ f = INVALID_SOCKET /\ r = "error" /\ open' = open
             \/ o.op = "accept" /\ f \in Fd \ open /\ r = "ok" /\ open' = open \cup {f}
      PROVE  WorkerInv' /\ CompletedOp(c)
  <2>p. PICK p : p = Completed(o, f, r)
    OBVIOUS
  <2>1. /\ QueueInv' /\ Ops(c)' = {p}
        /\ \A d \in Slot \ {c} : Ops(d)' = Ops(d)
    BY <1>a, <1>o, <1>1, <1>5, <2>p, CompleteOps
  <2>2. LoopInv'
    BY <1>1, <1>3, <1>5, CompleteTypes DEF WorkerInv
  <2>3. p.op = o.op /\ p.evt = o.evt /\ p.fd = f /\ p.res = r
    BY <1>4, <2>p DEF Completed
  <2>4. UNCHANGED <<conn, readEvt, pc>>
    BY <1>5 DEF Complete, loop
  <2>5. Fits(c, p)'
    BY <1>2, <1>5, <2>3, <2>4, WorkerAssumption DEF Fits, INVALID_SOCKET
  <2>6. SlotInv'
    BY <2>1, <2>4, <2>5, SlotMoves DEF WorkerInv
  <2>7. SocketInv'
    <3>1. CASE f = o.fd /\ open' = open
      BY <3>1, <1>2, <2>1, <2>3, <2>4, SocketStays DEF WorkerInv
    <3>2. CASE o.op = "accept" /\ f = INVALID_SOCKET /\ open' = open
      <4>1. o.fd = INVALID_SOCKET
        BY <3>2, <1>2, <1>4 DEF Fits
      <4> QED
        BY <3>1, <3>2, <4>1
    <3>3. CASE o.op = "accept" /\ f \in Fd \ open /\ open' = open \cup {f}
      <4>1. o.fd \notin Fd
        BY <3>3, <1>2 DEF Fits
      <4> QED
        BY <3>3, <4>1, <1>2, <1>3, <2>1, <2>3, <2>4, SocketOpens DEF WorkerInv
    <3> QED
      BY <1>5, <3>1, <3>2, <3>3
  <2>8. CompletedOp(c)
    BY <1>2, <1>4, <1>5, <2>1, <2>3 DEF CompletedOp, Fits
  <2> QED
    BY <2>1, <2>2, <2>6, <2>7, <2>8 DEF WorkerInv
<1>6. CASE ClientConnects(c)
  <2>1. o.op = "accept" /\ io' = io + 1 /\ io < MaxIo
    BY <1>6, <1>o DEF ClientConnects, Waiting
  <2>2. PICK f \in Fd \ open : open' = open \cup {f} /\ Complete(c, f, "ok")
    BY <1>6, <1>o DEF ClientConnects
  <2> QED
    BY <2>1, <2>2, <1>3, <1>5
<1>7. CASE AcceptFails(c)
  <2>1. o.op = "accept" /\ io' = io /\ open' = open /\ Complete(c, INVALID_SOCKET, "error")
    BY <1>7, <1>o DEF AcceptFails, Waiting
  <2> QED
    BY <2>1, <1>3, <1>5
<1>8. CASE ClientSends(c)
  <2>1. o.op = "read" /\ io' = io + 1 /\ io < MaxIo /\ open' = open
    BY <1>8, <1>o DEF ClientSends, Waiting
  <2>2. PICK r \in {"ok", "quit"} : Complete(c, o.fd, r)
    BY <1>8, <1>o DEF ClientSends
  <2> QED
    BY <2>1, <2>2, <1>3, <1>4, <1>5
<1>9. CASE ClientLeaves(c)
  <2>1. o.op = "read" /\ io' = io /\ open' = open
    BY <1>9, <1>o DEF ClientLeaves, Waiting
  <2>2. PICK r \in {"zero", "error"} : Complete(c, o.fd, r)
    BY <1>9, <1>o DEF ClientLeaves
  <2> QED
    BY <2>1, <2>2, <1>3, <1>4, <1>5
<1>10. CASE WriteDone(c)
  <2>1. o.op = "write" /\ io' = io /\ open' = open
    BY <1>10, <1>o DEF WriteDone, Waiting
  <2>2. PICK r \in {"ok", "error"} : Complete(c, o.fd, r)
    BY <1>10, <1>o DEF WriteDone
  <2> QED
    BY <2>1, <2>2, <1>3, <1>4, <1>5
<1> QED
  BY <1>6, <1>7, <1>8, <1>9, <1>10 DEF KernelStep

(* What is typed, without the queues: the part a handler changes. *)
SlotTypes ==
  /\ conn \in [Slot -> [fd : Fd \cup {INVALID_SOCKET}, connected : {0, 1},
                        keep_alive : {0, 1}, time : {0}]]
  /\ readEvt \in [Slot -> [handler : {"ain_socket_onaccept", "ain_socket_onread"},
                           fd : Fd \cup {INVALID_SOCKET}]]
  /\ writeEvt \in [Slot -> [alloc : {0, 1}, fd : Fd \cup {INVALID_SOCKET}]]
  /\ open \in SUBSET Fd
  /\ quit \in {"RUN", "QUIT_REQ", "END", "QUIT_CMD"}

(* LoopInv says that and more. *)
LEMMA LoopSlotTypes ==
  ASSUME LoopInv
  PROVE  SlotTypes
<1>1. conn \in [Slot -> [fd : Fd \cup {INVALID_SOCKET}, connected : {0, 1},
                         keep_alive : {0, 1}, time : {0}]]
  <2>1. ASSUME NEW c \in Slot
        PROVE  conn[c] \in [fd : Fd \cup {INVALID_SOCKET}, connected : {0, 1},
                            keep_alive : {0, 1}, time : {0}]
    BY DEF LoopInv, TypeOK
  <2>2. conn = [c \in Slot |-> conn[c]]
    BY DEF LoopInv, TypeOK
  <2> QED
    BY <2>1, <2>2
<1> QED
  BY <1>1 DEF SlotTypes, LoopInv, TypeOK

(* Taking a completion keeps what is typed if the handler does. *)
LEMMA TakeTypes ==
  ASSUME LoopInv, NEW c \in Slot, NEW e, Take(c, e), SlotTypes',
         ring' \in [Slot -> Seq(Op)], cq' \in Seq(Op)
  PROVE  LoopInv'
<1>1. UNCHANGED <<time, pc, clock, io>>
  BY DEF Take
<1>2. ior' \in AIN_ERROR .. IO_QUERY_CNT + 1
  BY WorkerAssumption DEF Take, LoopInv, TypeOK, AIN_ERROR, AIN_TIMEOUT
<1>3. ior' \in AIN_TIMEOUT .. IO_QUERY_CNT + 1 /\ ior' >= AIN_ERROR
  BY <1>2, WorkerAssumption DEF AIN_ERROR, AIN_TIMEOUT
<1>4. (\A d \in Slot : conn[d].time = 0)'
  BY DEF SlotTypes
<1>5. 0 \in 0 .. MaxTime
  BY WorkerAssumption
<1>6. conn' \in [Slot -> [fd : Fd \cup {INVALID_SOCKET}, connected : {0, 1},
                          keep_alive : {0, 1}, time : 0 .. MaxTime]]
  BY <1>5 DEF SlotTypes
<1>7. UNCHANGED <<time, pc, clock, io>> /\ SlotTypes' /\ LoopInv
  BY <1>1
<1> QED
  BY <1>3, <1>4, <1>6, <1>7 DEF LoopInv, TypeOK, SlotTypes

(* A handler gives up its slot. *)
LEMMA CloseInv ==
  ASSUME WorkerInv, NEW c \in Slot, NEW e, Take(c, e), Close(c),
         quit' \in {"RUN", "QUIT_REQ", "END", "QUIT_CMD"},
         Head(cq).fd = conn[c].fd
  PROVE  /\ WorkerInv' /\ Ops(c) = {Head(cq)} /\ Ops(c)' = {}
         /\ \A d \in Slot \ {c} : Ops(d)' = Ops(d)
<1>1. LoopInv /\ QueueInv /\ SlotInv /\ SocketInv /\ SlotTypes
  BY LoopSlotTypes DEF WorkerInv
<1>2. ring' = ring /\ cq' \in Seq(Op) /\ Ops(c) = {Head(cq)}
  BY <1>1, TakeFirst DEF Close
<1>3. /\ QueueInv' /\ Ops(c)' = {}
      /\ \A d \in Slot \ {c} : Ops(d)' = Ops(d)
  BY <1>1, <1>2, TakeOps
<1>4. time = 0
  BY <1>1 DEF LoopInv
<1>5. /\ conn'[c].connected = 0 /\ conn'[c].fd = INVALID_SOCKET
      /\ \A d \in Slot \ {c} : conn'[d] = conn[d]
      /\ conn' \in [Slot -> [fd : Fd \cup {INVALID_SOCKET}, connected : {0, 1},
                             keep_alive : {0, 1}, time : {0}]]
  <2> DEFINE K == [fd : Fd \cup {INVALID_SOCKET}, connected : {0, 1},
                   keep_alive : {0, 1}, time : {0}]
  <2>1. conn \in [Slot -> K] /\ conn' = [conn EXCEPT ![c] = Closed(conn[c], 0)]
    BY <1>1, <1>4 DEF Close, SlotTypes
  <2>2. ASSUME NEW k \in K
        PROVE  /\ Closed(k, 0) \in K
               /\ Closed(k, 0).connected = 0 /\ Closed(k, 0).fd = INVALID_SOCKET
    BY DEF Closed
  <2> HIDE DEF K
  <2>3. /\ conn' \in [Slot -> K]
        /\ conn'[c].connected = 0 /\ conn'[c].fd = INVALID_SOCKET
        /\ \A d \in Slot \ {c} : conn'[d] = conn[d]
    BY <2>1, <2>2
  <2> QED
    BY <2>3 DEF K
<1>6. readEvt' = readEvt /\ writeEvt' = writeEvt /\ open' = open \ {Head(cq).fd}
  BY DEF Close
<1>7. SlotTypes'
  BY <1>1, <1>5, <1>6 DEF SlotTypes
<1>8. LoopInv'
  <2>1. ring' \in [Slot -> Seq(Op)]
    BY <1>1, <1>2 DEF LoopInv, TypeOK
  <2> QED
    BY <1>1, <1>2, <1>7, <2>1, TakeTypes
<1>9. SlotInv'
  BY <1>1, <1>3, <1>5, <1>6, SlotMoves
<1>10. SocketInv'
  <2>1. open \subseteq Fd /\ pc' = pc
    BY <1>1 DEF SlotTypes, Take
  <2> QED
    BY <1>1, <1>2, <1>3, <1>6, <2>1, SocketCloses
<1> QED
  BY <1>2, <1>3, <1>8, <1>9, <1>10 DEF WorkerInv

(* A handler goes on with operation p, on the socket of the completion. *)
LEMMA SubmitInv ==
  ASSUME WorkerInv, NEW c \in Slot, NEW e, Take(c, e), SlotTypes',
         NEW p \in Op, p.slot = c, p.res = "pending", p.fd = Head(cq).fd,
         ring' = [ring EXCEPT ![c] = Append(@, p)], open' = open, Fits(c, p)',
         \A d \in Slot \ {c} : conn'[d] = conn[d] /\ readEvt'[d] = readEvt[d]
  PROVE  /\ WorkerInv' /\ Ops(c) = {Head(cq)} /\ Ops(c)' = {p}
         /\ \A d \in Slot \ {c} : Ops(d)' = Ops(d)
<1>1. LoopInv /\ QueueInv /\ SlotInv /\ SocketInv
  BY DEF WorkerInv
<1>2. cq' \in Seq(Op) /\ Ops(c) = {Head(cq)}
  BY <1>1, TakeFirst
<1>3. /\ ring' \in [Slot -> Seq(Op)] /\ QueueInv' /\ Ops(c)' = {p}
      /\ \A d \in Slot \ {c} : Ops(d)' = Ops(d)
  BY <1>1, SubmitOps
<1>4. LoopInv'
  BY <1>1, <1>2, <1>3, TakeTypes
<1>5. SlotInv'
  BY <1>1, <1>3, SlotMoves
<1>6. SocketInv'
  <2>1. pc' = pc
    BY DEF Take
  <2> QED
    BY <1>1, <1>2, <1>3, <2>1, SocketStays
<1> QED
  BY <1>2, <1>3, <1>4, <1>5, <1>6 DEF WorkerInv

(* Every handler leaves the worker in order. *)
LEMMA HandleInv ==
  ASSUME WorkerInv, NEW c \in Slot, Handle(c)
  PROVE  WorkerInv' /\ HandledOp(c)
<1>1. LoopInv /\ QueueInv /\ SlotInv /\ SocketInv /\ SlotTypes /\ time = 0
  BY LoopSlotTypes DEF WorkerInv, LoopInv
<1>2. PICK e \in {"read_evt", "write_evt"} : Take(c, e)
  BY DEF Handle, OnAcceptError, OnAccept, OnReadEnd, OnReadHttp, OnReadHangUp,
         OnReadSip, OnWriteError, OnWrite, Received
<1>3. PICK o : o = Head(cq)
  OBVIOUS
<1>4. /\ o \in Op /\ o.slot = c /\ o.evt = e /\ Fits(c, o)
      /\ o.res \in {"ok", "quit", "zero", "error"}
      /\ o.fd \in Fd \cup {INVALID_SOCKET}
  <2>1. o \in Op /\ o.slot = c /\ o.evt = e /\ o.res # "pending" /\ Ops(c) = {o}
    BY <1>1, <1>2, <1>3, TakeFirst
  <2> QED
    BY <2>1, <1>1 DEF SlotInv, Op
<1>5. /\ ReadOp(c, o.fd) \in Op /\ ReadOp(c, o.fd).slot = c
      /\ ReadOp(c, o.fd).res = "pending" /\ ReadOp(c, o.fd).fd = o.fd
      /\ ReadOp(c, o.fd).op = "read" /\ ReadOp(c, o.fd).evt = "read_evt"
      /\ WriteOp(c, o.fd) \in Op /\ WriteOp(c, o.fd).slot = c
      /\ WriteOp(c, o.fd).res = "pending" /\ WriteOp(c, o.fd).fd = o.fd
      /\ WriteOp(c, o.fd).op = "write" /\ WriteOp(c, o.fd).evt = "write_evt"
  BY <1>4 DEF ReadOp, WriteOp, Op
<1>6. quit \in {"RUN", "QUIT_REQ", "END", "QUIT_CMD"}
  BY <1>1 DEF SlotTypes
<1>7. CASE OnAcceptError(c)
  <2>1. Close(c) /\ quit' = quit /\ o.res = "error"
        /\ readEvt[c].handler = "ain_socket_onaccept" /\ Take(c, "read_evt")
    BY <1>7, <1>3 DEF OnAcceptError, Result
  <2>2. o.fd = conn[c].fd
    BY <2>1, <1>4 DEF Fits, INVALID_SOCKET
  <2>7. /\ WorkerInv' /\ Ops(c) = {o} /\ Ops(c)' = {}
        /\ \A d \in Slot \ {c} : Ops(d)' = Ops(d)
    BY <1>2, <1>3, <1>6, <2>1, <2>2, CloseInv
  <2>8. HandledOp(c)
    <3>2. o.res = "error"
      BY <1>7, <1>3 DEF OnAcceptError, Result
    <3> QED
      BY <1>4, <2>7, <3>2 DEF HandledOp
  <2> QED
    BY <2>7, <2>8
<1>8. CASE OnAccept(c)
  <2>1. /\ Take(c, "read_evt") /\ readEvt[c].handler = "ain_socket_onaccept"
        /\ o.res # "error" /\ SubmitRead(c, o.fd)
        /\ conn' = [conn EXCEPT ![c].fd = o.fd, ![c].connected = 1]
        /\ UNCHANGED <<writeEvt, open, quit>>
    BY <1>8, <1>3 DEF OnAccept, Result
  <2>2. o.fd \in Fd
    <3>1. o.evt = "read_evt"
      BY <1>4, <2>1, <1>3 DEF Take
    <3> QED
      BY <2>1, <3>1, <1>4 DEF Fits
  <2>3. /\ SlotTypes'
        /\ conn'[c].fd = o.fd /\ conn'[c].connected = 1
        /\ readEvt'[c] = [handler |-> "ain_socket_onread", fd |-> o.fd]
        /\ \A d \in Slot \ {c} : conn'[d] = conn[d] /\ readEvt'[d] = readEvt[d]
    <3>1. /\ conn' \in [Slot -> [fd : Fd \cup {INVALID_SOCKET}, connected : {0, 1},
                                 keep_alive : {0, 1}, time : {0}]]
          /\ conn'[c].fd = o.fd /\ conn'[c].connected = 1
          /\ \A d \in Slot \ {c} : conn'[d] = conn[d]
      <4>1. PICK k : k = [conn EXCEPT ![c].fd = o.fd]
        OBVIOUS
      <4>2. /\ k \in [Slot -> [fd : Fd \cup {INVALID_SOCKET}, connected : {0, 1},
                               keep_alive : {0, 1}, time : {0}]]
            /\ k[c].fd = o.fd /\ \A d \in Slot \ {c} : k[d] = conn[d]
        BY <1>1, <2>2, <4>1, ZenonT(40) DEF SlotTypes
      <4>3. conn' = [k EXCEPT ![c].connected = 1]
        BY <2>1, <4>1
      <4> QED
        BY <4>2, <4>3
    <3>2. /\ readEvt' \in [Slot -> [handler : {"ain_socket_onaccept", "ain_socket_onread"},
                                    fd : Fd \cup {INVALID_SOCKET}]]
          /\ readEvt'[c] = [handler |-> "ain_socket_onread", fd |-> o.fd]
          /\ \A d \in Slot \ {c} : readEvt'[d] = readEvt[d]
      BY <1>1, <2>1, <2>2 DEF SlotTypes, SubmitRead
    <3>3. SlotTypes'
      BY <1>1, <2>1, <3>1, <3>2 DEF SlotTypes
    <3> QED
      BY <3>1, <3>2, <3>3
  <2>4. PICK p : p = ReadOp(c, o.fd)
    OBVIOUS
  <2>5. Fits(c, p)'
    BY <2>2, <2>3, <2>4, <1>5 DEF Fits
  <2>6. ring' = [ring EXCEPT ![c] = Append(@, p)]
    BY <2>1, <2>4 DEF SubmitRead
  <2>7. /\ WorkerInv' /\ Ops(c) = {o} /\ Ops(c)' = {p}
        /\ \A d \in Slot \ {c} : Ops(d)' = Ops(d)
    BY <1>3, <1>5, <2>1, <2>3, <2>4, <2>5, <2>6, SubmitInv
  <2>8. HandledOp(c)
    <3>1. o.evt = "read_evt" /\ readEvt[c].handler = "ain_socket_onaccept" /\ o.res # "error"
      BY <1>8, <1>3 DEF OnAccept, Result, Take
    <3>2. o.op = "accept" /\ o.res = "ok"
      BY <1>4, <3>1 DEF Fits, Op
    <3>3. p.op = "read" /\ p.res = "pending" /\ p.fd = o.fd
      BY <1>5, <2>4
    <3> QED
      BY <1>4, <2>7, <3>2, <3>3 DEF HandledOp
  <2> QED
    BY <2>7, <2>8
<1>9. CASE OnReadEnd(c)
  <2>1. Close(c) /\ quit' = quit /\ readEvt[c].handler = "ain_socket_onread"
    BY <1>9 DEF OnReadEnd
  <2>2. o.fd = conn[c].fd
    BY <2>1, <1>4 DEF Fits
  <2>7. /\ WorkerInv' /\ Ops(c) = {o} /\ Ops(c)' = {}
        /\ \A d \in Slot \ {c} : Ops(d)' = Ops(d)
    BY <1>2, <1>3, <1>6, <2>1, <2>2, CloseInv
  <2>8. HandledOp(c)
    <3>2. o.res \in {"zero", "error"}
      BY <1>9, <1>3 DEF OnReadEnd, Result
    <3> QED
      BY <1>4, <2>7, <3>2 DEF HandledOp
  <2> QED
    BY <2>7, <2>8
<1>10. CASE OnReadHttp(c)
  <2>1. /\ Take(c, "read_evt") /\ readEvt[c].handler = "ain_socket_onread"
        /\ conn' = [conn EXCEPT ![c].time = 0, ![c].keep_alive = 1]
        /\ writeEvt' = [writeEvt EXCEPT ![c] = [alloc |-> 1, fd |-> conn[c].fd]]
        /\ ring' = [ring EXCEPT ![c] = Append(@, WriteOp(c, conn[c].fd))]
        /\ UNCHANGED <<readEvt, open, quit>>
    BY <1>10, <1>1 DEF OnReadHttp, Received
  <2>2. /\ o.fd \in Fd /\ conn[c].fd = o.fd /\ conn[c].connected = 1
        /\ readEvt[c] = [handler |-> "ain_socket_onread", fd |-> o.fd]
    BY <2>1, <1>4 DEF Fits
  <2>3. /\ SlotTypes'
        /\ conn'[c].fd = o.fd /\ conn'[c].connected = 1
        /\ \A d \in Slot \ {c} : conn'[d] = conn[d] /\ readEvt'[d] = readEvt[d]
    <3>1. /\ conn' \in [Slot -> [fd : Fd \cup {INVALID_SOCKET}, connected : {0, 1},
                                 keep_alive : {0, 1}, time : {0}]]
          /\ conn'[c].fd = conn[c].fd /\ conn'[c].connected = conn[c].connected
          /\ \A d \in Slot \ {c} : conn'[d] = conn[d]
      <4>1. PICK k : k = [conn EXCEPT ![c].time = 0]
        OBVIOUS
      <4>2. /\ k \in [Slot -> [fd : Fd \cup {INVALID_SOCKET}, connected : {0, 1},
                               keep_alive : {0, 1}, time : {0}]]
            /\ k[c].fd = conn[c].fd /\ k[c].connected = conn[c].connected
            /\ \A d \in Slot \ {c} : k[d] = conn[d]
        BY <1>1, <4>1 DEF SlotTypes
      <4>3. conn' = [k EXCEPT ![c].keep_alive = 1]
        BY <2>1, <4>1
      <4> QED
        BY <4>2, <4>3
    <3>2. writeEvt' \in [Slot -> [alloc : {0, 1}, fd : Fd \cup {INVALID_SOCKET}]]
      BY <1>1, <2>1, <2>2 DEF SlotTypes
    <3>3. SlotTypes'
      BY <1>1, <2>1, <3>1, <3>2 DEF SlotTypes
    <3> QED
      BY <2>1, <2>2, <3>1, <3>3
  <2>4. PICK p : p = WriteOp(c, o.fd)
    OBVIOUS
  <2>5. Fits(c, p)'
    BY <2>1, <2>2, <2>3, <2>4, <1>5 DEF Fits
  <2>6. ring' = [ring EXCEPT ![c] = Append(@, p)]
    BY <2>1, <2>2, <2>4
  <2>7. /\ WorkerInv' /\ Ops(c) = {o} /\ Ops(c)' = {p}
        /\ \A d \in Slot \ {c} : Ops(d)' = Ops(d)
    BY <1>3, <1>5, <2>1, <2>3, <2>4, <2>5, <2>6, SubmitInv
  <2>8. HandledOp(c)
    <3>1. o.evt = "read_evt" /\ readEvt[c].handler = "ain_socket_onread" /\ o.res \in {"ok", "quit"}
      BY <1>10, <1>3 DEF OnReadHttp, Received, Result, Take
    <3>2. o.op = "read" /\ o.res \in {"ok", "quit"}
      BY <1>4, <3>1 DEF Fits, Op
    <3>3. p.op = "write" /\ p.res = "pending" /\ p.fd = o.fd
      BY <1>5, <2>4
    <3> QED
      BY <1>4, <2>7, <3>2, <3>3 DEF HandledOp
  <2> QED
    BY <2>7, <2>8
<1>11. CASE OnReadHangUp(c)
  <2>1. /\ Close(c) /\ quit' \in {"RUN", "QUIT_REQ", "END", "QUIT_CMD"}
        /\ readEvt[c].handler = "ain_socket_onread"
    BY <1>11, <1>6 DEF OnReadHangUp, Received
  <2>2. o.fd = conn[c].fd
    BY <2>1, <1>4 DEF Fits
  <2>7. /\ WorkerInv' /\ Ops(c) = {o} /\ Ops(c)' = {}
        /\ \A d \in Slot \ {c} : Ops(d)' = Ops(d)
    BY <1>2, <1>3, <2>1, <2>2, CloseInv
  <2>8. HandledOp(c)
    <3>1. o.evt = "read_evt" /\ readEvt[c].handler = "ain_socket_onread" /\ o.res \in {"ok", "quit"}
      BY <1>11, <1>3 DEF OnReadHangUp, Received, Result, Take
    <3>2. o.op = "read"
      BY <1>4, <3>1 DEF Fits, Op
    <3> QED
      BY <1>4, <2>7, <3>2 DEF HandledOp
  <2> QED
    BY <2>7, <2>8
<1>12. CASE OnReadSip(c)
  <2>1. /\ Take(c, "read_evt") /\ readEvt[c].handler = "ain_socket_onread"
        /\ conn' = [conn EXCEPT ![c].time = 0] /\ SubmitRead(c, readEvt[c].fd)
        /\ UNCHANGED <<writeEvt, open, quit>>
    BY <1>12, <1>1 DEF OnReadSip, Received
  <2>2. /\ o.fd \in Fd /\ conn[c].fd = o.fd /\ conn[c].connected = 1
        /\ readEvt[c].fd = o.fd
    BY <2>1, <1>4 DEF Fits
  <2>3. /\ SlotTypes'
        /\ conn'[c].fd = o.fd /\ conn'[c].connected = 1
        /\ readEvt'[c] = [handler |-> "ain_socket_onread", fd |-> o.fd]
        /\ \A d \in Slot \ {c} : conn'[d] = conn[d] /\ readEvt'[d] = readEvt[d]
    BY <1>1, <2>1, <2>2 DEF SlotTypes, SubmitRead
  <2>4. PICK p : p = ReadOp(c, o.fd)
    OBVIOUS
  <2>5. Fits(c, p)'
    BY <2>2, <2>3, <2>4, <1>5 DEF Fits
  <2>6. ring' = [ring EXCEPT ![c] = Append(@, p)]
    BY <2>1, <2>2, <2>4 DEF SubmitRead
  <2>7. /\ WorkerInv' /\ Ops(c) = {o} /\ Ops(c)' = {p}
        /\ \A d \in Slot \ {c} : Ops(d)' = Ops(d)
    BY <1>3, <1>5, <2>1, <2>3, <2>4, <2>5, <2>6, SubmitInv
  <2>8. HandledOp(c)
    <3>1. o.evt = "read_evt" /\ readEvt[c].handler = "ain_socket_onread" /\ o.res \in {"ok", "quit"}
      BY <1>12, <1>3 DEF OnReadSip, Received, Result, Take
    <3>2. o.op = "read" /\ o.res \in {"ok", "quit"}
      BY <1>4, <3>1 DEF Fits, Op
    <3>3. p.op = "read" /\ p.res = "pending" /\ p.fd = o.fd
      BY <1>5, <2>4
    <3> QED
      BY <1>4, <2>7, <3>2, <3>3 DEF HandledOp
  <2> QED
    BY <2>7, <2>8
<1>13. CASE OnWriteError(c)
  <2>1. Close(c) /\ quit' = quit /\ o.evt = "write_evt"
    BY <1>13, <1>3 DEF OnWriteError, Take
  <2>2. o.fd = conn[c].fd
    BY <2>1, <1>4 DEF Fits
  <2>7. /\ WorkerInv' /\ Ops(c) = {o} /\ Ops(c)' = {}
        /\ \A d \in Slot \ {c} : Ops(d)' = Ops(d)
    BY <1>2, <1>3, <1>6, <2>1, <2>2, CloseInv
  <2>8. HandledOp(c)
    <3>2. o.res \in {"zero", "error"}
      BY <1>13, <1>3 DEF OnWriteError, Result
    <3> QED
      BY <1>4, <2>7, <3>2 DEF HandledOp
  <2> QED
    BY <2>7, <2>8
<1>14. CASE OnWrite(c)
  <2>1. /\ Take(c, "write_evt") /\ SubmitRead(c, readEvt[c].fd)
        /\ UNCHANGED <<conn, writeEvt, open, quit>> /\ o.evt = "write_evt"
    BY <1>14, <1>3 DEF OnWrite, Take
  <2>2. /\ o.fd \in Fd /\ conn[c].fd = o.fd /\ conn[c].connected = 1
        /\ readEvt[c].fd = o.fd
    BY <2>1, <1>4 DEF Fits
  <2>3. /\ SlotTypes'
        /\ conn'[c].fd = o.fd /\ conn'[c].connected = 1
        /\ readEvt'[c] = [handler |-> "ain_socket_onread", fd |-> o.fd]
        /\ \A d \in Slot \ {c} : conn'[d] = conn[d] /\ readEvt'[d] = readEvt[d]
    BY <1>1, <2>1, <2>2 DEF SlotTypes, SubmitRead
  <2>4. PICK p : p = ReadOp(c, o.fd)
    OBVIOUS
  <2>5. Fits(c, p)'
    BY <2>2, <2>3, <2>4, <1>5 DEF Fits
  <2>6. ring' = [ring EXCEPT ![c] = Append(@, p)]
    BY <2>1, <2>2, <2>4 DEF SubmitRead
  <2>7. /\ WorkerInv' /\ Ops(c) = {o} /\ Ops(c)' = {p}
        /\ \A d \in Slot \ {c} : Ops(d)' = Ops(d)
    BY <1>3, <1>5, <2>1, <2>3, <2>4, <2>5, <2>6, SubmitInv
  <2>8. HandledOp(c)
    <3>1. o.evt = "write_evt" /\ o.res \notin {"zero", "error"}
      BY <1>14, <1>3 DEF OnWrite, Result, Take
    <3>2. o.op = "write" /\ o.res = "ok"
      BY <1>4, <3>1 DEF Fits, Op
    <3>3. p.op = "read" /\ p.res = "pending" /\ p.fd = o.fd
      BY <1>5, <2>4
    <3> QED
      BY <1>4, <2>7, <3>2, <3>3 DEF HandledOp
  <2> QED
    BY <2>7, <2>8
<1> QED
  BY <1>7, <1>8, <1>9, <1>10, <1>11, <1>12, <1>13, <1>14 DEF Handle

(* The sweep finds nothing to do: no wait ever returns AIN_TIMEOUT, so the
   worker's time stands still, and no slot is older than the worker's time. *)
LEMMA SweepFindsNothing ==
  ASSUME LoopInv, Sweep
  PROVE  UNCHANGED <<conn, readEvt, writeEvt, ring, cq, open, time, quit, clock, io>>
<1>1. time' = 0 /\ time = 0
  BY DEF LoopInv, Sweep, AIN_ERROR, AIN_TIMEOUT, TypeOK
<1>2. \A c \in Slot : ~Reusable(conn[c], time') /\ ~Idle(conn[c], time')
  BY <1>1, WorkerAssumption DEF LoopInv, Reusable, Idle
<1>3. /\ conn = [c \in Slot |-> conn[c]] /\ readEvt = [c \in Slot |-> readEvt[c]]
      /\ ring = [c \in Slot |-> ring[c]] /\ open \subseteq Fd
  BY DEF LoopInv, TypeOK
<1>4. /\ conn' = [c \in Slot |-> conn[c]] /\ readEvt' = [c \in Slot |-> readEvt[c]]
      /\ ring' = [c \in Slot |-> ring[c]]
  BY <1>2 DEF Sweep
<1>5. open' = open
  BY <1>2 DEF Sweep
<1> QED
  BY <1>1, <1>3, <1>4, <1>5 DEF Sweep

(* A step that leaves queues, slots, events and sockets alone. *)
LEMMA OtherInv ==
  ASSUME WorkerInv, UNCHANGED <<conn, readEvt, writeEvt, ring, cq, open, time>>,
         clock' \in 0 .. MaxTime, io' \in 0 .. MaxIo,
         ior' \in AIN_ERROR .. IO_QUERY_CNT + 1,
         quit' \in {"RUN", "QUIT_REQ", "END", "QUIT_CMD"},
         pc' \in {"wait", "sweep", "drain", "closed", "ended"},
         pc' \in {"closed", "ended"} <=> pc \in {"closed", "ended"}
  PROVE  WorkerInv'
<1>1. LoopInv /\ QueueInv /\ SlotInv /\ SocketInv
  BY DEF WorkerInv
<1>2. ior' \in AIN_TIMEOUT .. IO_QUERY_CNT + 1 /\ ior' >= AIN_ERROR
  BY WorkerAssumption DEF AIN_ERROR, AIN_TIMEOUT
<1>3. LoopInv'
  BY <1>1, <1>2 DEF LoopInv, TypeOK
<1>4. (Serving \/ pc = "drain")' <=> Serving \/ pc = "drain"
  BY <1>1 DEF Serving, LoopInv, TypeOK
<1>5. QueueInv'
  BY <1>1, <1>4 DEF QueueInv, OneOpPerSlot, Serving
<1>6. \A c \in Slot : Ops(c)' = Ops(c)
  BY SameOps
<1>7. SlotInv'
  BY <1>1, <1>6 DEF SlotInv, Fits
<1>8. SocketInv'
  BY <1>1, <1>4, <1>6 DEF SocketInv
<1> QED
  BY <1>3, <1>5, <1>7, <1>8 DEF WorkerInv

(* At the end the worker closes every slot and destroys the ring. *)
LEMMA CloseAllInv ==
  ASSUME WorkerInv, CloseAll
  PROVE  WorkerInv' /\ \A c \in Slot : Ops(c)' = {}
<1>1. LoopInv /\ SlotTypes /\ time = 0
  BY LoopSlotTypes DEF WorkerInv, LoopInv
<1>2. /\ ring' = [c \in Slot |-> <<>>] /\ cq' = <<>> /\ pc' = "closed"
      /\ conn' = [c \in Slot |-> Closed(conn[c], 0)]
      /\ open' \subseteq open
      /\ UNCHANGED <<readEvt, writeEvt, time, ior, quit, clock, io>>
  BY <1>1 DEF CloseAll
<1>3. <<>> \in Seq(Op) /\ Len(<<>>) = 0 /\ DOMAIN <<>> = {}
  BY EmptySeq
<1>4. \A c \in Slot : Ops(c)' = {}
  <2>1. ASSUME NEW c \in Slot PROVE Ops(c)' = {}
    <3>1. DOMAIN ring'[c] = {} /\ DOMAIN cq' = {}
      BY <1>2, <1>3
    <3>2. \A o : o \notin Ops(c)'
      BY <3>1, OpsMember
    <3> QED
      BY <3>2
  <2> QED
    BY <2>1
<1>5. ASSUME NEW c \in Slot
      PROVE  /\ conn'[c] \in [fd : Fd \cup {INVALID_SOCKET}, connected : {0, 1},
                               keep_alive : {0, 1}, time : {0}]
             /\ conn'[c].connected = 0 /\ conn'[c].fd = INVALID_SOCKET
  BY <1>1, <1>2, ZenonT(40) DEF SlotTypes, Closed
<1>6. LoopInv'
  <2>1. 0 \in 0 .. MaxTime
    BY WorkerAssumption
  <2>2. conn' \in [Slot -> [fd : Fd \cup {INVALID_SOCKET}, connected : {0, 1},
                            keep_alive : {0, 1}, time : 0 .. MaxTime]]
    BY <1>2, <1>5, <2>1
  <2>3. \A c \in Slot : conn'[c].time = 0
    BY <1>5
  <2>4. ring' \in [Slot -> Seq(Op)] /\ cq' \in Seq(Op)
    BY <1>2, <1>3
  <2> QED
    BY <1>1, <1>2, <2>2, <2>3, <2>4 DEF LoopInv, TypeOK
<1>7. QueueInv'
  BY <1>2, <1>3 DEF QueueInv, OneOpPerSlot, Serving
<1>8. SlotInv'
  BY <1>4, <1>5 DEF SlotInv
<1>9. SocketInv'
  BY <1>2, <1>4 DEF SocketInv, Serving
<1> QED
  BY <1>4, <1>6, <1>7, <1>8, <1>9 DEF WorkerInv

(* Every slot starts with its accept. *)
LEMMA InitInv == Init => WorkerInv
<1> SUFFICES ASSUME Init PROVE WorkerInv
  OBVIOUS
<1>1. ASSUME NEW c \in Slot
      PROVE  /\ AcceptOp(c) \in Op /\ AcceptOp(c).slot = c
             /\ AcceptOp(c).res = "pending" /\ AcceptOp(c).op = "accept"
             /\ AcceptOp(c).evt = "read_evt" /\ AcceptOp(c).fd = INVALID_SOCKET
             /\ ring[c] = <<AcceptOp(c)>>
  BY DEF AcceptOp, Op, Init
<1>2. INVALID_SOCKET \notin Fd
  BY WorkerAssumption DEF INVALID_SOCKET
<1>3. ASSUME NEW c \in Slot PROVE Ops(c) = {AcceptOp(c)}
  <2>1. DOMAIN ring[c] = {1} /\ ring[c][1] = AcceptOp(c)
    BY <1>1
  <2>2. DOMAIN cq = {}
    BY DEF Init
  <2>3. \A o : o \in Ops(c) <=> o = AcceptOp(c)
    BY <2>1, <2>2, OpsMember
  <2> QED
    BY <2>3
<1>4. LoopInv
  <2>1. 0 \in 0 .. MaxTime /\ 0 \in 0 .. MaxIo /\ 0 >= AIN_ERROR
        /\ 0 \in AIN_TIMEOUT .. IO_QUERY_CNT + 1
    BY WorkerAssumption DEF AIN_ERROR, AIN_TIMEOUT
  <2>2. ring \in [Slot -> Seq(Op)]
    <3>1. ASSUME NEW c \in Slot PROVE ring[c] \in Seq(Op)
      <4>1. \A o \in Op : <<o>> \in Seq(Op)
        OBVIOUS
      <4> QED
        BY <1>1, <4>1
    <3> QED
      BY <3>1 DEF Init
  <2>3. cq \in Seq(Op)
    BY EmptySeq DEF Init
  <2> QED
    BY <2>1, <2>2, <2>3 DEF LoopInv, TypeOK, Init
<1>5. QueueInv
  <2>1. ASSUME NEW c \in Slot
        PROVE  Len(ring[c]) <= 1 /\ Head(ring[c]) = AcceptOp(c)
    <3>1. PICK o : o = AcceptOp(c)
      OBVIOUS
    <3>2. Len(<<o>>) = 1 /\ Head(<<o>>) = o
      OBVIOUS
    <3>3. ring[c] = <<o>>
      BY <1>1, <3>1
    <3>4. Len(ring[c]) = 1 /\ Head(ring[c]) = o
      BY <3>2, <3>3
    <3> QED
      BY <3>1, <3>4
  <2>2. DOMAIN cq = {}
    BY DEF Init
  <2> QED
    BY <1>1, <2>1, <2>2 DEF QueueInv, OneOpPerSlot, Init, Serving
<1>6. SlotInv
  <2>1. ASSUME NEW c \in Slot PROVE Fits(c, AcceptOp(c))
    <3>1. /\ readEvt[c].handler = "ain_socket_onaccept"
          /\ conn[c].connected = 0 /\ conn[c].fd = INVALID_SOCKET
      BY DEF Init
    <3> QED
      BY <1>1, <1>2, <3>1 DEF Fits
  <2> QED
    BY <1>3, <2>1 DEF SlotInv
<1>7. SocketInv
  BY <1>1, <1>2, <1>3 DEF SocketInv, Init
<1> QED
  BY <1>4, <1>5, <1>6, <1>7 DEF WorkerInv

(* Every step keeps the worker in order. *)
LEMMA StepInv == WorkerInv /\ [Next]_vars => WorkerInv'
<1> SUFFICES ASSUME WorkerInv, [Next]_vars PROVE WorkerInv'
  OBVIOUS
<1>1. /\ LoopInv /\ clock \in 0 .. MaxTime /\ io \in 0 .. MaxIo
      /\ ior \in AIN_ERROR .. IO_QUERY_CNT + 1 /\ MaxTime \in Nat /\ MaxIo \in Nat
      /\ quit \in {"RUN", "QUIT_REQ", "END", "QUIT_CMD"}
      /\ pc \in {"wait", "sweep", "drain", "closed", "ended"}
  BY WorkerAssumption DEF WorkerInv, LoopInv, TypeOK, AIN_ERROR, AIN_TIMEOUT
<1>2. 0 \in AIN_ERROR .. IO_QUERY_CNT + 1 /\ AIN_ERROR \in AIN_ERROR .. IO_QUERY_CNT + 1
  BY WorkerAssumption DEF AIN_ERROR
<1>3. ASSUME NEW c \in Slot, Handle(c) PROVE WorkerInv'
  BY <1>3, HandleInv
<1>4. CASE WaitEnds
  <2>1. io' \in 0 .. MaxIo
    BY <1>1, <1>4 DEF WaitEnds
  <2>2. ior' \in AIN_ERROR .. IO_QUERY_CNT + 1
    BY <1>1, <1>2, <1>4 DEF WaitEnds, Expired
  <2>3. UNCHANGED <<conn, readEvt, writeEvt, ring, cq, open, time, quit, clock>>
        /\ pc' = "sweep" /\ pc = "wait"
    BY <1>4 DEF WaitEnds
  <2> QED
    BY <1>1, <2>1, <2>2, <2>3, OtherInv
<1>5. CASE Sweep
  <2>1. UNCHANGED <<conn, readEvt, writeEvt, ring, cq, open, time, quit, clock, io>>
    BY <1>1, <1>5, SweepFindsNothing
  <2>2. ior' = 0 /\ pc = "sweep" /\ pc' \in {"wait", "drain"}
    BY <1>5 DEF Sweep
  <2> QED
    BY <1>1, <1>2, <2>1, <2>2, OtherInv
<1>6. CASE CloseAll
  BY <1>6, CloseAllInv
<1>7. CASE WriteEnd
  <2>1. UNCHANGED <<conn, readEvt, writeEvt, ring, cq, open, time, ior, clock, io>>
        /\ quit' = "END" /\ pc = "closed" /\ pc' = "ended"
    BY <1>7 DEF WriteEnd
  <2> QED
    BY <1>1, <2>1, OtherInv
<1>8. ASSUME NEW c \in Slot, KernelStep(c) PROVE WorkerInv'
  BY <1>8, KernelInv
<1>9. CASE ParentRequests
  <2>1. UNCHANGED <<conn, readEvt, writeEvt, ring, cq, open, time, ior, pc, clock, io>>
        /\ quit' = "QUIT_REQ"
    BY <1>9 DEF ParentRequests
  <2> QED
    BY <1>1, <2>1, OtherInv
<1>10. CASE Tick
  <2>1. UNCHANGED <<conn, readEvt, writeEvt, ring, cq, open, time, ior, pc, quit, io>>
        /\ clock' = clock + 1 /\ clock < MaxTime
    BY <1>10 DEF Tick, loop
  <2>2. clock' \in 0 .. MaxTime
    BY <1>1, <2>1
  <2> QED
    BY <1>1, <2>1, <2>2, OtherInv
<1>11. CASE UNCHANGED vars
  <2>1. UNCHANGED <<conn, readEvt, writeEvt, ring, cq, open, time, ior, pc, quit, clock, io>>
    BY <1>11 DEF vars, loop
  <2> QED
    BY <1>1, <2>1, OtherInv
<1> QED
  BY <1>3, <1>4, <1>5, <1>6, <1>7, <1>8, <1>9, <1>10, <1>11 DEF Next, WorkerStep

-----------------------------------------------------------------------------
(* The theorems. *)

(* The strengthening every property of the worker follows from. *)
LEMMA WorkerInvariant == Spec => []WorkerInv
  BY InitInv, StepInv, PTL DEF Spec

(* Every variable of the worker keeps its type. *)
THEOREM TypeCorrect == Spec => []TypeOK
<1>1. WorkerInv => TypeOK
  BY DEF WorkerInv, LoopInv
<1> QED
  BY <1>1, WorkerInvariant, PTL

(* The one read event, buffer and handler of a slot are never reused under an
   operation that still needs them. *)
THEOREM OneOperationPerSlot == Spec => []OneOpPerSlot
<1>1. WorkerInv => OneOpPerSlot
  BY DEF WorkerInv, QueueInv
<1> QED
  BY <1>1, WorkerInvariant, PTL

(* The handler the event holds when a completion is taken is the one that was
   stored when its operation was submitted. *)
THEOREM HandlersMatch == Spec => []HandlerMatchesOp
<1>1. WorkerInv => HandlerMatchesOp
  <2> SUFFICES ASSUME WorkerInv, NEW c \in Slot, NEW o \in Ops(c), o.evt = "read_evt"
               PROVE  readEvt[c].handler = "ain_socket_onaccept" <=> o.op = "accept"
    BY DEF HandlerMatchesOp
  <2>1. Fits(c, o)
    BY DEF WorkerInv, SlotInv
  <2> QED
    BY <2>1 DEF Fits
<1> QED
  BY <1>1, WorkerInvariant, PTL

(* Each connection the worker keeps has an operation under way on its own
   open socket, which no other slot owns. *)
THEOREM ConnectionsServed == Spec => []ConnectionIsServed
<1>1. WorkerInv => ConnectionIsServed
  <2> SUFFICES ASSUME WorkerInv, NEW c \in Slot, conn[c].connected = 1
               PROVE  /\ conn[c].fd \in open
                      /\ \E o \in Ops(c) : o.op # "accept" /\ o.fd = conn[c].fd
                      /\ \A d \in Slot \ {c} : conn[d].fd # conn[c].fd
    BY DEF ConnectionIsServed
  <2>1. SlotInv /\ SocketInv
    BY DEF WorkerInv
  <2>2. PICK o \in Ops(c) : Fits(c, o)
    BY <2>1 DEF SlotInv
  <2>3. o.op # "accept" /\ o.fd = conn[c].fd /\ o.fd \in Fd
    BY <2>2 DEF Fits
  <2>4. conn[c].fd \in open
    BY <2>1, <2>3 DEF SocketInv
  <2>5. ASSUME NEW d \in Slot \ {c} PROVE conn[d].fd # conn[c].fd
    <3>1. INVALID_SOCKET \notin Fd
      BY WorkerAssumption DEF INVALID_SOCKET
    <3>2. CASE Ops(d) = {}
      BY <2>1, <2>3, <3>1, <3>2 DEF SlotInv
    <3>3. CASE Ops(d) # {}
      <4>1. PICK p \in Ops(d) : Fits(d, p)
        BY <2>1, <3>3 DEF SlotInv
      <4>2. conn[d].fd = INVALID_SOCKET \/ conn[d].fd = p.fd
        BY <4>1 DEF Fits
      <4>3. p.fd # o.fd
        BY <2>1, <2>3, <4>1 DEF SocketInv
      <4> QED
        BY <2>3, <3>1, <4>2, <4>3
    <3> QED
      BY <3>2, <3>3
  <2> QED
    BY <2>3, <2>4, <2>5
<1> QED
  BY <1>1, WorkerInvariant, PTL

(* While the worker serves, each open client socket is that of a connection or
   of an accept still to be handled. *)
THEOREM NoSocketLeaks == Spec => []NoSocketLeak
<1>1. WorkerInv => NoSocketLeak
  <2> SUFFICES ASSUME WorkerInv, Serving
               PROVE  open = {conn[c].fd : c \in {d \in Slot : conn[d].connected = 1}} \cup
                        {cq[n].fd : n \in {m \in DOMAIN cq : cq[m].op = "accept" /\ cq[m].res = "ok"}}
    BY DEF NoSocketLeak
  <2>1. LoopInv /\ QueueInv /\ SlotInv /\ SocketInv
    BY DEF WorkerInv
  <2>2. ASSUME NEW f \in open
        PROVE  \/ \E c \in Slot : conn[c].connected = 1 /\ conn[c].fd = f
               \/ \E n \in DOMAIN cq : cq[n].op = "accept" /\ cq[n].res = "ok" /\ cq[n].fd = f
    <3>0. PICK c \in Slot : \E o \in Ops(c) : o.fd = f
      BY <2>1 DEF SocketInv
    <3>1. PICK o \in Ops(c) : o.fd = f
      BY <3>0
    <3>2. f \in Fd /\ Fits(c, o)
      BY <2>1 DEF LoopInv, TypeOK, SlotInv
    <3>3. CASE o.op # "accept"
      BY <3>1, <3>2, <3>3 DEF Fits
    <3>4. CASE o.op = "accept"
      <4>1. o.res = "ok"
        BY <3>1, <3>2, <3>4 DEF Fits
      <4>2. ring[c] = <<>> \/ Head(ring[c]) = o
        BY <2>1, <3>1, RingOps
      <4>3. ring[c] = <<>>
        BY <2>1, <4>1, <4>2 DEF QueueInv
      <4>4. DOMAIN ring[c] = {}
        BY <4>3
      <4>5. \E n \in DOMAIN cq : o = cq[n]
        BY <3>1, <4>4, OpsMember
      <4> QED
        BY <3>1, <3>4, <4>1, <4>5
    <3> QED
      BY <3>3, <3>4
  <2>3. ASSUME NEW c \in Slot, conn[c].connected = 1 PROVE conn[c].fd \in open
    <3>1. PICK o \in Ops(c) : Fits(c, o)
      BY <2>1, <2>3 DEF SlotInv
    <3>2. o.fd = conn[c].fd /\ o.fd \in Fd
      BY <2>3, <3>1 DEF Fits
    <3> QED
      BY <2>1, <3>2 DEF SocketInv
  <2>4. ASSUME NEW n \in DOMAIN cq, cq[n].op = "accept", cq[n].res = "ok"
        PROVE  cq[n].fd \in open
    <3>1. cq[n] \in Ops(cq[n].slot) /\ cq[n].slot \in Slot
      BY <2>1, CqOps DEF Op
    <3>2. Fits(cq[n].slot, cq[n])
      BY <2>1, <3>1 DEF SlotInv
    <3>3. cq[n].fd \in Fd
      BY <2>4, <3>2 DEF Fits
    <3> QED
      BY <2>1, <3>1, <3>3 DEF SocketInv
  <2> QED
    BY <2>2, <2>3, <2>4
<1> QED
  BY <1>1, WorkerInvariant, PTL

(* "re-use closed socket" never happens: a slot that closed has no operation
   ever again, whatever the clock does and whoever connects. *)
THEOREM ClosedSlotStaysClosed ==
  Spec => [][\A c \in Slot : Ops(c) = {} => Ops(c)' = {}]_vars
<1>1. ASSUME WorkerInv, [Next]_vars, NEW c \in Slot, Ops(c) = {} PROVE Ops(c)' = {}
  <2>1. ASSUME NEW d \in Slot, Handle(d) PROVE Ops(c)' = {}
    BY <1>1, <2>1, HandleInv DEF HandledOp
  <2>2. ASSUME NEW d \in Slot, KernelStep(d) PROVE Ops(c)' = {}
    BY <1>1, <2>2, KernelInv DEF CompletedOp
  <2>3. CASE CloseAll
    BY <1>1, <2>3, CloseAllInv
  <2>4. CASE Sweep
    BY <1>1, <2>4, SweepFindsNothing, SameOps DEF WorkerInv
  <2>5. CASE WaitEnds \/ WriteEnd \/ ParentRequests \/ Tick \/ UNCHANGED vars
    BY <1>1, <2>5, SameOps DEF WaitEnds, WriteEnd, ParentRequests, Tick, vars
  <2> QED
    BY <1>1, <2>1, <2>2, <2>3, <2>4, <2>5 DEF Next, WorkerStep
<1>2. WorkerInv /\ [Next]_vars => [\A c \in Slot : Ops(c) = {} => Ops(c)' = {}]_vars
  BY <1>1
<1> QED
  BY <1>2, WorkerInvariant, PTL DEF Spec

-----------------------------------------------------------------------------
(* The refinement. *)

(* What the abstract state of a slot is, by its operation. *)
PhaseFacts ==
  \A c \in Slot :
         /\ Ops(c) = {} => Phase(c) = "closed" /\ OpSocket(c) = INVALID_SOCKET
         /\ \A o : Ops(c) = {o} =>
              /\ OpSocket(c) = o.fd
              /\ o.res = "pending" /\ o.op = "accept" => Phase(c) = "listening"
              /\ o.res = "pending" /\ o.op = "read" => Phase(c) = "reading"
              /\ o.res = "pending" /\ o.op = "write" => Phase(c) = "writing"
              /\ o.res \in {"zero", "error"} => Phase(c) = "failed"
              /\ o.res \in {"ok", "quit"} /\ o.op = "accept" => Phase(c) = "arrived"
              /\ o.res \in {"ok", "quit"} /\ o.op = "read" => Phase(c) = "heard"
              /\ o.res \in {"ok", "quit"} /\ o.op = "write" => Phase(c) = "written"

(* By the definitions of the mapping. *)
LEMMA PhaseOfOps == PhaseFacts
<1> SUFFICES ASSUME NEW c \in Slot
             PROVE  /\ Ops(c) = {} => Phase(c) = "closed" /\ OpSocket(c) = INVALID_SOCKET
                    /\ \A o : Ops(c) = {o} =>
                         /\ OpSocket(c) = o.fd
                         /\ o.res = "pending" /\ o.op = "accept" => Phase(c) = "listening"
                         /\ o.res = "pending" /\ o.op = "read" => Phase(c) = "reading"
                         /\ o.res = "pending" /\ o.op = "write" => Phase(c) = "writing"
                         /\ o.res \in {"zero", "error"} => Phase(c) = "failed"
                         /\ o.res \in {"ok", "quit"} /\ o.op = "accept" => Phase(c) = "arrived"
                         /\ o.res \in {"ok", "quit"} /\ o.op = "read" => Phase(c) = "heard"
                         /\ o.res \in {"ok", "quit"} /\ o.op = "write" => Phase(c) = "written"
  BY DEF PhaseFacts
<1>1. CASE Ops(c) = {}
  BY <1>1 DEF Phase, OpSocket
<1>2. ASSUME NEW o, Ops(c) = {o}
      PROVE  /\ OpSocket(c) = o.fd
             /\ o.res = "pending" /\ o.op = "accept" => Phase(c) = "listening"
             /\ o.res = "pending" /\ o.op = "read" => Phase(c) = "reading"
             /\ o.res = "pending" /\ o.op = "write" => Phase(c) = "writing"
             /\ o.res \in {"zero", "error"} => Phase(c) = "failed"
             /\ o.res \in {"ok", "quit"} /\ o.op = "accept" => Phase(c) = "arrived"
             /\ o.res \in {"ok", "quit"} /\ o.op = "read" => Phase(c) = "heard"
             /\ o.res \in {"ok", "quit"} /\ o.op = "write" => Phase(c) = "written"
  <2>1. (CHOOSE x \in Ops(c) : TRUE) = o /\ Ops(c) # {}
    BY <1>2
  <2> QED
    BY <2>1 DEF Phase, OpSocket
<1> QED
  BY <1>1, <1>2

(* The same in the next state. *)
LEMMA PhaseOfNextOps == PhaseFacts'
  BY PhaseOfOps, PTL

(* A slot whose operation stays has not moved. *)
LEMMA Stays ==
  ASSUME NEW c \in Slot, Ops(c)' = Ops(c)
  PROVE  Life!SlotStep(c) /\ Phase(c)' = Phase(c) /\ OpSocket(c)' = OpSocket(c)
<1>1. Phase(c)' = Phase(c)
  BY DEF Phase
<1>2. OpSocket(c)' = OpSocket(c)
  BY DEF OpSocket
<1> QED
  BY <1>1, <1>2 DEF Life!SlotStep, Life!Stay

(* The abstract variables are the mapped ones. *)
LEMMA Moves ==
  ASSUME NEW c \in Slot, NEW from, NEW to, Phase(c) \in from, Phase(c)' \in to
  PROVE  Life!Move(c, from, to)
  BY DEF Life!Move

(* A handler takes a step of the slot's life. *)
LEMMA HandleLife ==
  ASSUME NEW c \in Slot, HandledOp(c)
  PROVE  \A d \in Slot : Life!SlotStep(d)
<1>1. PICK o :
        /\ Ops(c) = {o} /\ o.res \in {"ok", "quit", "zero", "error"}
        /\ \A d \in Slot \ {c} : Ops(d)' = Ops(d)
        /\ \/ Ops(c)' = {} /\ (o.res \in {"zero", "error"} \/ o.op = "read")
           \/ \E p : /\ Ops(c)' = {p} /\ p.res = "pending" /\ p.fd = o.fd
                     /\ o.res \in {"ok", "quit"}
                     /\ <<o.op, p.op>> \in {<<"accept", "read">>, <<"read", "read">>,
                                            <<"read", "write">>, <<"write", "read">>}
  BY DEF HandledOp
<1>2. CASE Ops(c)' = {} /\ (o.res \in {"zero", "error"} \/ o.op = "read")
  <2>1. Phase(c)' = "closed" /\ OpSocket(c)' = INVALID_SOCKET
    BY <1>2, PhaseOfNextOps DEF PhaseFacts
  <2>2. Phase(c) \in {"heard", "failed"}
    BY <1>1, <1>2, PhaseOfOps DEF PhaseFacts
  <2>3. Life!Close(c)
    BY <2>1, <2>2, Moves DEF Life!Close
  <2> QED
    BY <1>1, <2>3, Stays DEF Life!SlotStep
<1>3. ASSUME NEW p, Ops(c)' = {p}, p.res = "pending", p.fd = o.fd, o.res \in {"ok", "quit"},
             <<o.op, p.op>> \in {<<"accept", "read">>, <<"read", "read">>,
                                <<"read", "write">>, <<"write", "read">>}
      PROVE  \A d \in Slot : Life!SlotStep(d)
  <2>1. OpSocket(c)' = OpSocket(c)
    BY <1>1, <1>3, PhaseOfOps, PhaseOfNextOps DEF PhaseFacts
  <2>2. Life!SlotStep(c)
    <3>1. CASE o.op = "accept" /\ p.op = "read"
      <4>1. Phase(c) = "arrived" /\ Phase(c)' = "reading"
        BY <1>1, <1>3, <3>1, PhaseOfOps, PhaseOfNextOps DEF PhaseFacts
      <4> QED
        BY <2>1, <4>1, Moves DEF Life!Greet, Life!SlotStep
    <3>2. CASE o.op = "read" /\ p.op \in {"read", "write"}
      <4>1. Phase(c) = "heard" /\ Phase(c)' \in {"reading", "writing"}
        BY <1>1, <1>3, <3>2, PhaseOfOps, PhaseOfNextOps DEF PhaseFacts
      <4> QED
        BY <2>1, <4>1, Moves DEF Life!Answer, Life!SlotStep
    <3>3. CASE o.op = "write" /\ p.op = "read"
      <4>1. Phase(c) = "written" /\ Phase(c)' = "reading"
        BY <1>1, <1>3, <3>3, PhaseOfOps, PhaseOfNextOps DEF PhaseFacts
      <4> QED
        BY <2>1, <4>1, Moves DEF Life!Resume, Life!SlotStep
    <3> QED
      BY <1>3, <3>1, <3>2, <3>3
  <2> QED
    BY <1>1, <2>2, Stays
<1> QED
  BY <1>1, <1>2, <1>3

(* The kernel takes one too: what a client does to the slot, and a client that
   arrives does so on a socket no other slot has. *)
LEMMA KernelLife ==
  ASSUME WorkerInv, NEW c \in Slot, CompletedOp(c)
  PROVE  \A d \in Slot : Life!SlotStep(d)
<1>1. PICK o, p :
        /\ Ops(c) = {o} /\ o.res = "pending" /\ Ops(c)' = {p} /\ p.op = o.op
        /\ \A d \in Slot \ {c} : Ops(d)' = Ops(d)
        /\ \/ /\ o.op \in {"read", "write"} /\ p.fd = o.fd
              /\ p.res \in {"ok", "quit", "zero", "error"}
           \/ o.op = "accept" /\ p.fd = INVALID_SOCKET /\ p.res = "error"
           \/ o.op = "accept" /\ p.fd \in Fd \ open /\ p.res = "ok"
  BY DEF CompletedOp
<1>2. OpSocket(c) = o.fd /\ OpSocket(c)' = p.fd
  BY <1>1, PhaseOfOps, PhaseOfNextOps DEF PhaseFacts
<1>3. Life!SlotStep(c)
  <2>1. CASE o.op = "read"
    <3>1. Phase(c) = "reading" /\ Phase(c)' \in {"heard", "failed"}
      BY <1>1, <2>1, PhaseOfOps, PhaseOfNextOps DEF PhaseFacts
    <3>2. p.fd = o.fd
      BY <1>1, <2>1
    <3> QED
      BY <1>2, <3>1, <3>2, Moves DEF Life!Hear, Life!SlotStep
  <2>2. CASE o.op = "write"
    <3>1. Phase(c) = "writing" /\ Phase(c)' \in {"written", "failed"}
      BY <1>1, <2>2, PhaseOfOps, PhaseOfNextOps DEF PhaseFacts
    <3>2. p.fd = o.fd
      BY <1>1, <2>2
    <3> QED
      BY <1>2, <3>1, <3>2, Moves DEF Life!Write, Life!SlotStep
  <2>3. CASE o.op = "accept" /\ p.res = "error"
    <3>1. Phase(c) = "listening" /\ Phase(c)' = "failed"
      BY <1>1, <2>3, PhaseOfOps, PhaseOfNextOps DEF PhaseFacts
    <3>2. p.fd = INVALID_SOCKET
      BY <1>1, <2>3
    <3> QED
      BY <1>2, <3>1, <3>2, Moves DEF Life!Fail, Life!SlotStep
  <2>4. CASE o.op = "accept" /\ p.res = "ok"
    <3>1. Phase(c) = "listening" /\ Phase(c)' = "arrived"
      BY <1>1, <2>4, PhaseOfOps, PhaseOfNextOps DEF PhaseFacts
    <3>2. p.fd \in Fd \ open
      BY <1>1, <2>4
    <3>3. ASSUME NEW d \in Slot \ {c} PROVE OpSocket(d)' # p.fd
      <4>1. OpSocket(d)' = OpSocket(d)
        BY <1>1, Stays
      <4>2. CASE Ops(d) = {}
        <5>1. INVALID_SOCKET \notin Fd
          BY WorkerAssumption DEF INVALID_SOCKET
        <5> QED
          BY <3>2, <4>1, <4>2, <5>1, PhaseOfOps DEF PhaseFacts
      <4>3. ASSUME NEW q \in Ops(d) PROVE OpSocket(d)' # p.fd
        <5>1. Ops(d) = {q}
          BY <4>3, OneOp DEF WorkerInv
        <5>2. q.fd \in Fd => q.fd \in open
          BY <4>3 DEF WorkerInv, SocketInv
        <5> QED
          BY <3>2, <4>1, <5>1, <5>2, PhaseOfOps DEF PhaseFacts
      <4> QED
        BY <4>2, <4>3
    <3> QED
      BY <1>2, <3>1, <3>2, <3>3, Moves DEF Life!Arrive, Life!SlotStep
  <2> QED
    BY <1>1, <2>1, <2>2, <2>3, <2>4
<1> QED
  BY <1>1, <1>3, Stays

(* Every step of the worker is a step in the lives of its slots. *)
LEMMA StepLife ==
  ASSUME WorkerInv, [Next]_vars
  PROVE  [Life!Serve \/ Life!Stop]_Life!vars
<1>1. ASSUME NEW c \in Slot, Handle(c) PROVE Life!Serve
  <2>1. \A d \in Slot : Life!SlotStep(d)
    BY <1>1, HandleInv, HandleLife
  <2>2. pc = "wait" /\ pc' = pc
    BY <1>1 DEF Handle, OnAcceptError, OnAccept, OnReadEnd, OnReadHttp, OnReadHangUp,
                OnReadSip, OnWriteError, OnWrite, Received, Take
  <2> QED
    BY <2>1, <2>2 DEF Life!Serve
<1>2. ASSUME NEW c \in Slot, KernelStep(c) PROVE Life!Serve
  <2>1. \A d \in Slot : Life!SlotStep(d)
    BY <1>2, KernelInv, KernelLife
  <2>2. pc' = pc
    BY <1>2 DEF KernelStep, ClientConnects, AcceptFails, ClientSends, ClientLeaves,
                WriteDone, Complete, loop
  <2>3. ring[c] # <<>>
    BY <1>2 DEF KernelStep, ClientConnects, AcceptFails, ClientSends, ClientLeaves,
                WriteDone, Waiting
  <2>4. pc \notin {"closed", "ended"}
    BY <2>3 DEF WorkerInv, QueueInv, Serving
  <2> QED
    BY <2>1, <2>2, <2>4 DEF Life!Serve
<1>3. CASE CloseAll
  <2>1. pc = "drain" /\ pc' = "closed"
    BY <1>3 DEF CloseAll
  <2>2. \A c \in Slot : Phase(c)' = "closed" /\ OpSocket(c)' = INVALID_SOCKET
    BY <1>3, CloseAllInv, PhaseOfNextOps DEF PhaseFacts
  <2> QED
    BY <2>1, <2>2 DEF Life!Stop
<1>4. ASSUME ring' = ring, cq' = cq, pc' \in {"closed", "ended"} <=> pc \in {"closed", "ended"}
      PROVE  UNCHANGED Life!vars
  <2>1. \A c \in Slot : Phase(c)' = Phase(c) /\ OpSocket(c)' = OpSocket(c)
    BY <1>4, SameOps, Stays
  <2> QED
    BY <1>4, <2>1 DEF Life!vars
<1>5. CASE Sweep
  <2>1. UNCHANGED <<ring, cq>>
    BY <1>5, SweepFindsNothing DEF WorkerInv
  <2>2. pc = "sweep" /\ pc' \in {"wait", "drain"}
    BY <1>5 DEF Sweep
  <2> QED
    BY <1>4, <2>1, <2>2
<1>6. CASE WaitEnds \/ WriteEnd \/ ParentRequests \/ Tick \/ UNCHANGED vars
  <2>1. UNCHANGED <<ring, cq>>
    BY <1>6 DEF WaitEnds, WriteEnd, ParentRequests, Tick, vars
  <2>2. pc' \in {"closed", "ended"} <=> pc \in {"closed", "ended"}
    BY <1>6 DEF WaitEnds, WriteEnd, ParentRequests, Tick, vars, loop
  <2> QED
    BY <1>4, <2>1, <2>2
<1> QED
  BY <1>1, <1>2, <1>3, <1>5, <1>6 DEF Next, WorkerStep

(* At first every slot listens. *)
LEMMA InitLife == Init => Life!Init
<1> SUFFICES ASSUME Init PROVE Life!Init
  OBVIOUS
<1>1. ASSUME NEW c \in Slot PROVE Ops(c) = {AcceptOp(c)}
  BY InitInv, RingOps DEF WorkerInv, Init
<1>2. ASSUME NEW c \in Slot PROVE Phase(c) = "listening" /\ OpSocket(c) = INVALID_SOCKET
  <2>1. AcceptOp(c).res = "pending" /\ AcceptOp(c).op = "accept" /\ AcceptOp(c).fd = INVALID_SOCKET
    BY DEF AcceptOp
  <2> QED
    BY <1>1, <2>1, PhaseOfOps DEF PhaseFacts
<1>3. pc \notin {"closed", "ended"}
  BY DEF Init
<1> QED
  BY <1>2, <1>3 DEF Life!Init

(* The worker implements the life of its slots: a client is answered only after
   it was heard, on its own socket, two slots never serve the same socket, and
   a slot closes only when its client left, failed or was told so. *)
THEOREM WorkerImplementsSlotLife == Spec => ImplementsSlotLife
<1>1. WorkerInv /\ [Next]_vars => [Life!Serve \/ Life!Stop]_Life!vars
  BY StepLife
<1> QED
  BY <1>1, InitLife, WorkerInvariant, PTL DEF Spec, ImplementsSlotLife, Life!Spec
=============================================================================
