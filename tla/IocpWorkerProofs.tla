-------------------------- MODULE IocpWorkerProofs --------------------------
(***************************************************************************)
(* The sockets of a worker of the Windows server belong to its slots, one  *)
(* each; and as long as no operation completes at once, each slot has one  *)
(* operation under way, although its socket may be closed under it, and    *)
(* lives as module SlotLife says, but that the worker may drop its client. *)
(* For every number of slots, sockets, packets and events.                 *)
(***************************************************************************)
EXTENDS IocpWorker, FiniteSetTheorems, FunctionTheorems, SequenceTheorems, TLAPS

(* What is typed, what a batch is for, and the time of a closed slot: time goes
   on only in a sweep, which then accepts on every slot that was closed. *)
LoopInv ==
  /\ TypeOK
  /\ pc # "batch" => batch = <<>> /\ inline = <<>>
  /\ pc = "batch" => ior # AIN_TIMEOUT
  /\ time <= clock
  /\ \A c \in Slot : conn[c].fd = INVALID_SOCKET => conn[c].time = time

(* The packets a worker has yet to handle, but for one that completed at once. *)
Queued == batch \o port

(* Does slot c have a packet in q, and has no slot two of them? *)
Has(q, c) == \E n \in DOMAIN q : q[n].slot = c
Distinct(q) == \A m, n \in DOMAIN q : q[m].slot = q[n].slot => m = n

(* A slot has one operation, in the system or queued. *)
QueueInv ==
  /\ inline = <<>>
  /\ Distinct(Queued)
  /\ \A c \in Slot :
       /\ Len(kernel[c]) <= 1
       /\ kernel[c] # <<>> => ~Has(Queued, c) /\ conn[c].fd # INVALID_SOCKET
       /\ kernel[c] = <<"accept">> => handler[c] = "ain_socket_onaccept"

(* A slot with a socket is served on that socket.  Where the socket was closed
   under an operation, the descriptor left in the event is closed for as long as
   the operation is queued, and that is over when the worker next finds nothing
   to do. *)
SlotInv ==
  \A c \in Slot :
    /\ conn[c].fd # INVALID_SOCKET =>
         /\ kernel[c] # <<>> \/ Has(Queued, c)
         /\ evtfd[c].read_evt = conn[c].fd
    /\ conn[c].fd = INVALID_SOCKET /\ Has(Queued, c) =>
         /\ evtfd[c].read_evt \notin open
         /\ ~(pc = "sweep" /\ ior = AIN_TIMEOUT)

WorkerInv ==
  /\ LoopInv
  /\ SocketsOwned
  /\ twice = 0 => QueueInv /\ SlotInv

KernelOp == {"accept", "read", "write"}

-----------------------------------------------------------------------------
(* Sequences. *)

(* Taking one operation out of those in the system. *)
LEMMA RemoveOne ==
  ASSUME NEW S, NEW s \in Seq(S), NEW n \in DOMAIN s
  PROVE  RemoveAt(s, n) \in Seq(S) /\ Len(RemoveAt(s, n)) = Len(s) - 1
<1>1. /\ Len(s) \in Nat /\ n \in 1 .. Len(s) /\ n - 1 \in 0 .. Len(s)
      /\ n + 1 \in 1 .. Len(s) + 1 /\ \A i \in 1 .. Len(s) : s[i] \in S
  OBVIOUS
<1>2. PICK a : a = SubSeq(s, 1, n - 1)
  OBVIOUS
<1>3. PICK b : b = SubSeq(s, n + 1, Len(s))
  OBVIOUS
<1>4. a \in Seq(S) /\ Len(a) = n - 1
  <2>1. /\ 1 \in Int /\ n - 1 \in Int /\ \A i \in 1 .. n - 1 : s[i] \in S
        /\ (IF 1 <= n - 1 THEN (n - 1) - 1 + 1 ELSE 0) = n - 1
    BY <1>1
  <2> QED
    BY <1>2, <2>1, SubSeqProperties
<1>5. b \in Seq(S) /\ Len(b) = Len(s) - n
  <2>1. /\ n + 1 \in Int /\ Len(s) \in Int /\ \A i \in n + 1 .. Len(s) : s[i] \in S
        /\ (IF n + 1 <= Len(s) THEN Len(s) - (n + 1) + 1 ELSE 0) = Len(s) - n
    BY <1>1
  <2> QED
    BY <1>3, <2>1, SubSeqProperties
<1>6. a \o b \in Seq(S) /\ Len(a \o b) = Len(a) + Len(b)
  BY <1>4, <1>5, ConcatProperties
<1>7. RemoveAt(s, n) = a \o b
  BY <1>2, <1>3 DEF RemoveAt
<1>8. PICK l \in Nat : l = Len(s) /\ n \in 1 .. l
  BY <1>1
<1>9. Len(a \o b) = l - 1
  <2>1. Len(a \o b) = (n - 1) + (l - n)
    BY <1>4, <1>5, <1>6, <1>8
  <2>2. (n - 1) + (l - n) = l - 1
    BY ONLY <1>8
  <2> QED
    BY <2>1, <2>2
<1> QED
  BY ONLY <1>6, <1>7, <1>8, <1>9

(* What the pieces of the queue say of the queue. *)
LEMMA AppendHas ==
  ASSUME NEW q \in Seq(Packet), NEW p \in Packet
  PROVE  /\ \A c : Has(Append(q, p), c) <=> Has(q, c) \/ p.slot = c
         /\ Distinct(q) /\ ~Has(q, p.slot) => Distinct(Append(q, p))
<1>1. PICK r : r = Append(q, p)
  OBVIOUS
<1>2. /\ Len(q) \in Nat /\ DOMAIN q = 1 .. Len(q)
      /\ r \in Seq(Packet) /\ DOMAIN r = 1 .. Len(q) + 1
      /\ r[Len(q) + 1] = p /\ \A n \in 1 .. Len(q) : r[n] = q[n]
  BY <1>1, AppendProperties
<1>3. \A c : Has(r, c) <=> Has(q, c) \/ p.slot = c
  BY <1>2 DEF Has
<1>4. ASSUME Distinct(q), ~Has(q, p.slot) PROVE Distinct(r)
  BY <1>2, <1>4 DEF Distinct, Has
<1> QED
  BY <1>1, <1>3, <1>4

(* The same for packets put behind each other. *)
LEMMA ConcatHas ==
  ASSUME NEW q \in Seq(Packet), NEW s \in Seq(Packet)
  PROVE  /\ \A c : Has(q \o s, c) <=> Has(q, c) \/ Has(s, c)
         /\ Distinct(q) /\ Distinct(s) /\ (\A c : ~(Has(q, c) /\ Has(s, c)))
              => Distinct(q \o s)
<1>1. PICK r : r = q \o s
  OBVIOUS
<1>2. /\ Len(q) \in Nat /\ DOMAIN q = 1 .. Len(q)
      /\ Len(s) \in Nat /\ DOMAIN s = 1 .. Len(s)
      /\ r \in Seq(Packet) /\ DOMAIN r = 1 .. Len(q) + Len(s)
      /\ \A n \in 1 .. Len(q) + Len(s) : r[n] = IF n <= Len(q) THEN q[n] ELSE s[n - Len(q)]
  BY <1>1, ConcatProperties
<1>3. \A n \in DOMAIN r :
        \/ n \in DOMAIN q /\ r[n] = q[n]
        \/ n - Len(q) \in DOMAIN s /\ r[n] = s[n - Len(q)]
  BY <1>2
<1>4. ASSUME NEW m \in DOMAIN s PROVE m + Len(q) \in DOMAIN r /\ r[m + Len(q)] = s[m]
  BY <1>2
<1>5. \A m \in DOMAIN q : m \in DOMAIN r /\ r[m] = q[m]
  BY <1>2
<1>6. \A c : Has(r, c) <=> Has(q, c) \/ Has(s, c)
  BY <1>3, <1>4, <1>5 DEF Has
<1>7. ASSUME Distinct(q), Distinct(s), \A c : ~(Has(q, c) /\ Has(s, c)) PROVE Distinct(r)
  <2> SUFFICES ASSUME NEW m \in DOMAIN r, NEW n \in DOMAIN r, r[m].slot = r[n].slot
               PROVE  m = n
    BY DEF Distinct
  <2>1. CASE m \in DOMAIN q /\ n \in DOMAIN q
    BY <1>5, <1>7, <2>1 DEF Distinct
  <2>2. CASE m \notin DOMAIN q /\ n \notin DOMAIN q
    <3>1. /\ m - Len(q) \in DOMAIN s /\ r[m] = s[m - Len(q)]
          /\ n - Len(q) \in DOMAIN s /\ r[n] = s[n - Len(q)]
      BY <1>3, <2>2
    <3>2. m - Len(q) = n - Len(q)
      BY <1>7, <3>1 DEF Distinct
    <3> QED
      BY <1>2, <3>2
  <2>3. CASE m \in DOMAIN q /\ n \notin DOMAIN q
    BY <1>3, <1>5, <1>7, <2>3 DEF Has
  <2>4. CASE m \notin DOMAIN q /\ n \in DOMAIN q
    BY <1>3, <1>5, <1>7, <2>4 DEF Has
  <2> QED
    BY <2>1, <2>2, <2>3, <2>4
<1> QED
  BY <1>1, <1>6, <1>7

(* Taking the first packet of several, each of its own slot. *)
LEMMA TailHas ==
  ASSUME NEW q \in Seq(Packet), q # <<>>
  PROVE  /\ Head(q) \in Packet /\ Tail(q) \in Seq(Packet)
         /\ Has(q, Head(q).slot)
         /\ Distinct(q) => /\ Distinct(Tail(q))
                           /\ \A c : Has(Tail(q), c) <=> Has(q, c) /\ c # Head(q).slot
<1>1. PICK r : r = Tail(q)
  OBVIOUS
<1>2. /\ Len(q) \in Nat /\ Len(q) # 0 /\ DOMAIN q = 1 .. Len(q)
      /\ Head(q) = q[1] /\ Head(q) \in Packet
      /\ r \in Seq(Packet) /\ DOMAIN r = 1 .. Len(q) - 1
      /\ \A n \in 1 .. Len(q) - 1 : r[n] = q[n + 1]
  BY <1>1, EmptySeq, HeadTailProperties
<1>3. 1 \in DOMAIN q
  BY <1>2
<1>4. \A n \in DOMAIN r : n \in Nat /\ n + 1 \in DOMAIN q /\ n + 1 # 1 /\ r[n] = q[n + 1]
  BY <1>2
<1>5. ASSUME NEW n \in DOMAIN q, n # 1 PROVE n - 1 \in DOMAIN r /\ r[n - 1] = q[n]
  <2>1. n - 1 \in 1 .. Len(q) - 1 /\ (n - 1) + 1 = n
    BY <1>2, <1>5
  <2> QED
    BY <2>1, <1>2
<1>6. ASSUME Distinct(q) PROVE Distinct(r)
  <2> SUFFICES ASSUME NEW m \in DOMAIN r, NEW n \in DOMAIN r, r[m].slot = r[n].slot
               PROVE  m = n
    BY DEF Distinct
  <2>1. m + 1 = n + 1
    BY <1>4, <1>6 DEF Distinct
  <2> QED
    BY <1>4, <2>1
<1>7. ASSUME Distinct(q), NEW c PROVE Has(r, c) <=> Has(q, c) /\ c # Head(q).slot
  <2>1. ASSUME Has(r, c) PROVE Has(q, c) /\ c # Head(q).slot
    BY <1>2, <1>3, <1>4, <1>7, <2>1 DEF Has, Distinct
  <2>2. ASSUME Has(q, c), c # Head(q).slot PROVE Has(r, c)
    BY <1>2, <1>5, <2>2 DEF Has
  <2> QED
    BY <2>1, <2>2
<1> QED
  BY <1>1, <1>2, <1>3, <1>4, <1>6, <1>7 DEF Has

(* The operations of sockets that are closed, as packets. *)
LEMMA CancelledPackets ==
  ASSUME NEW S \in SUBSET Slot, kernel \in [Slot -> Seq(KernelOp)], NEW p \in Cancelled(S)
  PROVE  /\ p \in Seq(Packet)
         /\ \A n \in DOMAIN p :
              p[n].slot \in S /\ kernel[p[n].slot] # <<>>
         /\ (\A c \in S : Len(kernel[c]) <= 1) => Distinct(p)
<1> DEFINE ops == UNION {{c} \X DOMAIN kernel[c] : c \in S}
<1>1. IsFiniteSet(ops)
  <2> DEFINE f == [c \in S |-> {c} \X DOMAIN kernel[c]]
             T == {{c} \X DOMAIN kernel[c] : c \in S}
  <2>1. IsFiniteSet(S)
    BY IocpAssumption, FS_Subset
  <2>2. f \in Surjection(S, T)
    BY DEF Surjection
  <2>3. IsFiniteSet(T)
    BY <2>1, <2>2, FS_Surjection
  <2>4. ASSUME NEW c \in S PROVE IsFiniteSet({c} \X DOMAIN kernel[c])
    <3>1. DOMAIN kernel[c] = 1 .. Len(kernel[c]) /\ Len(kernel[c]) \in Nat
      OBVIOUS
    <3>2. IsFiniteSet(1 .. Len(kernel[c]))
      BY ONLY <3>1, FS_Interval
    <3>3. IsFiniteSet({c})
      BY FS_Singleton
    <3> QED
      BY <3>1, <3>2, <3>3, FS_Product
  <2> HIDE DEF f
  <2> QED
    BY <2>3, <2>4, FS_UNION
<1>2. PICK s \in SetToSeqs(ops) :
        p = [n \in DOMAIN s |-> PacketOf(s[n][1], kernel[s[n][1]][s[n][2]], "none")]
  BY DEF Cancelled
<1>3. PICK k \in Nat : k = Cardinality(ops)
  BY <1>1, FS_CardinalityType
<1>4. /\ DOMAIN s = 1 .. k /\ \A n \in 1 .. k : s[n] \in ops
      /\ \A i, j \in 1 .. k : s[i] = s[j] => i = j
  BY <1>3 DEF SetToSeqs
<1>5. ASSUME NEW n \in 1 .. k
      PROVE  /\ s[n][1] \in S /\ s[n][2] \in DOMAIN kernel[s[n][1]]
             /\ s[n] = <<s[n][1], s[n][2]>>
  <2>1. PICK c \in S : s[n] \in {c} \X DOMAIN kernel[c]
    BY <1>4
  <2> QED
    BY <2>1
<1> HIDE DEF ops
<1>6. ASSUME NEW c \in Slot, NEW m \in DOMAIN kernel[c]
      PROVE  /\ kernel[c] \in Seq(KernelOp) /\ kernel[c][m] \in KernelOp
             /\ kernel[c] # <<>>
             /\ PacketOf(c, kernel[c][m], "none") \in Packet
             /\ PacketOf(c, kernel[c][m], "none").slot = c
  <2>1. kernel[c] \in Seq(KernelOp)
    OBVIOUS
  <2>2. kernel[c] # <<>> /\ kernel[c][m] \in KernelOp
    BY <2>1
  <2>3. EventOf(kernel[c][m]) \in Event
    BY DEF EventOf, Event
  <2> QED
    BY <2>1, <2>2, <2>3 DEF PacketOf, Packet, Bytes
<1>7. /\ DOMAIN p = 1 .. k
      /\ \A n \in 1 .. k : p[n] = PacketOf(s[n][1], kernel[s[n][1]][s[n][2]], "none")
  BY <1>2, <1>4
<1>8. ASSUME NEW n \in 1 .. k
      PROVE  /\ p[n] \in Packet
             /\ p[n].slot = s[n][1] /\ p[n].slot \in S /\ kernel[p[n].slot] # <<>>
  BY <1>5, <1>6, <1>7
<1>9. p \in Seq(Packet)
  <2>1. p = [n \in 1 .. k |-> p[n]]
    BY <1>2, <1>4
  <2> QED
    BY <2>1, <1>8
<1>10. ASSUME \A c \in S : Len(kernel[c]) <= 1 PROVE Distinct(p)
  <2> SUFFICES ASSUME NEW m \in 1 .. k, NEW n \in 1 .. k, p[m].slot = p[n].slot
               PROVE  m = n
    BY <1>7 DEF Distinct
  <2>1. s[m][1] = s[n][1]
    BY <1>8
  <2>2. ASSUME NEW i \in 1 .. k PROVE s[i][2] = 1
    <3>1. /\ s[i][1] \in S /\ s[i][2] \in DOMAIN kernel[s[i][1]]
          /\ kernel[s[i][1]] \in Seq(KernelOp)
      BY <1>5
    <3>2. Len(kernel[s[i][1]]) <= 1
      BY <1>10, <3>1
    <3> QED
      BY <3>1, <3>2
  <2>3. s[m] = s[n]
    BY <1>5, <2>1, <2>2
  <2> QED
    BY <1>4, <2>3
<1> QED
  BY <1>7, <1>8, <1>9, <1>10

(* A queue that loses its first packet, or gains some at its end. *)
LEMMA QueueEnds ==
  ASSUME NEW b \in Seq(Packet), NEW q \in Seq(Packet)
  PROVE  /\ b \o q \in Seq(Packet)
         /\ <<>> \o q = q /\ b \o <<>> = b
         /\ b # <<>> => Head(b \o q) = Head(b) /\ Tail(b \o q) = Tail(b) \o q /\ b \o q # <<>>
         /\ \A p \in Packet : b \o Append(q, p) = Append(b \o q, p)
         /\ \A s \in Seq(Packet) : b \o (q \o s) = (b \o q) \o s
<1>1. b \o q \in Seq(Packet) /\ <<>> \o q = q /\ b \o <<>> = b
  BY ConcatProperties, ConcatEmptySeq
<1>2. ASSUME b # <<>>
      PROVE  Head(b \o q) = Head(b) /\ Tail(b \o q) = Tail(b) \o q /\ b \o q # <<>>
  <2>1. PICK r : r = b \o q
    OBVIOUS
  <2>2. PICK l \in Nat, m \in Nat : l = Len(b) /\ m = Len(q)
    BY LenProperties
  <2>3. l # 0
    BY <1>2, <2>2, EmptySeq
  <2>4. /\ r \in Seq(Packet) /\ Len(r) = l + m
        /\ \A i \in 1 .. l + m : r[i] = IF i <= l THEN b[i] ELSE q[i - l]
    BY <2>1, <2>2, ConcatProperties
  <2>5. PICK t : t = Tail(r)
    OBVIOUS
  <2>6. PICK u : u = Tail(b)
    OBVIOUS
  <2>7. PICK v : v = u \o q
    OBVIOUS
  <2>8. r # <<>>
    BY <2>2, <2>3, <2>4, EmptySeq
  <2>9. t \in Seq(Packet) /\ Len(t) = (l + m) - 1 /\ \A i \in 1 .. Len(t) : t[i] = r[i + 1]
    BY <2>4, <2>5, <2>8, HeadTailProperties
  <2>10. u \in Seq(Packet) /\ Len(u) = l - 1 /\ \A i \in 1 .. Len(u) : u[i] = b[i + 1]
    BY <1>2, <2>2, <2>6, HeadTailProperties
  <2>11. /\ v \in Seq(Packet) /\ Len(v) = (l - 1) + m
         /\ \A i \in 1 .. (l - 1) + m : v[i] = IF i <= l - 1 THEN u[i] ELSE q[i - (l - 1)]
    BY <2>2, <2>7, <2>10, ConcatProperties
  <2>12. ASSUME NEW i \in 1 .. Len(t) PROVE t[i] = v[i]
    <3>1. /\ i \in Nat /\ i + 1 \in 1 .. l + m /\ i \in 1 .. (l - 1) + m
          /\ (i + 1 <= l <=> i <= l - 1) /\ (i + 1) - l = i - (l - 1)
          /\ (i <= l - 1 => i \in 1 .. l - 1)
      BY <2>2, <2>3, <2>9
    <3>2. t[i] = IF i + 1 <= l THEN b[i + 1] ELSE q[(i + 1) - l]
      BY <2>4, <2>9, <3>1
    <3>3. v[i] = IF i <= l - 1 THEN b[i + 1] ELSE q[i - (l - 1)]
      BY <2>10, <2>11, <3>1
    <3> QED
      BY <3>1, <3>2, <3>3
  <2>13. Len(t) = Len(v)
    BY <2>2, <2>9, <2>11
  <2>14. t = v
    BY <2>12, <2>13, <2>9, <2>11, SeqEqual
  <2>15. Head(r) = r[1] /\ Head(b) = b[1] /\ r[1] = b[1]
    BY <2>2, <2>3, <2>4
  <2> QED
    BY <2>1, <2>5, <2>6, <2>7, <2>14, <2>15, <2>8
<1>3. ASSUME NEW p \in Packet PROVE b \o Append(q, p) = Append(b \o q, p)
  <2>1. /\ Append(q, p) = q \o <<p>> /\ Append(b \o q, p) = (b \o q) \o <<p>>
        /\ <<p>> \in Seq(Packet)
    BY <1>1, AppendIsConcat
  <2>2. (b \o q) \o <<p>> = b \o (q \o <<p>>)
    BY <2>1, ConcatAssociative
  <2> QED
    BY <2>1, <2>2
<1>4. ASSUME NEW s \in Seq(Packet) PROVE b \o (q \o s) = (b \o q) \o s
  <2>1. (b \o q) \o s = b \o (q \o s)
    BY ConcatAssociative
  <2> QED
    BY <2>1
<1> QED
  BY <1>1, <1>2, <1>3, <1>4

(* Packets at the end of the port are packets at the end of all that is queued. *)
LEMMA QueueGains ==
  ASSUME NEW b \in Seq(Packet), NEW q \in Seq(Packet)
  PROVE  /\ \A p \in Packet : b \o Append(q, p) = Append(b \o q, p)
         /\ \A s \in Seq(Packet) : b \o (q \o s) = (b \o q) \o s
  BY QueueEnds, SMTT(30)

-----------------------------------------------------------------------------
(* The slots start with one socket and one operation each. *)

(* There are sockets enough for a slot to have one of its own. *)
LEMMA FirstSockets ==
  \E f \in [Slot -> Fd] : \A c, d \in Slot : f[c] = f[d] => c = d
<1>1. /\ Cardinality(Slot) \in Nat /\ ExistsBijection(1 .. Cardinality(Slot), Slot)
      /\ Cardinality(Fd) \in Nat /\ ExistsBijection(1 .. Cardinality(Fd), Fd)
  BY IocpAssumption, FS_CardinalityType
<1>2. PICK g : g \in Bijection(Slot, 1 .. Cardinality(Slot))
  BY <1>1, Fun_ExistsBijSymmetric DEF ExistsBijection
<1>3. PICK h : h \in Bijection(1 .. Cardinality(Fd), Fd)
  BY <1>1 DEF ExistsBijection
<1>4. /\ g \in [Slot -> 1 .. Cardinality(Slot)]
      /\ \A c, d \in Slot : g[c] = g[d] => c = d
  BY <1>2 DEF Bijection, Injection, IsInjective
<1>5. /\ h \in [1 .. Cardinality(Fd) -> Fd]
      /\ \A c, d \in 1 .. Cardinality(Fd) : h[c] = h[d] => c = d
  BY <1>3 DEF Bijection, Injection, IsInjective
<1>6. \A c \in Slot : g[c] \in 1 .. Cardinality(Fd)
  BY <1>1, <1>4, IocpAssumption
<1>7. PICK f : f = [c \in Slot |-> h[g[c]]]
  OBVIOUS
<1>8. f \in [Slot -> Fd] /\ \A c, d \in Slot : f[c] = f[d] => c = d
  BY <1>4, <1>5, <1>6, <1>7
<1> QED
  BY <1>8

(* The invariant holds when the worker starts. *)
LEMMA WorkerInvInit == Init => WorkerInv
<1> SUFFICES ASSUME Init PROVE WorkerInv
  OBVIOUS
<1>1. PICK fd : fd = CHOOSE f \in [Slot -> Fd] : \A c, d \in Slot : f[c] = f[d] => c = d
  OBVIOUS
<1>2. fd \in [Slot -> Fd] /\ \A c, d \in Slot : fd[c] = fd[d] => c = d
  BY <1>1, FirstSockets
<1>3. /\ conn = [c \in Slot |-> [fd |-> fd[c], connected |-> 0, keep_alive |-> 0,
                                 time |-> 0]]
      /\ evtfd = [c \in Slot |-> [read_evt |-> fd[c], write_evt |-> INVALID_SOCKET]]
      /\ open = {fd[c] : c \in Slot}
  BY <1>1 DEF Init
<1>4. INVALID_SOCKET \notin Fd
  BY IocpAssumption DEF INVALID_SOCKET
<1>5. TypeOK
  <2>1. conn \in [Slot -> [fd : Fd \cup {INVALID_SOCKET}, connected : {0, 1},
                           keep_alive : {0, 1}, time : {0} \cup Start .. MaxTime]]
    BY <1>2, <1>3
  <2>2. evtfd \in [Slot -> [Event -> Fd \cup {INVALID_SOCKET}]]
    BY <1>2, <1>3 DEF Event
  <2>3. internal \in [Slot -> [Event -> {"pending", "ok", "error"}]]
    BY DEF Init, Event
  <2>4. open \in SUBSET Fd
    BY <1>2, <1>3
  <2>5. /\ Proto \in Protos /\ handler \in [Slot -> {"ain_socket_onaccept", "ain_conn_onread"}]
        /\ kernel \in [Slot -> Seq({"accept", "read", "write"})]
    BY DEF Init
  <2>6. /\ port \in Seq(Packet) /\ batch \in Seq(Packet) /\ inline \in Seq(Packet)
        /\ Len(batch) <= IO_QUERY_CNT /\ Len(inline) <= 1
    BY IocpAssumption DEF Init
  <2>7. /\ clock \in Start .. MaxTime /\ time \in {0} \cup Start .. MaxTime
        /\ ior \in AIN_TIMEOUT .. IO_QUERY_CNT
        /\ pc \in {"wait", "batch", "sweep", "drain", "ended"}
        /\ quit \in {"RUN", "QUIT_REQ", "QUIT_CMD", "END"}
        /\ io \in 0 .. MaxIo /\ twice \in 0 .. MaxTwice
    BY IocpAssumption DEF Init, AIN_TIMEOUT
  <2> QED
    BY <2>1, <2>2, <2>3, <2>4, <2>5, <2>6, <2>7 DEF TypeOK
<1>6. LoopInv
  <2>1. \A c \in Slot : conn[c].fd # INVALID_SOCKET
    BY <1>2, <1>3, <1>4
  <2>2. batch = <<>> /\ inline = <<>> /\ pc = "wait" /\ time <= clock
    BY IocpAssumption DEF Init
  <2> QED
    BY <1>5, <2>1, <2>2 DEF LoopInv
<1>7. SocketsOwned
  BY <1>2, <1>3, <1>4 DEF SocketsOwned
<1>8. Queued = <<>> /\ \A c : ~Has(Queued, c)
  <2>1. Queued = <<>>
    BY QueueEnds, EmptySeq DEF Init, Queued
  <2> QED
    BY <2>1 DEF Has
<1>9. QueueInv
  <2>1. /\ Distinct(Queued) /\ inline = <<>>
    BY <1>8 DEF Distinct, Init
  <2>2. \A c \in Slot : /\ Len(kernel[c]) <= 1 /\ conn[c].fd # INVALID_SOCKET
                        /\ handler[c] = "ain_socket_onaccept"
    BY <1>2, <1>3, <1>4 DEF Init
  <2> QED
    BY <1>8, <2>1, <2>2 DEF QueueInv
<1>10. SlotInv
  <2>1. \A c \in Slot : kernel[c] # <<>>
    BY DEF Init
  <2> QED
    BY <1>2, <1>3, <1>8, <2>1 DEF SlotInv
<1> QED
  BY <1>6, <1>7, <1>9, <1>10 DEF WorkerInv

-----------------------------------------------------------------------------
(* What a handler does. *)

Conn == [fd : Fd \cup {INVALID_SOCKET}, connected : {0, 1}, keep_alive : {0, 1},
         time : {0} \cup Start .. MaxTime]

(* A packet that is handled puts its slot in one of four phases. *)
LEMMA PacketPhases ==
  ASSUME NEW c, NEW p \in Packet
  PROVE  /\ PhaseOfPacket(c, p) \in {"written", "failed", "arrived", "heard"}
         /\ p.evt = "write_evt" =>
              PhaseOfPacket(c, p) =
                IF internal[c].write_evt = "ok" /\ p.bytes # "none" THEN "written" ELSE "failed"
         /\ p.evt = "read_evt" /\ handler[c] = "ain_socket_onaccept" =>
              PhaseOfPacket(c, p) =
                IF internal[c].read_evt = "ok" THEN "arrived" ELSE "failed"
         /\ p.evt = "read_evt" /\ handler[c] = "ain_conn_onread" =>
              PhaseOfPacket(c, p) =
                IF internal[c].read_evt = "error" \/ p.bytes = "none" THEN "failed" ELSE "heard"
  BY DEF PhaseOfPacket

(* The operation a handler may submit after what it was called for. *)
Follows == {<<"arrived", "read">>, <<"heard", "read">>, <<"heard", "write">>,
            <<"written", "read">>}

(* A handler goes on with the slot's own socket, and stamps it with the time. *)
GoesOnWith(c, op, k, fd) ==
  /\ k.fd = conn[c].fd /\ k.time \in {conn[c].time, time}
  /\ fd = IF op = "read" THEN evtfd[c].read_evt ELSE conn[c].fd
  /\ inline = <<>> => <<PhaseOfPacket(c, Now), op>> \in Follows

(* What a handler finds in its event tells the phase of its slot. *)
LEMMA HandledPhase ==
  ASSUME TypeOK, NEW c \in Slot, inline = <<>>
  PROVE  /\ \A e \in Event : Take(c, e) => Now \in Packet
         /\ Take(c, "read_evt") /\ handler[c] = "ain_socket_onaccept" /\ Result = "ok"
              => PhaseOfPacket(c, Now) = "arrived"
         /\ Take(c, "read_evt") /\ handler[c] = "ain_conn_onread"
              /\ Now.bytes # "none" /\ Result \in {"ok", "pending"}
              => PhaseOfPacket(c, Now) = "heard"
         /\ Take(c, "write_evt") /\ Result = "ok" /\ Now.bytes # "none"
              => PhaseOfPacket(c, Now) = "written"
<1>1. ASSUME NEW e \in Event, Take(c, e)
      PROVE  /\ Now \in Packet /\ Now.slot = c /\ Now.evt = e
             /\ Result = internal[c][e]
  <2>1. batch \in Seq(Packet) /\ batch # <<>> /\ Now = Head(batch)
    BY <1>1 DEF TypeOK, Take, Now
  <2>2. Now \in Packet
    BY <2>1, HeadTailProperties
  <2> QED
    BY <1>1, <2>2 DEF Take, Result
<1>2. "read_evt" \in Event /\ "write_evt" \in Event
  BY DEF Event
<1>3. ASSUME Take(c, "read_evt"), handler[c] = "ain_socket_onaccept", Result = "ok"
      PROVE  PhaseOfPacket(c, Now) = "arrived"
  BY <1>1, <1>2, <1>3, PacketPhases
<1>4. ASSUME Take(c, "read_evt"), handler[c] = "ain_conn_onread",
             Now.bytes # "none", Result \in {"ok", "pending"}
      PROVE  PhaseOfPacket(c, Now) = "heard"
  BY <1>1, <1>2, <1>4, PacketPhases
<1>5. ASSUME Take(c, "write_evt"), Result = "ok", Now.bytes # "none"
      PROVE  PhaseOfPacket(c, Now) = "written"
  BY <1>1, <1>2, <1>5, PacketPhases
<1> QED
  BY <1>1, <1>3, <1>4, <1>5

(* A handler closes its slot, when it must or because the system takes no more
   operations on its socket: all that follows from either. *)
Status == {"pending", "ok", "error"}
Handlers == {"ain_socket_onaccept", "ain_conn_onread"}
Closes(c) ==
  \E k \in Conn, i \in [Event -> Status], h \in Handlers,
     f \in [Event -> Fd \cup {INVALID_SOCKET}] :
    /\ k.fd = conn[c].fd
    /\ CloseAs(c, k, i)
    /\ handler' = [handler EXCEPT ![c] = h]
    /\ evtfd' = [evtfd EXCEPT ![c] = f]

(* ain_conn_close of a slot as it is. *)
LEMMA CloseCloses ==
  ASSUME TypeOK, NEW c \in Slot, Close(c)
  PROVE  Closes(c)
<1>1. /\ conn[c] \in Conn /\ internal[c] \in [Event -> Status]
      /\ handler \in [Slot -> Handlers] /\ handler[c] \in Handlers
      /\ evtfd \in [Slot -> [Event -> Fd \cup {INVALID_SOCKET}]]
      /\ evtfd[c] \in [Event -> Fd \cup {INVALID_SOCKET}]
  BY DEF TypeOK, Conn, Status, Handlers
<1>2. /\ CloseAs(c, conn[c], internal[c])
      /\ handler' = handler /\ evtfd' = evtfd
  BY DEF Close
<1>3. handler' = [handler EXCEPT ![c] = handler[c]]
  BY <1>1, <1>2
<1>4. evtfd' = [evtfd EXCEPT ![c] = evtfd[c]]
  BY <1>1, <1>2
<1> QED
  BY <1>1, <1>2, <1>3, <1>4 DEF Closes

(* ain_conn_close after an operation that was prepared and not taken. *)
LEMMA FailsCloses ==
  ASSUME TypeOK, NEW c \in Slot, NEW op \in {"read", "write"}, NEW k \in Conn,
         NEW fd \in Fd \cup {INVALID_SOCKET}, k.fd = conn[c].fd,
         SubmitFails(c, op, k, fd)
  PROVE  Closes(c) /\ (UNCHANGED outside \/ Happens)
<1>1. PICK e \in Event : e = EventOf(op)
  BY DEF EventOf, Event
<1>2. PICK i : i = [internal[c] EXCEPT ![e] = "ok"]
  OBVIOUS
<1>3. PICK h : h = IF op = "read" THEN "ain_conn_onread" ELSE handler[c]
  OBVIOUS
<1>4. PICK f : f = [evtfd[c] EXCEPT ![e] = fd]
  OBVIOUS
<1>5. /\ internal[c] \in [Event -> Status]
      /\ handler \in [Slot -> Handlers] /\ handler[c] \in Handlers
      /\ evtfd \in [Slot -> [Event -> Fd \cup {INVALID_SOCKET}]]
      /\ evtfd[c] \in [Event -> Fd \cup {INVALID_SOCKET}]
  BY DEF TypeOK, Status, Handlers
<1>6. i \in [Event -> Status]
  BY <1>2, <1>5 DEF Status
<1>7. h \in Handlers /\ f \in [Event -> Fd \cup {INVALID_SOCKET}]
  BY <1>3, <1>4, <1>5 DEF Handlers
<1>8. /\ CloseAs(c, k, i)
      /\ handler' = IF op = "read" THEN [handler EXCEPT ![c] = "ain_conn_onread"]
                    ELSE handler
      /\ evtfd' = [evtfd EXCEPT ![c][e] = fd]
      /\ UNCHANGED outside \/ Happens
  BY <1>1, <1>2 DEF SubmitFails
<1>9. handler' = [handler EXCEPT ![c] = h]
  BY <1>3, <1>5, <1>8
<1>10. evtfd' = [evtfd EXCEPT ![c] = f]
  BY <1>4, <1>5, <1>8
<1> QED
  BY <1>6, <1>7, <1>8, <1>9, <1>10, ZenonT(40) DEF Closes

(* A handler takes one packet, and closes the slot or submits one operation. *)
LEMMA HandleCases ==
  ASSUME TypeOK, NEW c \in Slot, Handle(c)
  PROVE  /\ \E e \in Event : Take(c, e)
         /\ quit' \in {"RUN", "QUIT_REQ", "QUIT_CMD", "END"}
         /\ \/ Closes(c) /\ (UNCHANGED outside \/ Happens)
            \/ \E op \in {"read", "write"}, k \in Conn, fd \in Fd \cup {INVALID_SOCKET} :
                 Submit(c, op, k, fd) /\ GoesOnWith(c, op, k, fd)
<1>1. /\ conn[c] \in Conn /\ evtfd[c].read_evt \in Fd \cup {INVALID_SOCKET}
      /\ conn[c].fd \in Fd \cup {INVALID_SOCKET}
      /\ time \in {0} \cup Start .. MaxTime
      /\ quit \in {"RUN", "QUIT_REQ", "QUIT_CMD", "END"}
  BY DEF TypeOK, Conn, Event
<1>2. ASSUME Close(c) PROVE Closes(c)
  BY <1>2, CloseCloses
<1>3. CASE OnAccept(c)
  <2>1. Take(c, "read_evt") /\ quit' = quit
    BY <1>3 DEF OnAccept
  <2>2. CASE Close(c) /\ UNCHANGED outside
    BY <1>1, <1>2, <2>1, <2>2 DEF Event
  <2>3. CASE SubmitFails(c, "read", [conn[c] EXCEPT !.connected = 1], evtfd[c].read_evt)
    <3>1. /\ [conn[c] EXCEPT !.connected = 1] \in Conn
          /\ [conn[c] EXCEPT !.connected = 1].fd = conn[c].fd
      BY <1>1 DEF Conn
    <3> QED
      BY <1>1, <2>1, <2>3, <3>1, FailsCloses DEF Event
  <2>4. CASE /\ Result = "ok"
             /\ Submit(c, "read", [conn[c] EXCEPT !.connected = 1], evtfd[c].read_evt)
    <3>1. /\ [conn[c] EXCEPT !.connected = 1] \in Conn
          /\ GoesOnWith(c, "read", [conn[c] EXCEPT !.connected = 1], evtfd[c].read_evt)
      <4>1. inline = <<>> => PhaseOfPacket(c, Now) = "arrived"
        BY <1>3, <2>1, <2>4, HandledPhase DEF OnAccept
      <4> QED
        BY <1>1, <4>1 DEF Conn, GoesOnWith, Follows
    <3> QED
      BY <1>1, <2>1, <2>4, <3>1 DEF Event
  <2> QED
    BY <1>3, <2>2, <2>3, <2>4 DEF OnAccept, Submits
<1>4. CASE OnReadEnd(c)
  BY <1>1, <1>2, <1>4 DEF OnReadEnd, Event
<1>5. CASE OnReadPending(c)
  <2>1. Take(c, "read_evt") /\ quit' = quit
    BY <1>5 DEF OnReadPending
  <2>2. CASE SubmitFails(c, "read", conn[c], evtfd[c].read_evt)
    BY <1>1, <2>1, <2>2, FailsCloses DEF Event
  <2>3. CASE Submit(c, "read", conn[c], evtfd[c].read_evt)
    <3>1. inline = <<>> => PhaseOfPacket(c, Now) = "heard"
      BY <1>5, <2>1, HandledPhase DEF OnReadPending
    <3> QED
      BY <1>1, <2>1, <2>3, <3>1 DEF Event, GoesOnWith, Follows
  <2> QED
    BY <1>5, <2>2, <2>3 DEF OnReadPending, Submits
<1>6. CASE OnReadHttp(c)
  <2> DEFINE k == [conn[c] EXCEPT !.time = time, !.keep_alive = 1]
  <2>1. Take(c, "read_evt") /\ quit' = quit
    BY <1>6 DEF OnReadHttp, Received
  <2>2. CASE SubmitFails(c, "write", k, conn[c].fd)
    <3>1. k \in Conn /\ k.fd = conn[c].fd
      BY <1>1 DEF Conn
    <3> QED
      BY <1>1, <2>1, <2>2, <3>1, FailsCloses DEF Event
  <2>3. CASE Submit(c, "write", k, conn[c].fd)
    <3>1. k \in Conn /\ GoesOnWith(c, "write", k, conn[c].fd)
      <4>1. inline = <<>> => PhaseOfPacket(c, Now) = "heard"
        BY <1>6, <2>1, HandledPhase DEF OnReadHttp, Received
      <4> QED
        BY <1>1, <4>1 DEF Conn, GoesOnWith, Follows
    <3> QED
      BY <1>1, <2>1, <2>3, <3>1 DEF Event
  <2> QED
    BY <1>6, <2>2, <2>3 DEF OnReadHttp, Submits
<1>7. CASE OnReadSip(c)
  <2> DEFINE k == [conn[c] EXCEPT !.time = time]
  <2>1. Take(c, "read_evt") /\ quit' = quit
    BY <1>7 DEF OnReadSip, Received
  <2>2. CASE SubmitFails(c, "read", k, evtfd[c].read_evt)
    <3>1. k \in Conn /\ k.fd = conn[c].fd
      BY <1>1 DEF Conn
    <3> QED
      BY <1>1, <2>1, <2>2, <3>1, FailsCloses DEF Event
  <2>3. CASE Submit(c, "read", k, evtfd[c].read_evt)
    <3>1. k \in Conn /\ GoesOnWith(c, "read", k, evtfd[c].read_evt)
      <4>1. inline = <<>> => PhaseOfPacket(c, Now) = "heard"
        BY <1>7, <2>1, HandledPhase DEF OnReadSip, Received
      <4> QED
        BY <1>1, <4>1 DEF Conn, GoesOnWith, Follows
    <3> QED
      BY <1>1, <2>1, <2>3, <3>1 DEF Event
  <2> QED
    BY <1>7, <2>2, <2>3 DEF OnReadSip, Submits
<1>8. CASE OnReadHangUp(c)
  BY <1>1, <1>2, <1>8 DEF OnReadHangUp, Received, Event
<1>9. CASE OnWrite(c)
  <2>1. Take(c, "write_evt") /\ quit' = quit
    BY <1>9 DEF OnWrite
  <2>2. CASE Close(c) /\ UNCHANGED outside
    BY <1>1, <1>2, <2>1, <2>2 DEF Event
  <2>3. CASE SubmitFails(c, "read", conn[c], evtfd[c].read_evt)
    BY <1>1, <2>1, <2>3, FailsCloses DEF Event
  <2>4. CASE /\ Result = "ok" /\ Now.bytes # "none"
             /\ Submit(c, "read", conn[c], evtfd[c].read_evt)
    <3>1. inline = <<>> => PhaseOfPacket(c, Now) = "written"
      BY <2>1, <2>4, HandledPhase
    <3> QED
      BY <1>1, <2>1, <2>4, <3>1 DEF Event, GoesOnWith, Follows
  <2> QED
    BY <1>9, <2>2, <2>3, <2>4 DEF OnWrite, Submits
<1> QED
  BY <1>3, <1>4, <1>5, <1>6, <1>7, <1>8, <1>9 DEF Handle

(* A handler leaves the loop where it is, one packet further. *)
LEMMA HandleLoop ==
  ASSUME TypeOK, NEW c \in Slot, Handle(c)
  PROVE  /\ pc = "batch" /\ UNCHANGED <<clock, time, ior, pc, Proto>>
         /\ batch' \in Seq(Packet) /\ Len(batch') <= IO_QUERY_CNT
         /\ quit' \in {"RUN", "QUIT_REQ", "QUIT_CMD", "END"}
         /\ io' \in 0 .. MaxIo /\ twice' \in 0 .. MaxTwice /\ twice' >= twice
<1>1. PICK e \in Event : Take(c, e)
  BY HandleCases
<1>2. pc = "batch" /\ UNCHANGED <<clock, time, ior, pc>> /\ (inline # <<>> \/ batch # <<>>)
  BY <1>1 DEF Take
<1>3. batch' \in Seq(Packet) /\ Len(batch') <= IO_QUERY_CNT
  <2>1. batch \in Seq(Packet) /\ Len(batch) <= IO_QUERY_CNT
    BY DEF TypeOK
  <2>2. CASE inline # <<>>
    BY <1>1, <2>1, <2>2 DEF Take
  <2>3. CASE inline = <<>>
    <3>1. batch' = Tail(batch) /\ batch # <<>>
      BY <1>1, <1>2, <2>3 DEF Take
    <3>2. Tail(batch) \in Seq(Packet) /\ Len(Tail(batch)) = Len(batch) - 1
      BY <2>1, <3>1, HeadTailProperties
    <3> QED
      BY <2>1, <3>1, <3>2, IocpAssumption
  <2> QED
    BY <2>2, <2>3
<1>4. /\ io \in 0 .. MaxIo /\ twice \in 0 .. MaxTwice /\ MaxIo \in Nat /\ MaxTwice \in Nat
  BY IocpAssumption DEF TypeOK
<1>5. /\ Proto' = Proto /\ io' \in 0 .. MaxIo
      /\ twice' \in 0 .. MaxTwice /\ twice' >= twice
  <2>1. ASSUME NEW op \in {"read", "write"}, NEW k \in Conn,
               NEW fd \in Fd \cup {INVALID_SOCKET}, Submit(c, op, k, fd)
        PROVE  \/ UNCHANGED outside
               \/ (twice < MaxTwice /\ twice' = twice + 1 /\ UNCHANGED <<Proto, io>>)
    BY <2>1 DEF Submit
  <2>2. CASE UNCHANGED outside \/ Happens
    BY <1>4, <2>2 DEF outside, Happens
  <2>3. CASE twice < MaxTwice /\ twice' = twice + 1 /\ UNCHANGED <<Proto, io>>
    BY <1>4, <2>3
  <2> QED
    BY <2>1, <2>2, <2>3, HandleCases
<1> QED
  BY <1>2, <1>3, <1>5, HandleCases

-----------------------------------------------------------------------------
(* Whatever completes at once: the loop, and the sockets it has open. *)

(* A handler that closes its slot closes no other slot's socket. *)
LEMMA CloseLoop ==
  ASSUME LoopInv, SocketsOwned, NEW c \in Slot, Handle(c), Closes(c)
  PROVE  LoopInv' /\ SocketsOwned'
<1>1. TypeOK /\ INVALID_SOCKET \notin Fd /\ INVALID_SOCKET = -1
  BY IocpAssumption DEF LoopInv, INVALID_SOCKET
<1>2. /\ pc = "batch" /\ UNCHANGED <<clock, time, ior, pc, Proto>>
      /\ batch' \in Seq(Packet) /\ Len(batch') <= IO_QUERY_CNT
      /\ quit' \in {"RUN", "QUIT_REQ", "QUIT_CMD", "END"}
      /\ io' \in 0 .. MaxIo /\ twice' \in 0 .. MaxTwice
  BY <1>1, HandleLoop
<1>3. /\ conn \in [Slot -> Conn] /\ time \in {0} \cup Start .. MaxTime
      /\ kernel \in [Slot -> Seq(KernelOp)]
      /\ internal \in [Slot -> [Event -> {"pending", "ok", "error"}]]
      /\ port \in Seq(Packet) /\ open \in SUBSET Fd
      /\ handler \in [Slot -> Handlers]
      /\ evtfd \in [Slot -> [Event -> Fd \cup {INVALID_SOCKET}]]
  BY <1>1 DEF TypeOK, Conn, KernelOp, Handlers
<1>4. PICK l \in Conn, i \in [Event -> Status], h \in Handlers,
            f \in [Event -> Fd \cup {INVALID_SOCKET}] :
         /\ l.fd = conn[c].fd /\ CloseAs(c, l, i)
         /\ handler' = [handler EXCEPT ![c] = h] /\ evtfd' = [evtfd EXCEPT ![c] = f]
  BY DEF Closes
<1>5. PICK k : k = Shut(l, time)
  OBVIOUS
<1>6. k \in Conn /\ k.fd = INVALID_SOCKET /\ k.time = time
  BY <1>3, <1>5, <1>4 DEF Shut, Conn
<1>7. /\ conn' = [conn EXCEPT ![c] = k] /\ open' = open \ {conn[c].fd}
      /\ kernel' = [kernel EXCEPT ![c] = <<>>]
      /\ internal' = [internal EXCEPT ![c] = CancelledInternal(c, i)]
      /\ inline' = <<>>
  BY <1>5, <1>4 DEF CloseAs
<1>8. port' \in Seq(Packet)
  <2>1. PICK packets \in Cancelled({c}) : port' = port \o packets
    BY <1>4 DEF CloseAs
  <2>2. packets \in Seq(Packet)
    BY <1>3, <2>1, CancelledPackets
  <2> QED
    BY <1>3, <2>1, <2>2, QueueEnds
<1>9. conn' \in [Slot -> Conn] /\ \A d \in Slot : conn'[d] = IF d = c THEN k ELSE conn[d]
  BY <1>3, <1>6, <1>7
<1>10. TypeOK'
  <2>1. CancelledInternal(c, i) \in [Event -> {"pending", "ok", "error"}]
    BY <1>4 DEF CancelledInternal, Status
  <2>2. internal' \in [Slot -> [Event -> {"pending", "ok", "error"}]]
    BY <1>3, <1>7, <2>1
  <2>3. kernel' \in [Slot -> Seq({"accept", "read", "write"})]
    <3>1. <<>> \in Seq(KernelOp)
      BY EmptySeq
    <3> QED
      BY <1>3, <1>7, <3>1 DEF KernelOp
  <2>4. conn' \in [Slot -> [fd : Fd \cup {INVALID_SOCKET}, connected : {0, 1},
                            keep_alive : {0, 1}, time : {0} \cup Start .. MaxTime]]
    BY <1>9 DEF Conn
  <2>5. inline' \in Seq(Packet) /\ Len(inline') <= 1
    BY <1>7, EmptySeq
  <2>6. open' \in SUBSET Fd
    BY <1>3, <1>7
  <2>7. /\ Proto' \in Protos
        /\ clock' \in Start .. MaxTime /\ time' \in {0} \cup Start .. MaxTime
        /\ ior' \in AIN_TIMEOUT .. IO_QUERY_CNT
        /\ pc' \in {"wait", "batch", "sweep", "drain", "ended"}
    BY <1>1, <1>2 DEF TypeOK
  <2>8. /\ handler' \in [Slot -> {"ain_socket_onaccept", "ain_conn_onread"}]
        /\ evtfd' \in [Slot -> [Event -> Fd \cup {INVALID_SOCKET}]]
    BY <1>3, <1>4 DEF Handlers
  <2> QED
    BY <1>2, <1>8, <2>2, <2>3, <2>4, <2>5, <2>6, <2>7, <2>8 DEF TypeOK
<1>11. LoopInv'
  BY <1>2, <1>6, <1>9, <1>10 DEF LoopInv
<1>12. SocketsOwned'
  <2>1. open' = {conn'[d].fd : d \in Slot} \ {INVALID_SOCKET}
    BY <1>3, <1>6, <1>7, <1>9 DEF SocketsOwned, Conn
  <2>2. \A d, e \in Slot : conn'[d].fd = conn'[e].fd /\ conn'[d].fd \in Fd => d = e
    BY <1>1, <1>6, <1>9 DEF SocketsOwned
  <2> QED
    BY <2>1, <2>2 DEF SocketsOwned
<1> QED
  BY <1>11, <1>12

(* A handler that submits an operation leaves the sockets alone. *)
LEMMA SubmitLoop ==
  ASSUME LoopInv, SocketsOwned, NEW c \in Slot, Handle(c),
         NEW op \in {"read", "write"}, NEW k \in Conn, NEW fd \in Fd \cup {INVALID_SOCKET},
         Submit(c, op, k, fd), GoesOnWith(c, op, k, fd)
  PROVE  LoopInv' /\ SocketsOwned'
<1>1. TypeOK
  BY DEF LoopInv
<1>2. /\ pc = "batch" /\ UNCHANGED <<clock, time, ior, pc, Proto>>
      /\ batch' \in Seq(Packet) /\ Len(batch') <= IO_QUERY_CNT
      /\ quit' \in {"RUN", "QUIT_REQ", "QUIT_CMD", "END"}
      /\ io' \in 0 .. MaxIo /\ twice' \in 0 .. MaxTwice
  BY <1>1, HandleLoop
<1>3. PICK e \in Event : e = EventOf(op)
  BY DEF EventOf, Event
<1>4. /\ conn \in [Slot -> Conn] /\ kernel \in [Slot -> Seq(KernelOp)]
      /\ handler \in [Slot -> {"ain_socket_onaccept", "ain_conn_onread"}]
      /\ internal \in [Slot -> [Event -> {"pending", "ok", "error"}]]
      /\ evtfd \in [Slot -> [Event -> Fd \cup {INVALID_SOCKET}]]
      /\ port \in Seq(Packet) /\ inline \in Seq(Packet) /\ Len(inline) <= 1
  BY <1>1 DEF TypeOK, Conn, KernelOp
<1>5. /\ conn' = [conn EXCEPT ![c] = k] /\ open' = open
      /\ handler' \in [Slot -> {"ain_socket_onaccept", "ain_conn_onread"}]
      /\ evtfd' = [evtfd EXCEPT ![c][e] = fd]
  BY <1>3, <1>4 DEF Submit
<1>6. conn' \in [Slot -> Conn] /\ \A d \in Slot : conn'[d] = IF d = c THEN k ELSE conn[d]
  BY <1>4, <1>5
<1>7. evtfd' \in [Slot -> [Event -> Fd \cup {INVALID_SOCKET}]]
  BY <1>4, <1>5
<1>8. /\ internal' \in [Slot -> [Event -> {"pending", "ok", "error"}]]
      /\ kernel' \in [Slot -> Seq(KernelOp)]
      /\ port' \in Seq(Packet) /\ inline' \in Seq(Packet) /\ Len(inline') <= 1
  <2>1. CASE /\ internal' = [internal EXCEPT ![c][e] = "pending"]
             /\ kernel' = [kernel EXCEPT ![c] = Append(@, op)]
             /\ inline' = <<>> /\ port' = port
    <3>1. internal' \in [Slot -> [Event -> {"pending", "ok", "error"}]]
      BY <1>4, <2>1
    <3>2. Append(kernel[c], op) \in Seq(KernelOp)
      BY <1>4, AppendProperties DEF KernelOp
    <3>3. kernel' \in [Slot -> Seq(KernelOp)]
      BY <1>4, <2>1, <3>2
    <3>4. inline' \in Seq(Packet) /\ Len(inline') <= 1
      BY <2>1, EmptySeq
    <3> QED
      BY <1>4, <2>1, <3>1, <3>3, <3>4
  <2>2. CASE /\ internal' = [internal EXCEPT ![c][e] = "ok"] /\ kernel' = kernel
             /\ \E bytes \in Bytes : /\ inline' = <<PacketOf(c, op, bytes)>>
                                     /\ port' = Append(port, PacketOf(c, op, bytes))
    <3>1. internal' \in [Slot -> [Event -> {"pending", "ok", "error"}]]
      BY <1>4, <2>2
    <3>2. PICK bytes \in Bytes : /\ inline' = <<PacketOf(c, op, bytes)>>
                                 /\ port' = Append(port, PacketOf(c, op, bytes))
      BY <2>2
    <3>3. PICK p : p = PacketOf(c, op, bytes)
      OBVIOUS
    <3>4. p \in Packet
      BY <1>3, <3>3 DEF PacketOf, Packet
    <3>5. port' \in Seq(Packet) /\ inline' \in Seq(Packet) /\ Len(inline') = 1
      BY <1>4, <3>2, <3>3, <3>4, AppendProperties
    <3> QED
      BY <1>4, <2>2, <3>1, <3>5
  <2>3. /\ {"some"} \subseteq Bytes
        /\ \A S : (IF op = "read" THEN S ELSE {"some"}) \in {S, {"some"}}
    BY DEF Bytes
  <2> QED
    BY <1>3, <2>1, <2>2, <2>3 DEF Submit
<1>9. TypeOK'
  <2>1. conn' \in [Slot -> [fd : Fd \cup {INVALID_SOCKET}, connected : {0, 1},
                            keep_alive : {0, 1}, time : {0} \cup Start .. MaxTime]]
    BY <1>6 DEF Conn
  <2>2. /\ Proto' \in Protos /\ open' \in SUBSET Fd
        /\ clock' \in Start .. MaxTime /\ time' \in {0} \cup Start .. MaxTime
        /\ ior' \in AIN_TIMEOUT .. IO_QUERY_CNT
        /\ pc' \in {"wait", "batch", "sweep", "drain", "ended"}
    BY <1>1, <1>2, <1>5 DEF TypeOK
  <2> QED
    BY <1>2, <1>5, <1>7, <1>8, <2>1, <2>2 DEF TypeOK, KernelOp
<1>10. k.fd = conn[c].fd /\ k.time \in {conn[c].time, time}
  BY DEF GoesOnWith
<1>11. LoopInv'
  <2>1. ASSUME NEW d \in Slot, conn'[d].fd = INVALID_SOCKET PROVE conn'[d].time = time'
    BY <1>2, <1>6, <1>10, <2>1 DEF LoopInv
  <2>2. pc' = "batch" /\ ior' # AIN_TIMEOUT /\ time' <= clock'
    BY <1>2 DEF LoopInv
  <2> QED
    BY <1>9, <2>1, <2>2 DEF LoopInv
<1>12. SocketsOwned'
  <2>1. \A d \in Slot : conn'[d].fd = conn[d].fd
    BY <1>6, <1>10
  <2>2. {conn'[d].fd : d \in Slot} = {conn[d].fd : d \in Slot}
    BY <2>1
  <2> QED
    BY <1>5, <2>1, <2>2 DEF SocketsOwned
<1> QED
  BY <1>11, <1>12

(* What the system and the clients do. *)
KernelStep(c) == ClientConnects(c) \/ ClientSends(c) \/ ClientLeaves(c) \/ WriteDone(c)

(* All of it completes an operation of the slot. *)
LEMMA KernelCases ==
  ASSUME TypeOK, NEW c \in Slot, KernelStep(c)
  PROVE  /\ \E op \in KernelOp, bytes \in Bytes, status \in {"ok", "error"} :
              Complete(c, op, bytes, status)
         /\ io' \in 0 .. MaxIo /\ twice' = twice /\ Proto' = Proto
<1>1. \E op \in KernelOp, bytes \in Bytes, status \in {"ok", "error"} :
        Complete(c, op, bytes, status)
  BY DEF KernelStep, ClientConnects, ClientSends, ClientLeaves, WriteDone, KernelOp, Bytes
<1>2. UNCHANGED outside \/ Happens
  BY DEF KernelStep, ClientConnects, ClientSends, ClientLeaves, WriteDone
<1>3. io \in 0 .. MaxIo /\ MaxIo \in Nat
  BY IocpAssumption DEF TypeOK
<1> QED
  BY <1>1, <1>2, <1>3 DEF outside, Happens

(* A completion changes neither the slots nor the loop. *)
LEMMA KernelLoop ==
  ASSUME LoopInv, SocketsOwned, NEW c \in Slot, KernelStep(c)
  PROVE  LoopInv' /\ SocketsOwned'
<1>1. TypeOK
  BY DEF LoopInv
<1>2. PICK op \in KernelOp, bytes \in Bytes, status \in {"ok", "error"} :
        Complete(c, op, bytes, status)
  BY <1>1, KernelCases
<1>3. io' \in 0 .. MaxIo /\ twice' = twice /\ Proto' = Proto
  BY <1>1, KernelCases
<1>4. UNCHANGED <<conn, handler, evtfd, open, batch, inline, clock, time, ior, pc, quit>>
  BY <1>2 DEF Complete
<1>5. kernel \in [Slot -> Seq(KernelOp)] /\ port \in Seq(Packet)
      /\ internal \in [Slot -> [Event -> {"pending", "ok", "error"}]]
  BY <1>1 DEF TypeOK, KernelOp
<1>6. kernel' \in [Slot -> Seq(KernelOp)]
  <2>1. PICK n \in DOMAIN kernel[c] : kernel' = [kernel EXCEPT ![c] = RemoveAt(@, n)]
    BY <1>2 DEF Complete
  <2>2. RemoveAt(kernel[c], n) \in Seq(KernelOp)
    BY <1>5, RemoveOne
  <2> QED
    BY <1>5, <2>1, <2>2
<1>7. internal' \in [Slot -> [Event -> {"pending", "ok", "error"}]]
  <2>1. PICK e \in Event : internal' = [internal EXCEPT ![c][e] = status]
    BY <1>2 DEF Complete, EventOf, Event
  <2> QED
    BY <1>5, <2>1
<1>8. port' \in Seq(Packet)
  <2>1. PICK p : p = PacketOf(c, op, bytes)
    OBVIOUS
  <2>2. p \in Packet
    BY <2>1 DEF PacketOf, Packet, EventOf, Event
  <2>3. port' = Append(port, p)
    BY <1>2, <2>1 DEF Complete
  <2> QED
    BY <1>5, <2>2, <2>3, AppendProperties
<1>9. TypeOK'
  BY <1>1, <1>3, <1>4, <1>6, <1>7, <1>8 DEF TypeOK, KernelOp
<1>10. LoopInv'
  BY <1>4, <1>9 DEF LoopInv
<1> QED
  BY <1>4, <1>10 DEF SocketsOwned

(* Taking a batch. *)
LEMMA TakeLoop ==
  ASSUME LoopInv, TakeBatch
  PROVE  /\ TypeOK' /\ pc' = "batch" /\ ior' # AIN_TIMEOUT
         /\ batch' \in Seq(Packet) /\ port' \in Seq(Packet) /\ batch' \o port' = port
<1>1. TypeOK /\ port \in Seq(Packet) /\ port # <<>> /\ IO_QUERY_CNT \in Nat \ {0}
  BY IocpAssumption DEF LoopInv, TypeOK, TakeBatch
<1>2. PICK l \in Nat : l = Len(port) /\ l # 0
  BY <1>1, EmptySeq
<1>3. PICK t : t = Taken
  OBVIOUS
<1>4. t \in 1 .. l /\ t <= IO_QUERY_CNT
  BY <1>1, <1>2, <1>3 DEF Taken
<1>5. batch' \in Seq(Packet) /\ Len(batch') = t
  <2>1. /\ 1 \in Int /\ t \in Int /\ \A i \in 1 .. t : port[i] \in Packet
        /\ (IF 1 <= t THEN t - 1 + 1 ELSE 0) = t
    BY <1>1, <1>2, <1>4
  <2> QED
    BY <1>3, <2>1, SubSeqProperties DEF TakeBatch
<1>6. port' \in Seq(Packet)
  <2>1. t + 1 \in Int /\ l \in Int /\ \A i \in t + 1 .. l : port[i] \in Packet
    BY <1>1, <1>2, <1>4
  <2> QED
    BY <1>2, <1>3, <2>1, SubSeqProperties DEF TakeBatch
<1>7. batch' \o port' = port
  <2>1. 1 \in 1 .. Len(port) + 1 /\ t \in 1 - 1 .. Len(port) /\ Len(port) \in t .. Len(port)
    BY <1>2, <1>4
  <2>2. SubSeq(port, 1, t) \o SubSeq(port, t + 1, Len(port)) = SubSeq(port, 1, Len(port))
    BY <1>1, <2>1, ConcatAdjacentSubSeq
  <2> QED
    BY <1>1, <1>3, <2>2, SubSeqFull DEF TakeBatch
<1>8. /\ pc' = "batch" /\ ior' = t
      /\ UNCHANGED <<slots, inline, clock, time, quit, outside>>
  BY <1>3 DEF TakeBatch
<1>9. ior' \in AIN_TIMEOUT .. IO_QUERY_CNT /\ ior' # AIN_TIMEOUT
  BY <1>1, <1>4, <1>8 DEF AIN_TIMEOUT
<1>10. TypeOK'
  BY <1>1, <1>4, <1>5, <1>6, <1>8, <1>9 DEF TypeOK, slots, outside
<1> QED
  BY <1>5, <1>6, <1>7, <1>8, <1>9, <1>10

(* The steps of the loop between the handlers, and those of the clock and of the
   main thread. *)
LEMMA OtherLoop ==
  ASSUME LoopInv, SocketsOwned,
         TakeBatch \/ TimedOut \/ BatchDone \/ Tick \/ MainRequests
  PROVE  LoopInv' /\ SocketsOwned'
<1>1. TypeOK
  BY DEF LoopInv
<1>2. UNCHANGED slots
  BY DEF TakeBatch, TimedOut, BatchDone, Tick, MainRequests
<1>3. SocketsOwned'
  BY <1>2 DEF SocketsOwned, slots
<1>4. CASE TakeBatch
  <2>1. TypeOK' /\ pc' = "batch" /\ ior' # AIN_TIMEOUT
    BY <1>4, TakeLoop
  <2>2. UNCHANGED <<conn, time, clock>>
    BY <1>2, <1>4 DEF TakeBatch, slots
  <2> QED
    BY <1>3, <2>1, <2>2 DEF LoopInv
<1>5. CASE TimedOut
  <2>1. TypeOK'
    BY <1>1, <1>5, IocpAssumption DEF TimedOut, TypeOK, slots, outside, AIN_TIMEOUT
  <2> QED
    BY <1>3, <1>5, <2>1 DEF TimedOut, LoopInv, slots, outside
<1>6. CASE BatchDone
  <2>1. TypeOK'
    BY <1>1, <1>6 DEF BatchDone, TypeOK, slots, outside
  <2> QED
    BY <1>3, <1>6, <2>1 DEF BatchDone, LoopInv, slots, outside
<1>7. CASE Tick
  <2>1. clock' = clock + 1 /\ clock' \in Start .. MaxTime /\ time <= clock'
    <3>1. /\ clock \in Start .. MaxTime /\ clock < MaxTime /\ clock' = clock + 1
          /\ time \in {0} \cup Start .. MaxTime /\ time <= clock
      BY <1>1, <1>7 DEF Tick, TypeOK, LoopInv
    <3> QED
      BY <3>1, IocpAssumption
  <2>2. TypeOK'
    BY <1>1, <1>7, <2>1 DEF Tick, TypeOK, slots, outside
  <2> QED
    BY <1>3, <1>7, <2>1, <2>2 DEF Tick, LoopInv, slots, outside
<1>8. CASE MainRequests
  <2>1. TypeOK'
    BY <1>1, <1>8 DEF MainRequests, TypeOK, slots, outside
  <2> QED
    BY <1>3, <1>8, <2>1 DEF MainRequests, LoopInv, slots, outside
<1> QED
  BY <1>4, <1>5, <1>6, <1>7, <1>8

(* What a sweep does: the slots "again" accept on new sockets fd, those of "idle"
   are closed. *)
Swept(again, idle, fd) ==
  /\ fd \in [again -> Fd \ open] /\ \A c, d \in again : fd[c] = fd[d] => c = d
  /\ conn' = [c \in Slot |->
        IF c \in again THEN [conn[c] EXCEPT !.fd = fd[c], !.connected = 0]
        ELSE IF c \in idle THEN Shut(conn[c], time') ELSE conn[c]]
  /\ handler' = [c \in Slot |->
        IF c \in again THEN "ain_socket_onaccept" ELSE handler[c]]
  /\ evtfd' = [c \in Slot |->
        IF c \in again THEN [evtfd[c] EXCEPT !.read_evt = fd[c]] ELSE evtfd[c]]
  /\ internal' = [c \in Slot |->
        IF c \in again THEN [internal[c] EXCEPT !.read_evt = "pending"]
        ELSE IF c \in idle THEN CancelledInternal(c, internal[c]) ELSE internal[c]]
  /\ kernel' = [c \in Slot |->
        IF c \in again THEN Append(kernel[c], "accept")
        ELSE IF c \in idle THEN <<>> ELSE kernel[c]]
  /\ \E packets \in Cancelled(idle) : port' = port \o packets
  /\ open' = (open \ {conn[c].fd : c \in idle}) \cup {fd[c] : c \in again}

(* A sweep opens sockets for closed slots only, and only when the worker had
   nothing to do; after it, each slot still closed bears the worker's time. *)
LEMMA SweepCases ==
  ASSUME LoopInv, Sweep
  PROVE  \E again, idle \in SUBSET Slot : \E fd \in [again -> Fd \ open] :
           /\ Swept(again, idle, fd)
           /\ \A c \in again : conn[c].fd = INVALID_SOCKET
           /\ \A c \in idle : conn[c].fd # INVALID_SOCKET /\ conn[c].connected = 1
           /\ ior # AIN_TIMEOUT => again = {}
           /\ \A c \in Slot \ again : conn[c].fd = INVALID_SOCKET => conn[c].time = time'
<1> DEFINE again == {c \in Slot : ~(ior = IO_QUERY_CNT) /\ Reusable(conn[c], time')}
           idle == {c \in Slot : ~(ior = IO_QUERY_CNT) /\ Idle(conn[c], time')}
<1>1. PICK fd \in [again -> Fd \ open] : Swept(again, idle, fd)
  BY DEF Sweep, Swept
<1>2. /\ again = {c \in Slot : ~(ior = IO_QUERY_CNT) /\ Reusable(conn[c], time')}
      /\ idle = {c \in Slot : ~(ior = IO_QUERY_CNT) /\ Idle(conn[c], time')}
  OBVIOUS
<1> HIDE DEF again, idle
<1>3. /\ \A c \in Slot : conn[c].fd = INVALID_SOCKET => conn[c].time = time
      /\ ior = AIN_TIMEOUT => ior # IO_QUERY_CNT
  BY IocpAssumption DEF LoopInv, AIN_TIMEOUT
<1>4. /\ time' = (IF ior = AIN_TIMEOUT THEN clock ELSE time)
      /\ time \in Int /\ clock \in Int /\ time <= clock /\ time' \in Int
  <2>1. time' = (IF ior = AIN_TIMEOUT THEN clock ELSE time)
    BY DEF Sweep, WorkerTime
  <2>2. /\ time \in {0} \cup Start .. MaxTime /\ clock \in Start .. MaxTime
        /\ time <= clock
    BY DEF LoopInv, TypeOK
  <2>3. time \in Int /\ clock \in Int
    BY <2>2, IocpAssumption
  <2> QED
    BY <2>1, <2>2, <2>3
<1>5. \A c \in again : conn[c].fd = INVALID_SOCKET
  BY <1>2 DEF Reusable
<1>6. \A c \in idle : conn[c].fd # INVALID_SOCKET /\ conn[c].connected = 1
  BY <1>2 DEF Idle
<1>7. ASSUME ior # AIN_TIMEOUT PROVE again = {}
  <2>1. ASSUME NEW c \in again PROVE FALSE
    BY <1>2, <1>3, <1>4, <1>7, <2>1 DEF Reusable
  <2> QED
    BY <2>1
<1>8. ASSUME NEW c \in Slot \ again, conn[c].fd = INVALID_SOCKET PROVE conn[c].time = time'
  BY <1>2, <1>3, <1>4, <1>8 DEF Reusable
<1>9. again \in SUBSET Slot /\ idle \in SUBSET Slot
  BY <1>2
<1> QED
  BY <1>1, <1>5, <1>6, <1>7, <1>8, <1>9

(* A sweep gives every slot a socket of its own or none. *)
LEMMA SweepLoop ==
  ASSUME LoopInv, SocketsOwned, Sweep
  PROVE  LoopInv' /\ SocketsOwned'
<1>1. TypeOK /\ INVALID_SOCKET \notin Fd
  BY IocpAssumption DEF LoopInv, INVALID_SOCKET
<1>2. PICK again \in SUBSET Slot, idle \in SUBSET Slot : \E fd \in [again -> Fd \ open] :
        /\ Swept(again, idle, fd)
        /\ \A c \in again : conn[c].fd = INVALID_SOCKET
        /\ \A c \in idle : conn[c].fd # INVALID_SOCKET
        /\ \A c \in Slot \ again : conn[c].fd = INVALID_SOCKET => conn[c].time = time'
  BY SweepCases
<1>3. PICK fd \in [again -> Fd \ open] :
        /\ Swept(again, idle, fd)
        /\ \A c \in again : conn[c].fd = INVALID_SOCKET
        /\ \A c \in idle : conn[c].fd # INVALID_SOCKET
        /\ \A c \in Slot \ again : conn[c].fd = INVALID_SOCKET => conn[c].time = time'
  BY <1>2
<1>4. /\ conn \in [Slot -> Conn] /\ kernel \in [Slot -> Seq(KernelOp)]
      /\ internal \in [Slot -> [Event -> {"pending", "ok", "error"}]]
      /\ evtfd \in [Slot -> [Event -> Fd \cup {INVALID_SOCKET}]]
      /\ port \in Seq(Packet) /\ open \in SUBSET Fd
  BY <1>1 DEF TypeOK, Conn, KernelOp
<1>5. /\ time' \in {0} \cup Start .. MaxTime /\ time' <= clock'
      /\ pc' \in {"wait", "drain"} /\ ior' = 0 /\ batch = <<>> /\ inline = <<>>
      /\ UNCHANGED <<Proto, io, twice, batch, inline, clock, quit>>
  <2>1. /\ time' = (IF ior = AIN_TIMEOUT THEN clock ELSE time)
        /\ time \in {0} \cup Start .. MaxTime /\ clock \in Start .. MaxTime /\ time <= clock
    BY DEF Sweep, WorkerTime, LoopInv, TypeOK
  <2>2. /\ UNCHANGED <<Proto, io, twice, batch, inline, clock, quit>>
        /\ pc = "sweep" /\ pc' \in {"wait", "drain"} /\ ior' = 0
    BY DEF Sweep, outside
  <2>3. time' \in {0} \cup Start .. MaxTime /\ time' <= clock'
    BY <2>1, <2>2, IocpAssumption
  <2> QED
    BY <2>2, <2>3 DEF LoopInv
<1>6. /\ \A c \in again : conn'[c] = [conn[c] EXCEPT !.fd = fd[c], !.connected = 0]
      /\ \A c \in idle : conn'[c] = Shut(conn[c], time')
      /\ \A c \in Slot \ (again \cup idle) : conn'[c] = conn[c]
      /\ conn' = [c \in Slot |-> conn'[c]]
  BY <1>3 DEF Swept
<1>7. /\ \A c \in again : conn'[c] \in Conn /\ conn'[c].fd = fd[c] /\ fd[c] \in Fd \ open
      /\ \A c \in idle : conn'[c] \in Conn /\ conn'[c].fd = INVALID_SOCKET /\ conn'[c].time = time'
      /\ \A c \in Slot \ (again \cup idle) : conn'[c] = conn[c] /\ conn[c] \in Conn
  <2>1. ASSUME NEW c \in again
        PROVE  conn'[c] \in Conn /\ conn'[c].fd = fd[c] /\ fd[c] \in Fd \ open
    <3>1. PICK k \in Conn : k = conn[c]
      BY <1>4
    <3>2. conn'[c] = [k EXCEPT !.fd = fd[c], !.connected = 0] /\ fd[c] \in Fd \ open
      BY <1>6, <3>1
    <3> QED
      BY <3>1, <3>2 DEF Conn
  <2>2. ASSUME NEW c \in idle
        PROVE  conn'[c] \in Conn /\ conn'[c].fd = INVALID_SOCKET /\ conn'[c].time = time'
    <3>1. PICK k \in Conn : k = conn[c]
      BY <1>4
    <3>2. conn'[c] = Shut(k, time')
      BY <1>6, <3>1
    <3> QED
      BY <1>5, <3>1, <3>2 DEF Conn, Shut
  <2> QED
    BY <1>4, <1>6, <2>1, <2>2
<1>8. conn' \in [Slot -> Conn]
  <2>1. \A c \in Slot : conn'[c] \in Conn
    BY <1>7
  <2> QED
    BY <1>6, <2>1
<1>9. handler' \in [Slot -> {"ain_socket_onaccept", "ain_conn_onread"}]
  BY <1>1, <1>3 DEF Swept, TypeOK
<1>10. evtfd' \in [Slot -> [Event -> Fd \cup {INVALID_SOCKET}]]
  <2>1. ASSUME NEW c \in Slot
        PROVE  evtfd'[c] \in [Event -> Fd \cup {INVALID_SOCKET}]
    <3>1. evtfd'[c] = IF c \in again THEN [evtfd[c] EXCEPT !.read_evt = fd[c]] ELSE evtfd[c]
      BY <1>3 DEF Swept
    <3> QED
      BY <1>4, <3>1
  <2> QED
    BY <1>3, <2>1 DEF Swept
<1>11. internal' \in [Slot -> [Event -> {"pending", "ok", "error"}]]
  <2>1. ASSUME NEW c \in Slot
        PROVE  internal'[c] \in [Event -> {"pending", "ok", "error"}]
    <3>1. CancelledInternal(c, internal[c]) \in [Event -> {"pending", "ok", "error"}]
      BY <1>4 DEF CancelledInternal
    <3>2. internal'[c] = IF c \in again THEN [internal[c] EXCEPT !.read_evt = "pending"]
                         ELSE IF c \in idle THEN CancelledInternal(c, internal[c]) ELSE internal[c]
      BY <1>3 DEF Swept
    <3>3. PICK f \in [Event -> {"pending", "ok", "error"}] : f = internal[c]
      BY <1>4
    <3>4. [f EXCEPT !.read_evt = "pending"] \in [Event -> {"pending", "ok", "error"}]
      OBVIOUS
    <3> QED
      BY <3>1, <3>2, <3>3, <3>4
  <2> QED
    BY <1>3, <2>1 DEF Swept
<1>12. kernel' \in [Slot -> Seq(KernelOp)]
  <2>1. ASSUME NEW c \in Slot
        PROVE  kernel'[c] \in Seq(KernelOp)
    <3>1. Append(kernel[c], "accept") \in Seq(KernelOp) /\ <<>> \in Seq(KernelOp)
      BY <1>4, AppendProperties, EmptySeq DEF KernelOp
    <3>2. kernel'[c] = IF c \in again THEN Append(kernel[c], "accept")
                       ELSE IF c \in idle THEN <<>> ELSE kernel[c]
      BY <1>3 DEF Swept
    <3> QED
      BY <1>4, <3>1, <3>2
  <2> QED
    BY <1>3, <2>1 DEF Swept
<1>13. port' \in Seq(Packet)
  <2>1. PICK packets \in Cancelled(idle) : port' = port \o packets
    BY <1>3 DEF Swept
  <2>2. packets \in Seq(Packet)
    BY <1>4, <2>1, CancelledPackets
  <2> QED
    BY <1>4, <2>1, <2>2, QueueEnds
<1>14. open' = (open \ {conn[c].fd : c \in idle}) \cup {fd[c] : c \in again}
  BY <1>3 DEF Swept
<1>15. TypeOK'
  <2>1. conn' \in [Slot -> [fd : Fd \cup {INVALID_SOCKET}, connected : {0, 1},
                            keep_alive : {0, 1}, time : {0} \cup Start .. MaxTime]]
    BY <1>8 DEF Conn
  <2>2. open' \in SUBSET Fd
    BY <1>4, <1>7, <1>14
  <2>3. ior' \in AIN_TIMEOUT .. IO_QUERY_CNT
    BY <1>5, IocpAssumption DEF AIN_TIMEOUT
  <2> QED
    BY <1>1, <1>5, <1>9, <1>10, <1>11, <1>12, <1>13, <2>1, <2>2, <2>3 DEF TypeOK, KernelOp
<1>16. LoopInv'
  <2>1. ASSUME NEW c \in Slot, conn'[c].fd = INVALID_SOCKET PROVE conn'[c].time = time'
    BY <1>1, <1>3, <1>7, <2>1
  <2> QED
    BY <1>5, <1>15, <2>1 DEF LoopInv
<1>17. SocketsOwned'
  <2>1. ASSUME NEW c \in Slot, NEW d \in Slot, conn'[c].fd = conn'[d].fd, conn'[c].fd \in Fd
        PROVE  c = d
    <3>1. \A e \in Slot \ (again \cup idle) : conn'[e].fd \in open \cup {INVALID_SOCKET}
      BY <1>7 DEF SocketsOwned
    <3>2. \A e, f \in again : conn'[e].fd = conn'[f].fd => e = f
      <4>1. \A e, f \in again : fd[e] = fd[f] => e = f
        BY <1>3 DEF Swept
      <4> QED
        BY <1>7, <4>1
    <3>3. c \notin idle /\ d \notin idle
      BY <1>1, <1>7, <2>1
    <3>4. CASE c \in again /\ d \in again
      BY <2>1, <3>2, <3>4
    <3>5. CASE c \notin again /\ d \notin again
      BY <1>7, <2>1, <3>3, <3>5 DEF SocketsOwned
    <3> QED
      BY <1>1, <1>7, <2>1, <3>1, <3>3, <3>4, <3>5
  <2>2. ASSUME NEW x \in open'
        PROVE  x # INVALID_SOCKET /\ \E c \in Slot : conn'[c].fd = x
    <3>1. CASE x \in open
      <4>1. PICK c \in Slot : conn[c].fd = x /\ x # INVALID_SOCKET
        BY <3>1 DEF SocketsOwned
      <4>2. c \notin idle
        BY <1>7, <1>14, <2>2, <3>1, <4>1
      <4>3. c \notin again
        BY <1>3, <4>1
      <4> QED
        BY <1>7, <4>1, <4>2, <4>3
    <3>2. CASE x \notin open
      BY <1>1, <1>7, <1>14, <2>2, <3>2
    <3> QED
      BY <3>1, <3>2
  <2>3. ASSUME NEW c \in Slot, conn'[c].fd # INVALID_SOCKET PROVE conn'[c].fd \in open'
    <3>1. CASE c \in again
      BY <1>7, <1>14, <3>1
    <3>2. CASE c \notin again
      <4>1. c \notin idle /\ conn'[c].fd = conn[c].fd
        BY <1>7, <2>3, <3>2
      <4>2. conn[c].fd \in open /\ conn[c].fd \in Fd
        BY <1>4, <2>3, <4>1 DEF SocketsOwned
      <4>3. \A d \in idle : conn[d].fd # conn[c].fd
        BY <4>1, <4>2 DEF SocketsOwned
      <4> QED
        BY <1>14, <4>1, <4>2, <4>3
    <3> QED
      BY <3>1, <3>2
  <2> QED
    BY <2>1, <2>2, <2>3 DEF SocketsOwned
<1> QED
  BY <1>16, <1>17

(* At the end no socket is left. *)
LEMMA WriteEndLoop ==
  ASSUME LoopInv, SocketsOwned, WriteEnd
  PROVE  LoopInv' /\ SocketsOwned'
<1>1. /\ conn \in [Slot -> Conn] /\ time \in {0} \cup Start .. MaxTime
      /\ open = {conn[c].fd : c \in Slot} \ {INVALID_SOCKET}
      /\ INVALID_SOCKET \notin Fd
  BY IocpAssumption DEF LoopInv, TypeOK, Conn, SocketsOwned, INVALID_SOCKET
<1>2. /\ conn' = [c \in Slot |-> Shut(conn[c], time)]
      /\ open' = open \ {conn[c].fd : c \in Slot}
      /\ kernel' = [c \in Slot |-> <<>>] /\ port' = <<>>
      /\ pc' = "ended" /\ quit' = "END" /\ pc = "drain"
      /\ UNCHANGED <<handler, internal, evtfd, batch, inline, clock, time, ior, outside>>
  BY DEF WriteEnd
<1>3. open' = {}
  BY <1>1, <1>2
<1>4. ASSUME NEW c \in Slot
      PROVE  conn'[c] \in Conn /\ conn'[c].fd = INVALID_SOCKET /\ conn'[c].time = time'
  <2>1. PICK k \in Conn : k = conn[c]
    BY <1>1
  <2>2. conn'[c] = Shut(k, time)
    BY <1>2, <2>1
  <2> QED
    BY <1>1, <1>2, <2>1, <2>2 DEF Shut, Conn
<1>5. conn' \in [Slot -> Conn]
  BY <1>2, <1>4
<1>6. TypeOK'
  <2>1. /\ kernel' \in [Slot -> Seq({"accept", "read", "write"})] /\ port' \in Seq(Packet)
    BY <1>2, EmptySeq
  <2>2. conn' \in [Slot -> [fd : Fd \cup {INVALID_SOCKET}, connected : {0, 1},
                            keep_alive : {0, 1}, time : {0} \cup Start .. MaxTime]]
    BY <1>5 DEF Conn
  <2> QED
    BY <1>2, <1>3, <2>1, <2>2 DEF LoopInv, TypeOK, outside
<1>7. LoopInv'
  BY <1>2, <1>4, <1>6 DEF LoopInv
<1>8. SocketsOwned'
  BY <1>1, <1>3, <1>4 DEF SocketsOwned
<1> QED
  BY <1>7, <1>8

-----------------------------------------------------------------------------
(* As long as nothing completes at once: one operation per slot. *)

(* Every slot without operations in the system has none that closing completes. *)
LEMMA NothingCancelled ==
  ASSUME TypeOK, NEW S \in SUBSET Slot, \A c \in S : kernel[c] = <<>>,
         NEW p \in Cancelled(S)
  PROVE  p = <<>>
<1>1. kernel \in [Slot -> Seq(KernelOp)]
  BY DEF TypeOK, KernelOp
<1>2. p \in Seq(Packet) /\ \A n \in DOMAIN p : p[n].slot \in S /\ kernel[p[n].slot] # <<>>
  BY <1>1, CancelledPackets
<1>3. DOMAIN p = {}
  BY <1>2
<1> QED
  BY <1>2, <1>3

(* A handler runs for the first packet, which was its slot's only one. *)
LEMMA TakeQueue ==
  ASSUME TypeOK, QueueInv, NEW c \in Slot, NEW e \in Event, Take(c, e)
  PROVE  /\ batch' \o port \in Seq(Packet) /\ batch' \in Seq(Packet)
         /\ Distinct(batch' \o port)
         /\ \A d : Has(batch' \o port, d) <=> Has(Queued, d) /\ d # c
         /\ Has(Queued, c) /\ kernel[c] = <<>>
<1>1. batch \in Seq(Packet) /\ port \in Seq(Packet) /\ inline = <<>> /\ Distinct(Queued)
  BY DEF TypeOK, QueueInv
<1>2. batch # <<>> /\ batch' = Tail(batch) /\ Head(batch).slot = c
  BY <1>1 DEF Take, Now
<1>3. batch' \in Seq(Packet)
  BY <1>1, <1>2, HeadTailProperties
<1>4. /\ Queued \in Seq(Packet) /\ Queued # <<>>
      /\ Head(Queued) = Head(batch) /\ Tail(Queued) = Tail(batch) \o port
  BY <1>1, <1>2, QueueEnds DEF Queued
<1>5. /\ Tail(Queued) \in Seq(Packet) /\ Has(Queued, c) /\ Distinct(Tail(Queued))
      /\ \A d : Has(Tail(Queued), d) <=> Has(Queued, d) /\ d # c
  BY <1>1, <1>2, <1>4, TailHas
<1>6. kernel[c] = <<>>
  BY <1>5 DEF QueueInv
<1> QED
  BY <1>2, <1>3, <1>4, <1>5, <1>6

(* A handler that closes its slot leaves nothing under way for it. *)
LEMMA CloseQueue ==
  ASSUME LoopInv, QueueInv, SlotInv, NEW c \in Slot, Handle(c), Closes(c)
  PROVE  QueueInv' /\ SlotInv'
<1>1. TypeOK /\ pc = "batch" /\ pc' = pc
  BY HandleLoop DEF LoopInv
<1>2. PICK e \in Event : Take(c, e)
  BY <1>1, HandleCases
<1>3. /\ batch' \o port \in Seq(Packet) /\ batch' \in Seq(Packet)
      /\ Distinct(batch' \o port)
      /\ \A d : Has(batch' \o port, d) <=> Has(Queued, d) /\ d # c
      /\ kernel[c] = <<>>
  BY <1>1, <1>2, TakeQueue
<1>4. PICK k \in Conn, i \in [Event -> Status], h \in Handlers,
            f \in [Event -> Fd \cup {INVALID_SOCKET}] :
         /\ k.fd = conn[c].fd /\ CloseAs(c, k, i)
         /\ handler' = [handler EXCEPT ![c] = h] /\ evtfd' = [evtfd EXCEPT ![c] = f]
  BY DEF Closes
<1>5. port' = port
  <2>1. PICK packets \in Cancelled({c}) : port' = port \o packets
    BY <1>4 DEF CloseAs
  <2>2. packets = <<>>
    BY <1>1, <1>3, <2>1, NothingCancelled
  <2> QED
    BY <1>1, <2>1, <2>2, ConcatEmptySeq DEF TypeOK
<1>6. PICK q : q = batch' \o port
  OBVIOUS
<1>7. Queued' = q /\ Distinct(q) /\ \A d : Has(q, d) <=> Has(Queued, d) /\ d # c
  BY <1>3, <1>5, <1>6 DEF Queued
<1>8. /\ conn'[c].fd = INVALID_SOCKET /\ kernel'[c] = <<>> /\ inline' = <<>>
      /\ \A d \in Slot \ {c} :
           /\ conn'[d] = conn[d] /\ kernel'[d] = kernel[d]
           /\ handler'[d] = handler[d] /\ evtfd'[d] = evtfd[d]
      /\ open' \subseteq open
  <2>1. /\ conn \in [Slot -> Conn] /\ kernel \in [Slot -> Seq(KernelOp)]
        /\ handler \in [Slot -> Handlers]
        /\ evtfd \in [Slot -> [Event -> Fd \cup {INVALID_SOCKET}]]
    BY <1>1 DEF TypeOK, Conn, KernelOp, Handlers
  <2>2. /\ conn' = [conn EXCEPT ![c] = Shut(k, time)] /\ open' = open \ {k.fd}
        /\ kernel' = [kernel EXCEPT ![c] = <<>>] /\ inline' = <<>>
    BY <1>4 DEF CloseAs
  <2>3. Shut(k, time).fd = INVALID_SOCKET
    BY <1>4 DEF Shut, Conn
  <2>4. handler' = [handler EXCEPT ![c] = h] /\ evtfd' = [evtfd EXCEPT ![c] = f]
    BY <1>4
  <2> QED
    BY <2>1, <2>2, <2>3, <2>4
<1>9. QueueInv'
  <2>1. ASSUME NEW d \in Slot
        PROVE  /\ Len(kernel'[d]) <= 1
               /\ kernel'[d] # <<>> => ~Has(q, d) /\ conn'[d].fd # INVALID_SOCKET
               /\ kernel'[d] = <<"accept">> => handler'[d] = "ain_socket_onaccept"
    <3>1. CASE d = c
      <4>1. kernel'[d] = <<>>
        BY <1>8, <3>1
      <4>2. Len(<<>>) = 0 /\ <<>> # <<"accept">>
        OBVIOUS
      <4> QED
        BY <4>1, <4>2
    <3>2. CASE d # c
      BY <1>7, <1>8, <3>2 DEF QueueInv
    <3> QED
      BY <3>1, <3>2
  <2> QED
    BY <1>7, <1>8, <2>1 DEF QueueInv
<1>10. SlotInv'
  <2>1. ASSUME NEW d \in Slot
        PROVE  /\ conn'[d].fd # INVALID_SOCKET =>
                    /\ kernel'[d] # <<>> \/ Has(q, d)
                    /\ evtfd'[d].read_evt = conn'[d].fd
               /\ conn'[d].fd = INVALID_SOCKET /\ Has(q, d) =>
                    evtfd'[d].read_evt \notin open'
    <3>1. CASE d = c
      BY <1>7, <1>8, <3>1
    <3>2. CASE d # c
      BY <1>7, <1>8, <3>2 DEF SlotInv
    <3> QED
      BY <3>1, <3>2
  <2> QED
    BY <1>1, <1>7, <2>1 DEF SlotInv
<1> QED
  BY <1>9, <1>10

(* A handler that submits an operation does so on the slot's own socket: the
   descriptor in the event of a slot that was closed is closed too. *)
LEMMA SubmitQueue ==
  ASSUME LoopInv, SocketsOwned, QueueInv, SlotInv, NEW c \in Slot, Handle(c),
         NEW op \in {"read", "write"}, NEW k \in Conn, NEW fd \in Fd \cup {INVALID_SOCKET},
         Submit(c, op, k, fd), GoesOnWith(c, op, k, fd), twice' = twice
  PROVE  QueueInv' /\ SlotInv'
<1>1. TypeOK /\ pc = "batch" /\ pc' = pc /\ INVALID_SOCKET \notin Fd /\ open \subseteq Fd
  <2>1. TypeOK
    BY DEF LoopInv
  <2>2. pc = "batch" /\ pc' = pc
    BY <2>1, HandleLoop
  <2>3. INVALID_SOCKET \notin Fd
    BY IocpAssumption DEF INVALID_SOCKET
  <2>4. open \subseteq Fd
    BY <2>1 DEF TypeOK
  <2> QED
    BY <2>1, <2>2, <2>3, <2>4
<1>2. PICK e \in Event : Take(c, e)
  BY <1>1, HandleCases
<1>3. /\ Distinct(batch' \o port)
      /\ \A d : Has(batch' \o port, d) <=> Has(Queued, d) /\ d # c
      /\ Has(Queued, c) /\ kernel[c] = <<>>
  BY <1>1, <1>2, TakeQueue
<1>4. /\ kernel' = [kernel EXCEPT ![c] = Append(@, op)]
      /\ inline' = <<>> /\ port' = port
  BY <1>1, IocpAssumption DEF Submit, TypeOK
<1>5. /\ conn' = [conn EXCEPT ![c] = k] /\ open' = open /\ fd \in open
      /\ handler' = IF op = "read" THEN [handler EXCEPT ![c] = "ain_conn_onread"] ELSE handler
      /\ evtfd' = [evtfd EXCEPT ![c][EventOf(op)] = fd]
  BY DEF Submit
<1>6. k.fd = conn[c].fd /\ fd = (IF op = "read" THEN evtfd[c].read_evt ELSE conn[c].fd)
  BY DEF GoesOnWith
<1>7. conn[c].fd # INVALID_SOCKET
  BY <1>1, <1>3, <1>5, <1>6 DEF SlotInv
<1>8. evtfd[c].read_evt = conn[c].fd
  BY <1>7 DEF SlotInv
<1>9. /\ evtfd'[c].read_evt = conn[c].fd
      /\ \A d \in Slot \ {c} : evtfd'[d] = evtfd[d]
  <2>1. evtfd \in [Slot -> [Event -> Fd \cup {INVALID_SOCKET}]]
    BY <1>1 DEF TypeOK
  <2>2. CASE op = "read"
    BY <1>5, <1>6, <1>8, <2>1, <2>2 DEF EventOf, Event
  <2>3. CASE op = "write"
    BY <1>5, <1>8, <2>1, <2>3 DEF EventOf, Event
  <2> QED
    BY <2>2, <2>3
<1>10. PICK q : q = batch' \o port
  OBVIOUS
<1>11. Queued' = q /\ Distinct(q) /\ \A d : Has(q, d) <=> Has(Queued, d) /\ d # c
  BY <1>3, <1>4, <1>10 DEF Queued
<1>12. /\ conn'[c].fd = conn[c].fd /\ kernel'[c] = <<op>>
       /\ \A d \in Slot \ {c} :
            conn'[d] = conn[d] /\ kernel'[d] = kernel[d] /\ handler'[d] = handler[d]
  BY <1>1, <1>3, <1>4, <1>5, <1>6 DEF TypeOK
<1>13. Len(kernel'[c]) <= 1 /\ kernel'[c] # <<>> /\ kernel'[c] # <<"accept">>
  BY <1>12
<1>14. QueueInv'
  <2>1. ASSUME NEW d \in Slot
        PROVE  /\ Len(kernel'[d]) <= 1
               /\ kernel'[d] # <<>> => ~Has(q, d) /\ conn'[d].fd # INVALID_SOCKET
               /\ kernel'[d] = <<"accept">> => handler'[d] = "ain_socket_onaccept"
    <3>1. CASE d = c
      BY <1>7, <1>11, <1>12, <1>13, <3>1
    <3>2. CASE d # c
      BY <1>11, <1>12, <3>2 DEF QueueInv
    <3> QED
      BY <3>1, <3>2
  <2> QED
    BY <1>4, <1>11, <2>1 DEF QueueInv
<1>15. SlotInv'
  <2>1. ASSUME NEW d \in Slot
        PROVE  /\ conn'[d].fd # INVALID_SOCKET =>
                    /\ kernel'[d] # <<>> \/ Has(q, d)
                    /\ evtfd'[d].read_evt = conn'[d].fd
               /\ conn'[d].fd = INVALID_SOCKET /\ Has(q, d) =>
                    evtfd'[d].read_evt \notin open'
    <3>1. CASE d = c
      BY <1>7, <1>9, <1>12, <1>13, <3>1
    <3>2. CASE d # c
      BY <1>5, <1>9, <1>11, <1>12, <3>2 DEF SlotInv
    <3> QED
      BY <3>1, <3>2
  <2> QED
    BY <1>1, <1>11, <2>1 DEF SlotInv
<1> QED
  BY <1>14, <1>15

(* A completion moves its slot's operation from the system to the queue. *)
LEMMA KernelQueue ==
  ASSUME LoopInv, QueueInv, SlotInv, NEW c \in Slot, KernelStep(c)
  PROVE  QueueInv' /\ SlotInv'
<1>1. TypeOK
  BY DEF LoopInv
<1>2. PICK op \in KernelOp, bytes \in Bytes, status \in {"ok", "error"} :
        Complete(c, op, bytes, status)
  BY <1>1, KernelCases
<1>3. /\ kernel \in [Slot -> Seq(KernelOp)] /\ kernel[c] \in Seq(KernelOp)
      /\ port \in Seq(Packet) /\ batch \in Seq(Packet)
  BY <1>1 DEF TypeOK, KernelOp
<1>4. /\ kernel[c] # <<>> /\ kernel'[c] = <<>>
      /\ \A d \in Slot \ {c} : kernel'[d] = kernel[d]
  <2>1. PICK n \in DOMAIN kernel[c] : kernel' = [kernel EXCEPT ![c] = RemoveAt(@, n)]
    BY <1>2 DEF Complete
  <2>2. kernel[c] # <<>> /\ Len(kernel[c]) = 1
    <3>1. kernel[c] # <<>>
      BY <2>1, <1>3
    <3>2. PICK l : l = Len(kernel[c])
      OBVIOUS
    <3>3. l \in Nat \ {0} /\ l <= 1
      BY <1>3, <3>1, <3>2, EmptySeq DEF QueueInv
    <3>4. l = 1
      BY ONLY <3>3
    <3> QED
      BY <3>1, <3>2, <3>4
  <2>3. PICK r : r = RemoveAt(kernel[c], n)
    OBVIOUS
  <2>4. r \in Seq(KernelOp) /\ Len(r) = Len(kernel[c]) - 1
    BY <1>3, <2>3, RemoveOne
  <2>5. r = <<>>
    BY <2>2, <2>4, EmptySeq
  <2> QED
    BY <1>3, <2>1, <2>2, <2>3, <2>5
<1>5. /\ UNCHANGED <<conn, handler, evtfd, open, batch, inline, ior, pc>>
      /\ port' = Append(port, PacketOf(c, op, bytes))
  BY <1>2 DEF Complete
<1>6. PICK p : p = PacketOf(c, op, bytes)
  OBVIOUS
<1>7. p \in Packet /\ p.slot = c
  BY <1>6 DEF PacketOf, Packet, EventOf, Event
<1>8. PICK q : q = Append(Queued, p)
  OBVIOUS
<1>9. Queued' = q
  <2>1. batch \o Append(port, p) = Append(batch \o port, p)
    BY ONLY <1>3, <1>7, QueueGains
  <2> QED
    BY <1>5, <1>6, <1>8, <2>1 DEF Queued
<1>10. ~Has(Queued, c) /\ Distinct(Queued) /\ inline = <<>> /\ conn[c].fd # INVALID_SOCKET
  BY <1>4 DEF QueueInv
<1>11. Distinct(q) /\ \A d : Has(q, d) <=> Has(Queued, d) \/ d = c
  <2>1. Queued \in Seq(Packet)
    BY <1>3, QueueEnds DEF Queued
  <2> QED
    BY <1>7, <1>8, <1>10, <2>1, AppendHas
<1>12. QueueInv'
  <2>1. ASSUME NEW d \in Slot
        PROVE  /\ Len(kernel'[d]) <= 1
               /\ kernel'[d] # <<>> => ~Has(q, d) /\ conn'[d].fd # INVALID_SOCKET
               /\ kernel'[d] = <<"accept">> => handler'[d] = "ain_socket_onaccept"
    <3>1. CASE d = c
      BY <1>4, <3>1
    <3>2. CASE d # c
      BY <1>4, <1>5, <1>11, <3>2 DEF QueueInv
    <3> QED
      BY <3>1, <3>2
  <2> QED
    BY <1>5, <1>9, <1>10, <1>11, <2>1 DEF QueueInv
<1>13. SlotInv'
  <2>1. ASSUME NEW d \in Slot
        PROVE  /\ conn'[d].fd # INVALID_SOCKET =>
                    /\ kernel'[d] # <<>> \/ Has(q, d)
                    /\ evtfd'[d].read_evt = conn'[d].fd
               /\ conn'[d].fd = INVALID_SOCKET /\ Has(q, d) =>
                    /\ evtfd'[d].read_evt \notin open'
                    /\ ~(pc' = "sweep" /\ ior' = AIN_TIMEOUT)
    <3>1. CASE d = c
      BY <1>5, <1>10, <1>11, <3>1 DEF SlotInv
    <3>2. CASE d # c
      BY <1>4, <1>5, <1>11, <3>2 DEF SlotInv
    <3> QED
      BY <3>1, <3>2
  <2> QED
    BY <1>9, <2>1 DEF SlotInv
<1> QED
  BY <1>12, <1>13

(* Steps that handle nothing leave the queue as it is. *)
LEMMA SameQueue ==
  ASSUME LoopInv,
         TakeBatch \/ TimedOut \/ BatchDone \/ Tick \/ MainRequests \/ UNCHANGED vars
  PROVE  Queued' = Queued
<1>1. CASE TakeBatch
  <2>1. batch' \o port' = port
    BY <1>1, TakeLoop
  <2>2. batch = <<>>
    BY <1>1 DEF TakeBatch, LoopInv
  <2>3. port \in Seq(Packet)
    BY DEF LoopInv, TypeOK
  <2> QED
    BY <2>1, <2>2, <2>3, QueueEnds DEF Queued
<1>2. CASE TimedOut \/ BatchDone \/ Tick \/ MainRequests \/ UNCHANGED vars
  BY <1>2 DEF TimedOut, BatchDone, Tick, MainRequests, vars, Queued
<1> QED
  BY <1>1, <1>2

(* The loop goes on to a sweep after a timeout only with an empty queue. *)
LEMMA OtherQueue ==
  ASSUME LoopInv, QueueInv, SlotInv,
         TakeBatch \/ TimedOut \/ BatchDone \/ Tick \/ MainRequests
  PROVE  QueueInv' /\ SlotInv'
<1>1. TypeOK /\ port \in Seq(Packet) /\ batch \in Seq(Packet) /\ <<>> \in Seq(Packet)
  BY EmptySeq DEF LoopInv, TypeOK
<1>2. UNCHANGED slots /\ UNCHANGED inline
  BY DEF TakeBatch, TimedOut, BatchDone, Tick, MainRequests
<1>3. Queued' = Queued
  BY SameQueue
<1>4. ASSUME NEW c \in Slot, Has(Queued, c), conn[c].fd = INVALID_SOCKET
      PROVE  ~(pc' = "sweep" /\ ior' = AIN_TIMEOUT)
  <2>1. CASE TakeBatch
    BY <2>1 DEF TakeBatch
  <2>2. CASE TimedOut
    <3>1. batch = <<>> /\ port = <<>>
      BY <2>2 DEF TimedOut, LoopInv
    <3>2. Queued = <<>>
      BY <1>1, <3>1, QueueEnds DEF Queued
    <3> QED
      BY <1>4, <3>2 DEF Has
  <2>3. CASE BatchDone
    BY <2>3 DEF BatchDone, LoopInv
  <2>4. CASE Tick \/ MainRequests
    BY <1>4, <2>4 DEF Tick, MainRequests, SlotInv
  <2> QED
    BY <2>1, <2>2, <2>3, <2>4
<1>5. PICK q : q = Queued
  OBVIOUS
<1>6. Queued' = q
  BY <1>3, <1>5
<1>7. UNCHANGED <<kernel, handler, conn, evtfd, open>>
  BY <1>2 DEF slots
<1>8. QueueInv'
  BY <1>2, <1>5, <1>6, <1>7 DEF QueueInv
<1>9. SlotInv'
  <2>1. ASSUME NEW d \in Slot
        PROVE  /\ conn'[d].fd # INVALID_SOCKET =>
                    /\ kernel'[d] # <<>> \/ Has(q, d)
                    /\ evtfd'[d].read_evt = conn'[d].fd
               /\ conn'[d].fd = INVALID_SOCKET /\ Has(q, d) =>
                    /\ evtfd'[d].read_evt \notin open'
                    /\ ~(pc' = "sweep" /\ ior' = AIN_TIMEOUT)
    BY <1>4, <1>5, <1>7 DEF SlotInv
  <2> QED
    BY <1>6, <2>1 DEF SlotInv
<1> QED
  BY <1>8, <1>9

(* A slot that a sweep closes has its operation in the queue, on a socket that is
   closed; one that accepts again has nothing in the queue. *)
LEMMA SweepQueue ==
  ASSUME LoopInv, SocketsOwned, QueueInv, SlotInv, Sweep
  PROVE  QueueInv' /\ SlotInv'
<1>1. /\ TypeOK /\ port \in Seq(Packet) /\ batch \in Seq(Packet)
      /\ kernel \in [Slot -> Seq(KernelOp)] /\ conn \in [Slot -> Conn]
      /\ evtfd \in [Slot -> [Event -> Fd \cup {INVALID_SOCKET}]]
      /\ INVALID_SOCKET \notin Fd
  BY IocpAssumption DEF LoopInv, TypeOK, KernelOp, Conn, INVALID_SOCKET
<1>2. PICK again \in SUBSET Slot, idle \in SUBSET Slot : \E fd \in [again -> Fd \ open] :
        /\ Swept(again, idle, fd)
        /\ \A c \in again : conn[c].fd = INVALID_SOCKET
        /\ \A c \in idle : conn[c].fd # INVALID_SOCKET
        /\ ior # AIN_TIMEOUT => again = {}
  BY SweepCases
<1>3. PICK fd \in [again -> Fd \ open] :
        /\ Swept(again, idle, fd)
        /\ \A c \in again : conn[c].fd = INVALID_SOCKET
        /\ \A c \in idle : conn[c].fd # INVALID_SOCKET
        /\ ior # AIN_TIMEOUT => again = {}
  BY <1>2
<1>4. /\ pc = "sweep" /\ pc' # "sweep" /\ UNCHANGED <<batch, inline>>
  BY DEF Sweep
<1>5. /\ \A c \in again : /\ conn'[c].fd = fd[c] /\ kernel'[c] = Append(kernel[c], "accept")
                          /\ handler'[c] = "ain_socket_onaccept"
                          /\ evtfd'[c].read_evt = fd[c]
      /\ \A c \in idle : /\ conn'[c].fd = INVALID_SOCKET /\ kernel'[c] = <<>>
                         /\ evtfd'[c] = evtfd[c]
      /\ \A c \in Slot \ (again \cup idle) :
           /\ conn'[c] = conn[c] /\ kernel'[c] = kernel[c]
           /\ handler'[c] = handler[c] /\ evtfd'[c] = evtfd[c]
  <2>1. ASSUME NEW c \in again
        PROVE  conn'[c].fd = fd[c] /\ evtfd'[c].read_evt = fd[c]
    <3>1. PICK k \in Conn : k = conn[c]
      BY <1>1
    <3>2. PICK f \in [Event -> Fd \cup {INVALID_SOCKET}] : f = evtfd[c]
      BY <1>1
    <3>3. /\ conn'[c] = [k EXCEPT !.fd = fd[c], !.connected = 0]
          /\ evtfd'[c] = [f EXCEPT !.read_evt = fd[c]]
      BY <1>3, <3>1, <3>2 DEF Swept
    <3> QED
      BY <3>1, <3>2, <3>3 DEF Conn, Event
  <2>2. ASSUME NEW c \in idle PROVE conn'[c].fd = INVALID_SOCKET
    <3>1. PICK k \in Conn : k = conn[c]
      BY <1>1
    <3>2. conn'[c] = Shut(k, time')
      BY <1>3, <3>1 DEF Swept
    <3> QED
      BY <3>1, <3>2 DEF Shut, Conn
  <2> QED
    BY <1>3, <2>1, <2>2 DEF Swept
<1>6. ASSUME NEW c \in again
      PROVE  /\ ~Has(Queued, c) /\ kernel[c] = <<>> /\ ior = AIN_TIMEOUT
             /\ kernel'[c] = <<"accept">> /\ fd[c] \in Fd \ open
  BY <1>3, <1>4, <1>5 DEF SlotInv, QueueInv
<1>7. PICK packets \in Cancelled(idle) : port' = port \o packets
  BY <1>3 DEF Swept
<1>8. /\ packets \in Seq(Packet) /\ Distinct(packets)
      /\ \A c : Has(packets, c) => c \in idle /\ kernel[c] # <<>>
  <2>1. \A c \in idle : Len(kernel[c]) <= 1
    BY DEF QueueInv
  <2>2. /\ packets \in Seq(Packet) /\ Distinct(packets)
        /\ \A n \in DOMAIN packets :
             packets[n].slot \in idle /\ kernel[packets[n].slot] # <<>>
    BY <1>1, <1>7, <2>1, CancelledPackets
  <2> QED
    BY <2>2 DEF Has
<1>9. PICK q : q = Queued \o packets
  OBVIOUS
<1>10. Queued' = q
  <2>1. batch \o (port \o packets) = (batch \o port) \o packets
    BY ONLY <1>1, <1>8, QueueGains
  <2> QED
    BY <1>4, <1>7, <1>9, <2>1 DEF Queued
<1>11. Distinct(q) /\ \A c : Has(q, c) <=> Has(Queued, c) \/ Has(packets, c)
  <2>1. Queued \in Seq(Packet)
    BY <1>1, QueueEnds DEF Queued
  <2>2. \A c : ~(Has(Queued, c) /\ Has(packets, c))
    BY <1>8 DEF QueueInv
  <2> QED
    BY <1>8, <1>9, <2>1, <2>2, ConcatHas DEF QueueInv
<1>12. /\ open' = (open \ {conn[c].fd : c \in idle}) \cup {fd[c] : c \in again}
  BY <1>3 DEF Swept
<1>13. QueueInv'
  <2>1. ASSUME NEW c \in Slot
        PROVE  /\ Len(kernel'[c]) <= 1
               /\ kernel'[c] # <<>> => ~Has(q, c) /\ conn'[c].fd # INVALID_SOCKET
               /\ kernel'[c] = <<"accept">> => handler'[c] = "ain_socket_onaccept"
    <3>1. CASE c \in again
      <4>1. ~Has(q, c)
        BY <1>3, <1>6, <1>8, <1>11, <3>1
      <4>2. conn'[c].fd # INVALID_SOCKET
        BY <1>1, <1>5, <1>6, <3>1
      <4>3. Len(kernel'[c]) <= 1 /\ handler'[c] = "ain_socket_onaccept"
        BY <1>5, <1>6, <3>1
      <4> QED
        BY <4>1, <4>2, <4>3
    <3>2. CASE c \in idle
      <4>1. kernel'[c] = <<>>
        BY <1>5, <3>2
      <4> QED
        BY <4>1
    <3>3. CASE c \notin again \cup idle
      <4>1. conn'[c] = conn[c] /\ kernel'[c] = kernel[c] /\ handler'[c] = handler[c]
        BY <1>5, <3>3
      <4>2. ~Has(packets, c)
        BY <1>8, <3>3
      <4> QED
        BY <1>11, <4>1, <4>2 DEF QueueInv
    <3> QED
      BY <3>1, <3>2, <3>3
  <2> QED
    BY <1>4, <1>10, <1>11, <2>1 DEF QueueInv
<1>14. SlotInv'
  <2>1. ASSUME NEW c \in Slot, conn'[c].fd # INVALID_SOCKET
        PROVE  (kernel'[c] # <<>> \/ Has(q, c)) /\ evtfd'[c].read_evt = conn'[c].fd
    <3>1. CASE c \in again
      BY <1>5, <1>6, <3>1
    <3>2. CASE c \notin again
      BY <1>5, <1>11, <2>1, <3>2 DEF SlotInv
    <3> QED
      BY <3>1, <3>2
  <2>2. ASSUME NEW c \in Slot, conn'[c].fd = INVALID_SOCKET, Has(q, c)
        PROVE  evtfd'[c].read_evt \notin open'
    <3>1. CASE c \in idle
      <4>1. /\ conn[c].fd # INVALID_SOCKET /\ evtfd[c].read_evt = conn[c].fd
            /\ conn[c].fd \in open
        BY <1>3, <3>1 DEF SlotInv, SocketsOwned
      <4> QED
        BY <1>5, <1>6, <1>12, <3>1, <4>1
    <3>2. CASE c \notin idle
      <4>1. c \notin again
        BY <1>1, <1>5, <1>6, <2>2
      <4>2. conn[c].fd = INVALID_SOCKET /\ Has(Queued, c) /\ evtfd'[c] = evtfd[c]
        BY <1>5, <1>8, <1>11, <2>2, <3>2, <4>1
      <4>3. evtfd[c].read_evt \notin open /\ ior # AIN_TIMEOUT
        BY <1>4, <4>2 DEF SlotInv
      <4> QED
        BY <1>3, <1>12, <4>2, <4>3
    <3> QED
      BY <3>1, <3>2
  <2> QED
    BY <1>4, <1>10, <2>1, <2>2 DEF SlotInv
<1> QED
  BY <1>13, <1>14

(* The end leaves nothing to handle. *)
LEMMA WriteEndQueue ==
  ASSUME LoopInv, QueueInv, WriteEnd
  PROVE  QueueInv' /\ SlotInv'
<1>1. /\ conn' = [c \in Slot |-> Shut(conn[c], time)] /\ kernel' = [c \in Slot |-> <<>>]
      /\ port' = <<>> /\ batch' = batch /\ inline' = inline /\ batch = <<>>
      /\ pc' = "ended"
  BY DEF WriteEnd, LoopInv
<1>2. Queued' = <<>>
  BY <1>1, EmptySeq, QueueEnds DEF Queued
<1>3. (\A c : ~Has(<<>>, c)) /\ Distinct(<<>>)
  BY DEF Has, Distinct
<1>4. \A c \in Slot : conn'[c].fd = INVALID_SOCKET /\ kernel'[c] = <<>>
  <2>1. ASSUME NEW c \in Slot PROVE conn'[c].fd = INVALID_SOCKET
    <3>1. PICK k \in Conn : k = conn[c]
      BY DEF LoopInv, TypeOK, Conn
    <3>2. conn'[c] = Shut(k, time)
      BY <1>1, <3>1
    <3> QED
      BY <3>1, <3>2 DEF Shut, Conn
  <2> QED
    BY <1>1, <2>1
<1>5. QueueInv'
  <2>1. \A c \in Slot : Len(kernel'[c]) <= 1 /\ kernel'[c] = <<>> /\ kernel'[c] # <<"accept">>
    BY <1>4
  <2> QED
    BY <1>1, <1>2, <1>3, <2>1 DEF QueueInv
<1>6. SlotInv'
  BY <1>2, <1>3, <1>4 DEF SlotInv
<1> QED
  BY <1>5, <1>6

-----------------------------------------------------------------------------
(* The invariant. *)

(* A step of a worker's process preserves the invariant. *)
LEMMA WorkerInvNext == WorkerInv /\ [Next]_vars => WorkerInv'
<1> SUFFICES ASSUME WorkerInv, [Next]_vars PROVE WorkerInv'
  OBVIOUS
<1>1. LoopInv /\ SocketsOwned /\ TypeOK /\ (twice = 0 => QueueInv /\ SlotInv)
  BY DEF WorkerInv, LoopInv
<1>2. ASSUME NEW c \in Slot, Handle(c) PROVE WorkerInv'
  <2>1. twice \in Nat /\ twice' >= twice /\ twice' \in Nat
    BY <1>1, <1>2, HandleLoop, IocpAssumption DEF TypeOK
  <2>2. twice' = 0 => twice = 0
    BY <2>1
  <2>3. CASE Closes(c)
    BY <1>1, <1>2, <2>2, <2>3, CloseLoop, CloseQueue DEF WorkerInv
  <2>4. CASE \E op \in {"read", "write"}, k \in Conn, fd \in Fd \cup {INVALID_SOCKET} :
               Submit(c, op, k, fd) /\ GoesOnWith(c, op, k, fd)
    <3>1. PICK op \in {"read", "write"}, k \in Conn, fd \in Fd \cup {INVALID_SOCKET} :
               Submit(c, op, k, fd) /\ GoesOnWith(c, op, k, fd)
      BY <2>4
    <3>2. LoopInv' /\ SocketsOwned'
      BY <1>1, <1>2, <3>1, SubmitLoop
    <3>3. ASSUME twice' = 0 PROVE QueueInv' /\ SlotInv'
      BY <1>1, <1>2, <2>2, <3>1, <3>3, SubmitQueue
    <3> QED
      BY <3>2, <3>3 DEF WorkerInv
  <2> QED
    BY <1>1, <1>2, <2>3, <2>4, HandleCases
<1>3. ASSUME NEW c \in Slot, KernelStep(c) PROVE WorkerInv'
  <2>1. LoopInv' /\ SocketsOwned'
    BY <1>1, <1>3, KernelLoop
  <2>2. twice' = twice
    BY <1>1, <1>3, KernelCases
  <2> QED
    BY <1>1, <1>3, <2>1, <2>2, KernelQueue DEF WorkerInv
<1>4. CASE TakeBatch \/ TimedOut \/ BatchDone \/ Tick \/ MainRequests
  <2>1. LoopInv' /\ SocketsOwned'
    BY <1>1, <1>4, OtherLoop
  <2>2. twice' = twice
    BY <1>4 DEF TakeBatch, TimedOut, BatchDone, Tick, MainRequests, outside
  <2> QED
    BY <1>1, <1>4, <2>1, <2>2, OtherQueue DEF WorkerInv
<1>5. CASE Sweep
  <2>1. LoopInv' /\ SocketsOwned' /\ twice' = twice
    BY <1>1, <1>5, SweepLoop DEF Sweep, outside
  <2> QED
    BY <1>1, <1>5, <2>1, SweepQueue DEF WorkerInv
<1>6. CASE WriteEnd
  <2>1. LoopInv' /\ SocketsOwned' /\ twice' = twice
    BY <1>1, <1>6, WriteEndLoop DEF WriteEnd, outside
  <2> QED
    BY <1>1, <1>6, <2>1, WriteEndQueue DEF WorkerInv
<1>7. CASE UNCHANGED vars
  <2>1. TypeOK'
    BY <1>1, <1>7 DEF TypeOK, vars, slots, outside
  <2>2. LoopInv' /\ SocketsOwned' /\ twice' = twice
    BY <1>1, <1>7, <2>1 DEF LoopInv, SocketsOwned, vars, slots, outside
  <2>3. Queued' = Queued /\ UNCHANGED <<inline, kernel, conn, handler, evtfd, open, pc, ior>>
    BY <1>7 DEF Queued, vars, slots
  <2>4. (QueueInv => QueueInv') /\ (SlotInv => SlotInv')
    BY <2>3 DEF QueueInv, SlotInv
  <2> QED
    BY <1>1, <2>2, <2>4 DEF WorkerInv
<1> QED
  BY <1>2, <1>3, <1>4, <1>5, <1>6, <1>7 DEF Next, WorkerStep, KernelStep

(* The invariant holds throughout. *)
LEMMA WorkerInvariant == Spec => []WorkerInv
  BY WorkerInvInit, WorkerInvNext, PTL DEF Spec

(* Every variable has its type: among others, a batch never holds more packets
   than ov_array, and the event a completion points to is one of a slot. *)
THEOREM TypeCorrect == Spec => []TypeOK
<1>1. WorkerInv => TypeOK
  BY DEF WorkerInv, LoopInv
<1> QED
  BY <1>1, WorkerInvariant, PTL

(* Whatever completes at once or twice, each open socket is that of exactly one
   slot of the worker, and none is left when it has ended. *)
THEOREM EverySocketOwned == Spec => []SocketsOwned
<1>1. WorkerInv => SocketsOwned
  BY DEF WorkerInv
<1> QED
  BY <1>1, WorkerInvariant, PTL

(* The queue of the properties is that of the invariant. *)
LEMMA QueueIsQueued ==
  ASSUME TypeOK, QueueInv
  PROVE  Queue = Queued /\ \A c : Of(c) = {n \in DOMAIN Queued : Queued[n].slot = c}
<1>1. inline \o batch = batch
  BY QueueEnds, ConcatEmptySeq DEF TypeOK, QueueInv
<1> QED
  BY <1>1 DEF Queue, Queued, Of

(* As long as nothing completes at once, no slot ever has two operations, in the
   system or queued, although its socket may be closed under one; so no completion
   meets a handler it was not submitted with. *)
THEOREM OneOperationPerSlot == Spec => []OneOpPerSlot
<1>1. ASSUME WorkerInv, twice = 0, NEW c \in Slot
      PROVE  /\ Len(kernel[c]) + Cardinality(Of(c)) <= 1
             /\ kernel[c] = <<"accept">> => handler[c] = "ain_socket_onaccept"
  <2>1. TypeOK /\ QueueInv
    BY <1>1 DEF WorkerInv, LoopInv
  <2>2. PICK S : S = Of(c)
    OBVIOUS
  <2>3. S = {n \in DOMAIN Queued : Queued[n].slot = c}
    BY <2>1, <2>2, QueueIsQueued
  <2>4. S = {} \/ \E n : S = {n}
    BY <2>1, <2>3 DEF QueueInv, Distinct
  <2>5. Cardinality(S) \in {0, 1} /\ (Cardinality(S) = 1 => S # {})
    BY <2>4, FS_EmptySet, FS_Singleton
  <2>6. S # {} => kernel[c] = <<>>
    BY <2>1, <2>3 DEF QueueInv, Has
  <2>7. PICK l : l = Len(kernel[c])
    OBVIOUS
  <2>8. kernel[c] \in Seq(KernelOp) /\ l <= 1
    BY <2>1, <2>7 DEF TypeOK, KernelOp, QueueInv
  <2>9. l \in Nat /\ (S # {} => l = 0)
    BY <2>6, <2>7, <2>8, LenProperties, EmptySeq
  <2>10. PICK m : m = Cardinality(S)
    OBVIOUS
  <2>11. l + m <= 1
    BY <2>5, <2>8, <2>9, <2>10
  <2> QED
    BY <2>1, <2>2, <2>7, <2>10, <2>11 DEF QueueInv
<1>2. WorkerInv => OneOpPerSlot
  BY <1>1 DEF OneOpPerSlot
<1> QED
  BY <1>2, WorkerInvariant, PTL

(* In the same case a slot with a socket always has an operation under way: no
   connection is left open without anything that would ever serve it. *)
THEOREM EverySlotServed == Spec => []SlotIsServed
<1>1. ASSUME WorkerInv, twice = 0, NEW c \in Slot, conn[c].fd # INVALID_SOCKET
      PROVE  kernel[c] # <<>> \/ Of(c) # {}
  <2>1. TypeOK /\ QueueInv /\ SlotInv
    BY <1>1 DEF WorkerInv, LoopInv
  <2> QED
    BY <1>1, <2>1, QueueIsQueued DEF SlotInv, Has
<1>2. WorkerInv => SlotIsServed
  BY <1>1 DEF SlotIsServed
<1> QED
  BY <1>2, WorkerInvariant, PTL

-----------------------------------------------------------------------------
(* The life of the slots, as long as nothing completes at once. *)

(* An operation in the system will meet the handler it was submitted with, a slot
   that accepts has no client, and the end of the worker is final. *)
LifeInv ==
  /\ \A c \in Slot :
       /\ kernel[c] = <<"read">> => handler[c] = "ain_conn_onread"
       /\ kernel[c] = <<"accept">> => conn[c].connected = 0
  /\ pc = "ended" => \A c \in Slot : conn[c].fd = INVALID_SOCKET

(* Is p a packet of q? *)
In(q, p) == \E n \in DOMAIN q : q[n] = p

(* What the pieces of the queue hold, the queue holds. *)
LEMMA AppendIn ==
  ASSUME NEW q \in Seq(Packet), NEW p \in Packet
  PROVE  \A r : In(Append(q, p), r) <=> In(q, r) \/ r = p
<1>1. PICK s : s = Append(q, p)
  OBVIOUS
<1>2. /\ Len(q) \in Nat /\ DOMAIN q = 1 .. Len(q)
      /\ DOMAIN s = 1 .. Len(q) + 1
      /\ s[Len(q) + 1] = p /\ \A n \in 1 .. Len(q) : s[n] = q[n]
  BY <1>1, AppendProperties
<1>3. \A r : In(s, r) <=> In(q, r) \/ r = p
  BY <1>2 DEF In
<1> QED
  BY <1>1, <1>3

(* The same for packets put behind each other. *)
LEMMA ConcatIn ==
  ASSUME NEW q \in Seq(Packet), NEW s \in Seq(Packet)
  PROVE  \A p : In(q \o s, p) <=> In(q, p) \/ In(s, p)
<1>1. PICK r : r = q \o s
  OBVIOUS
<1>2. /\ Len(q) \in Nat /\ DOMAIN q = 1 .. Len(q)
      /\ Len(s) \in Nat /\ DOMAIN s = 1 .. Len(s)
      /\ r \in Seq(Packet) /\ DOMAIN r = 1 .. Len(q) + Len(s)
      /\ \A n \in 1 .. Len(q) + Len(s) : r[n] = IF n <= Len(q) THEN q[n] ELSE s[n - Len(q)]
  BY <1>1, ConcatProperties
<1>3. \A n \in DOMAIN r :
        \/ n \in DOMAIN q /\ r[n] = q[n]
        \/ n - Len(q) \in DOMAIN s /\ r[n] = s[n - Len(q)]
  BY <1>2
<1>4. ASSUME NEW m \in DOMAIN s PROVE m + Len(q) \in DOMAIN r /\ r[m + Len(q)] = s[m]
  BY <1>2
<1>5. \A m \in DOMAIN q : m \in DOMAIN r /\ r[m] = q[m]
  BY <1>2
<1>6. \A p : In(r, p) <=> In(q, p) \/ In(s, p)
  BY <1>3, <1>4, <1>5 DEF In
<1> QED
  BY <1>1, <1>6

(* Taking the first packet. *)
LEMMA TailIn ==
  ASSUME NEW q \in Seq(Packet), q # <<>>
  PROVE  \A p : In(q, p) <=> In(Tail(q), p) \/ p = Head(q)
<1>1. PICK r : r = Tail(q)
  OBVIOUS
<1>2. /\ Len(q) \in Nat /\ Len(q) # 0 /\ DOMAIN q = 1 .. Len(q) /\ Head(q) = q[1]
      /\ DOMAIN r = 1 .. Len(q) - 1 /\ \A n \in 1 .. Len(q) - 1 : r[n] = q[n + 1]
  BY <1>1, EmptySeq, HeadTailProperties
<1>3. \A n \in DOMAIN r : n + 1 \in DOMAIN q /\ r[n] = q[n + 1]
  BY <1>2
<1>4. ASSUME NEW n \in DOMAIN q, n # 1 PROVE n - 1 \in DOMAIN r /\ r[n - 1] = q[n]
  <2>1. n - 1 \in 1 .. Len(q) - 1 /\ (n - 1) + 1 = n
    BY <1>2, <1>4
  <2> QED
    BY <2>1, <1>2
<1>5. 1 \in DOMAIN q
  BY <1>2
<1>6. \A p : In(q, p) <=> In(r, p) \/ p = Head(q)
  BY <1>2, <1>3, <1>4, <1>5 DEF In
<1> QED
  BY <1>1, <1>6

(* A slot's packet is the only one. *)
LEMMA OnlyPacket ==
  ASSUME NEW q, Distinct(q), NEW p, In(q, p)
  PROVE  /\ {n \in DOMAIN q : q[n].slot = p.slot} # {}
         /\ q[CHOOSE n \in {n \in DOMAIN q : q[n].slot = p.slot} : TRUE] = p
<1>1. PICK m \in DOMAIN q : q[m] = p
  BY DEF In
<1>2. {n \in DOMAIN q : q[n].slot = p.slot} = {m}
  BY <1>1 DEF Distinct
<1> QED
  BY <1>1, <1>2

(* What a packet is in, its slot has something in. *)
LEMMA InHas ==
  ASSUME NEW q, NEW p, In(q, p)
  PROVE  Has(q, p.slot)
  BY DEF In, Has

(* The phase of a slot: closed, that of its operation in the system, or that of
   its packet; and the socket it serves. *)
PhaseFacts ==
  \A c \in Slot :
    /\ conn[c].fd = INVALID_SOCKET => Phase(c) = "closed"
    /\ \A op \in KernelOp :
         conn[c].fd # INVALID_SOCKET /\ kernel[c] = <<op>> => Phase(c) = PhaseOfOp[op]
    /\ \A p \in Packet :
         conn[c].fd # INVALID_SOCKET /\ In(Queued, p) /\ p.slot = c
           => Phase(c) = PhaseOfPacket(c, p)
    /\ Phase(c) = "listening" => PhaseSocket(c) = INVALID_SOCKET
    /\ Phase(c) # "listening" => PhaseSocket(c) = conn[c].fd

(* They follow from the queue. *)
LEMMA PhaseNow == TypeOK /\ QueueInv => PhaseFacts
<1> SUFFICES ASSUME TypeOK, QueueInv PROVE PhaseFacts
  OBVIOUS
<1>1. ASSUME NEW c \in Slot, NEW op \in KernelOp, conn[c].fd # INVALID_SOCKET, kernel[c] = <<op>>
      PROVE  Phase(c) = PhaseOfOp[op]
  BY <1>1 DEF Phase
<1>2. ASSUME NEW c \in Slot, NEW p \in Packet, conn[c].fd # INVALID_SOCKET,
             In(Queued, p), p.slot = c
      PROVE  Phase(c) = PhaseOfPacket(c, p)
  <2>1. kernel[c] = <<>>
    BY <1>2, InHas DEF QueueInv
  <2>2. PICK q : q = Queued
    OBVIOUS
  <2>3. PICK S : S = {n \in DOMAIN q : q[n].slot = c}
    OBVIOUS
  <2>4. Of(c) = S /\ Queue = q
    BY <2>2, <2>3, QueueIsQueued
  <2>5. Distinct(q) /\ In(q, p)
    BY <1>2, <2>2 DEF QueueInv
  <2>6. S # {} /\ q[CHOOSE n \in S : TRUE] = p
    BY ONLY <1>2, <2>3, <2>5, OnlyPacket
  <2> QED
    BY <1>2, <2>1, <2>4, <2>6 DEF Phase
<1>3. ASSUME NEW c \in Slot
      PROVE  /\ conn[c].fd = INVALID_SOCKET => Phase(c) = "closed"
             /\ Phase(c) = "listening" => PhaseSocket(c) = INVALID_SOCKET
             /\ Phase(c) # "listening" => PhaseSocket(c) = conn[c].fd
  BY DEF Phase, PhaseSocket
<1> QED
  BY <1>1, <1>2, <1>3 DEF PhaseFacts

(* The same in the next state. *)
LEMMA PhaseThen == TypeOK' /\ QueueInv' => PhaseFacts'
  BY PhaseNow, PTL

(* It holds at first. *)
LEMMA LifeInvInit == Init => LifeInv
<1> SUFFICES ASSUME Init PROVE LifeInv
  OBVIOUS
<1>1. pc = "wait" /\ \A c \in Slot : kernel[c] = <<"accept">> /\ conn[c].connected = 0
  BY DEF Init
<1>2. <<"accept">> # <<"read">>
  OBVIOUS
<1> QED
  BY <1>1, <1>2 DEF LifeInv

(* What a handler does to its slot and to the others. *)
LEMMA HandleSlots ==
  ASSUME LoopInv, QueueInv, SlotInv, NEW c \in Slot, Handle(c), twice' = twice
  PROVE  /\ pc = "batch" /\ pc' = pc
         /\ Now \in Packet /\ Now.slot = c /\ In(Queued, Now)
         /\ \A d \in Slot \ {c} :
              /\ conn'[d] = conn[d] /\ kernel'[d] = kernel[d]
              /\ handler'[d] = handler[d] /\ internal'[d] = internal[d]
         /\ \A p : p.slot # c => (In(Queued', p) <=> In(Queued, p))
         /\ \/ conn'[c].fd = INVALID_SOCKET /\ kernel'[c] = <<>>
            \/ \E op \in {"read", "write"} :
                 /\ kernel'[c] = <<op>> /\ conn'[c].fd = conn[c].fd
                 /\ op = "read" => handler'[c] = "ain_conn_onread"
                 /\ <<PhaseOfPacket(c, Now), op>> \in Follows
<1>1. /\ TypeOK /\ pc = "batch" /\ pc' = pc /\ inline = <<>>
      /\ batch \in Seq(Packet) /\ port \in Seq(Packet)
  BY HandleLoop DEF LoopInv, TypeOK, QueueInv
<1>2. PICK e \in Event : Take(c, e)
  BY <1>1, HandleCases
<1>3. /\ batch # <<>> /\ batch' = Tail(batch) /\ Now = Head(batch)
      /\ Now \in Packet /\ Now.slot = c
  BY <1>1, <1>2, HandledPhase DEF Take, Now
<1>4. /\ Queued \in Seq(Packet) /\ Queued # <<>>
      /\ Head(Queued) = Now /\ Tail(Queued) = batch' \o port
  BY <1>1, <1>3, QueueEnds DEF Queued
<1>5. \A p : In(Queued, p) <=> In(batch' \o port, p) \/ p = Now
  BY <1>4, TailIn
<1>6. /\ conn \in [Slot -> Conn] /\ kernel \in [Slot -> Seq(KernelOp)] /\ kernel[c] = <<>>
      /\ handler \in [Slot -> {"ain_socket_onaccept", "ain_conn_onread"}]
      /\ internal \in [Slot -> [Event -> {"pending", "ok", "error"}]]
  BY <1>1, <1>2, TakeQueue DEF TypeOK, Conn, KernelOp
<1>7. CASE Closes(c)
  <2>1. PICK k \in Conn, i \in [Event -> Status], h \in Handlers :
          CloseAs(c, k, i) /\ handler' = [handler EXCEPT ![c] = h]
    BY <1>7 DEF Closes
  <2>2. port' = port
    <3>1. PICK packets \in Cancelled({c}) : port' = port \o packets
      BY <2>1 DEF CloseAs
    <3>2. packets = <<>>
      BY <1>1, <1>6, <3>1, NothingCancelled
    <3> QED
      BY <1>1, <3>1, <3>2, ConcatEmptySeq
  <2>3. Queued' = batch' \o port
    BY <2>2 DEF Queued
  <2>4. /\ conn'[c].fd = INVALID_SOCKET /\ kernel'[c] = <<>>
        /\ \A d \in Slot \ {c} :
             /\ conn'[d] = conn[d] /\ kernel'[d] = kernel[d]
             /\ handler'[d] = handler[d] /\ internal'[d] = internal[d]
    <3>1. /\ conn' = [conn EXCEPT ![c] = Shut(k, time)]
          /\ kernel' = [kernel EXCEPT ![c] = <<>>]
          /\ internal' = [internal EXCEPT ![c] = CancelledInternal(c, i)]
      BY <2>1 DEF CloseAs
    <3>2. Shut(k, time).fd = INVALID_SOCKET
      BY <2>1 DEF Shut, Conn
    <3> QED
      BY <1>6, <2>1, <3>1, <3>2
  <2> QED
    BY <1>1, <1>3, <1>5, <2>3, <2>4
<1>8. CASE \E op \in {"read", "write"}, k \in Conn, fd \in Fd \cup {INVALID_SOCKET} :
             Submit(c, op, k, fd) /\ GoesOnWith(c, op, k, fd)
  <2>1. PICK op \in {"read", "write"}, k \in Conn, fd \in Fd \cup {INVALID_SOCKET} :
             Submit(c, op, k, fd) /\ GoesOnWith(c, op, k, fd)
    BY <1>8
  <2>2. PICK x \in Event : x = EventOf(op)
    BY DEF EventOf, Event
  <2>3. /\ internal' = [internal EXCEPT ![c][x] = "pending"]
        /\ kernel' = [kernel EXCEPT ![c] = Append(@, op)] /\ port' = port
    BY <1>1, <2>1, <2>2, IocpAssumption DEF Submit, TypeOK
  <2>4. /\ conn' = [conn EXCEPT ![c] = k]
        /\ handler' = IF op = "read" THEN [handler EXCEPT ![c] = "ain_conn_onread"]
                      ELSE handler
        /\ k.fd = conn[c].fd /\ <<PhaseOfPacket(c, Now), op>> \in Follows
    BY <1>1, <2>1 DEF Submit, GoesOnWith
  <2>5. Queued' = batch' \o port
    BY <2>3 DEF Queued
  <2>6. kernel'[c] = <<op>> /\ \A d \in Slot \ {c} : kernel'[d] = kernel[d]
    BY <1>6, <2>3
  <2>7. \A d \in Slot \ {c} : internal'[d] = internal[d]
    BY <1>6, <2>3
  <2>8. /\ conn'[c] = k /\ \A d \in Slot \ {c} : conn'[d] = conn[d]
        /\ op = "read" => handler'[c] = "ain_conn_onread"
        /\ \A d \in Slot \ {c} : handler'[d] = handler[d]
    BY <1>6, <2>4
  <2> QED
    BY <1>1, <1>3, <1>5, <2>4, <2>5, <2>6, <2>7, <2>8
<1> QED
  BY <1>1, <1>7, <1>8, HandleCases

(* What the system does to the slot whose operation it completes. *)
LEMMA KernelSlots ==
  ASSUME LoopInv, QueueInv, NEW c \in Slot, KernelStep(c)
  PROVE  /\ pc' = pc /\ UNCHANGED <<conn, handler>> /\ conn[c].fd # INVALID_SOCKET
         /\ \A d \in Slot \ {c} : kernel'[d] = kernel[d] /\ internal'[d] = internal[d]
         /\ kernel'[c] = <<>>
         /\ \E p \in Packet :
              /\ p.slot = c /\ \A r : In(Queued', r) <=> In(Queued, r) \/ r = p
              /\ \/ /\ kernel[c] = <<"accept">> /\ p.evt = "read_evt"
                    /\ internal'[c].read_evt = "ok"
                 \/ kernel[c] = <<"read">> /\ p.evt = "read_evt"
                 \/ kernel[c] = <<"write">> /\ p.evt = "write_evt"
<1>1. /\ TypeOK /\ kernel[c] \in Seq(KernelOp) /\ kernel \in [Slot -> Seq(KernelOp)]
      /\ port \in Seq(Packet) /\ batch \in Seq(Packet)
      /\ internal \in [Slot -> [Event -> {"pending", "ok", "error"}]]
  BY DEF LoopInv, TypeOK, KernelOp
<1>2. PICK op \in KernelOp, bytes \in Bytes, status \in {"ok", "error"} :
        Complete(c, op, bytes, status) /\ (op = "accept" => status = "ok")
  BY DEF KernelStep, ClientConnects, ClientSends, ClientLeaves, WriteDone, KernelOp, Bytes
<1>3. PICK n \in DOMAIN kernel[c] :
        kernel[c][n] = op /\ kernel' = [kernel EXCEPT ![c] = RemoveAt(@, n)]
  BY <1>2 DEF Complete
<1>4. PICK l \in Nat : l = Len(kernel[c])
  BY <1>1, LenProperties
<1>5. l = 1
  BY <1>1, <1>3, <1>4 DEF QueueInv
<1>6. kernel[c] = <<op>> /\ kernel[c] # <<>>
  <2>1. PICK k \in Seq(KernelOp) : k = kernel[c]
    BY <1>1
  <2>2. Len(k) = 1 /\ n \in DOMAIN k /\ k[n] = op
    BY <1>3, <1>4, <1>5, <2>1
  <2>3. k = <<op>>
    BY ONLY k \in Seq(KernelOp), <2>2
  <2> QED
    BY <2>1, <2>3
<1>7. kernel'[c] = <<>>
  <2>1. PICK r : r = RemoveAt(kernel[c], n)
    OBVIOUS
  <2>2. r \in Seq(KernelOp) /\ Len(r) = l - 1
    BY <1>1, <1>3, <1>4, <2>1, RemoveOne
  <2>3. r = <<>>
    BY <1>5, <2>2, EmptySeq
  <2> QED
    BY <1>1, <1>3, <2>1, <2>3
<1>8. PICK e \in Event : e = EventOf(op)
  BY DEF EventOf, Event
<1>9. PICK p : p = PacketOf(c, op, bytes)
  OBVIOUS
<1>10. p \in Packet /\ p.slot = c /\ p.evt = e
  BY <1>8, <1>9 DEF PacketOf, Packet
<1>11. /\ pc' = pc /\ UNCHANGED <<conn, handler, batch>> /\ port' = Append(port, p)
       /\ internal' = [internal EXCEPT ![c][e] = status]
  BY <1>2, <1>8, <1>9 DEF Complete
<1>12. \A r : In(Queued', r) <=> In(Queued, r) \/ r = p
  <2>1. batch \o Append(port, p) = Append(batch \o port, p)
    BY ONLY <1>1, <1>10, QueueGains
  <2>2. Queued' = Append(Queued, p)
    BY <1>11, <2>1 DEF Queued
  <2>3. Queued \in Seq(Packet)
    BY <1>1, QueueEnds DEF Queued
  <2> QED
    BY <1>10, <2>2, <2>3, AppendIn
<1>13. conn[c].fd # INVALID_SOCKET
  BY <1>6 DEF QueueInv
<1>14. \A d \in Slot \ {c} : kernel'[d] = kernel[d] /\ internal'[d] = internal[d]
  BY <1>1, <1>3, <1>11
<1>15. internal'[c][e] = status
  BY <1>1, <1>11
<1>16. \/ /\ kernel[c] = <<"accept">> /\ p.evt = "read_evt"
          /\ internal'[c].read_evt = "ok"
       \/ kernel[c] = <<"read">> /\ p.evt = "read_evt"
       \/ kernel[c] = <<"write">> /\ p.evt = "write_evt"
  BY <1>2, <1>6, <1>8, <1>10, <1>15 DEF KernelOp, EventOf
<1> QED
  BY <1>7, <1>10, <1>11, <1>12, <1>13, <1>14, <1>16

(* What a sweep does to each slot. *)
LEMMA SweepSlots ==
  ASSUME LoopInv, QueueInv, SlotInv, Sweep
  PROVE  /\ pc = "sweep" /\ pc' \in {"wait", "drain"}
         /\ \A c \in Slot :
              \/ /\ conn[c].fd = INVALID_SOCKET
                 /\ conn'[c].fd # INVALID_SOCKET /\ conn'[c].connected = 0
                 /\ kernel'[c] = <<"accept">>
              \/ /\ conn[c].fd # INVALID_SOCKET /\ conn[c].connected = 1
                 /\ conn'[c].fd = INVALID_SOCKET /\ kernel'[c] = <<>>
              \/ /\ conn'[c] = conn[c] /\ kernel'[c] = kernel[c]
                 /\ handler'[c] = handler[c] /\ internal'[c] = internal[c]
                 /\ \A p : p.slot = c => (In(Queued', p) <=> In(Queued, p))
<1>1. /\ TypeOK /\ port \in Seq(Packet) /\ batch \in Seq(Packet)
      /\ kernel \in [Slot -> Seq(KernelOp)] /\ conn \in [Slot -> Conn]
      /\ INVALID_SOCKET \notin Fd
  BY IocpAssumption DEF LoopInv, TypeOK, KernelOp, Conn, INVALID_SOCKET
<1>2. PICK again \in SUBSET Slot, idle \in SUBSET Slot : \E fd \in [again -> Fd \ open] :
        /\ Swept(again, idle, fd)
        /\ \A c \in again : conn[c].fd = INVALID_SOCKET
        /\ \A c \in idle : conn[c].fd # INVALID_SOCKET /\ conn[c].connected = 1
        /\ ior # AIN_TIMEOUT => again = {}
  BY SweepCases
<1>3. PICK fd \in [again -> Fd \ open] :
        /\ Swept(again, idle, fd)
        /\ \A c \in again : conn[c].fd = INVALID_SOCKET
        /\ \A c \in idle : conn[c].fd # INVALID_SOCKET /\ conn[c].connected = 1
        /\ ior # AIN_TIMEOUT => again = {}
  BY <1>2
<1>4. /\ pc = "sweep" /\ pc' \in {"wait", "drain"} /\ UNCHANGED <<batch, inline>>
  BY DEF Sweep
<1>5. ASSUME NEW c \in again
      PROVE  /\ conn[c].fd = INVALID_SOCKET
             /\ conn'[c].fd # INVALID_SOCKET /\ conn'[c].connected = 0
             /\ kernel'[c] = <<"accept">>
  <2>1. PICK k \in Conn : k = conn[c]
    BY <1>1
  <2>2. conn'[c] = [k EXCEPT !.fd = fd[c], !.connected = 0] /\ fd[c] \in Fd
    BY <1>3, <2>1 DEF Swept
  <2>3. kernel'[c] = Append(kernel[c], "accept") /\ kernel[c] = <<>>
    BY <1>3 DEF Swept, QueueInv
  <2> QED
    BY <1>1, <1>3, <2>1, <2>2, <2>3 DEF Conn
<1>6. ASSUME NEW c \in idle
      PROVE  /\ conn[c].fd # INVALID_SOCKET /\ conn[c].connected = 1
             /\ conn'[c].fd = INVALID_SOCKET /\ kernel'[c] = <<>>
  <2>1. PICK k \in Conn : k = conn[c]
    BY <1>1
  <2>2. conn'[c] = Shut(k, time') /\ kernel'[c] = <<>>
    BY <1>3, <2>1 DEF Swept
  <2> QED
    BY <1>3, <2>1, <2>2 DEF Shut, Conn
<1>7. PICK packets \in Cancelled(idle) : port' = port \o packets
  BY <1>3 DEF Swept
<1>8. packets \in Seq(Packet) /\ \A p : In(packets, p) => p.slot \in idle
  BY <1>1, <1>7, CancelledPackets DEF In
<1>9. \A p : In(Queued', p) <=> In(Queued, p) \/ In(packets, p)
  <2>1. batch \o (port \o packets) = (batch \o port) \o packets
    BY ONLY <1>1, <1>8, QueueGains
  <2>2. Queued' = Queued \o packets
    BY <1>4, <1>7, <2>1 DEF Queued
  <2>3. Queued \in Seq(Packet)
    BY <1>1, QueueEnds DEF Queued
  <2> QED
    BY <1>8, <2>2, <2>3, ConcatIn
<1>10. ASSUME NEW c \in Slot, c \notin again \cup idle
       PROVE  /\ conn'[c] = conn[c] /\ kernel'[c] = kernel[c]
              /\ handler'[c] = handler[c] /\ internal'[c] = internal[c]
              /\ \A p : p.slot = c => (In(Queued', p) <=> In(Queued, p))
  <2>1. /\ conn'[c] = conn[c] /\ kernel'[c] = kernel[c]
        /\ handler'[c] = handler[c] /\ internal'[c] = internal[c]
    BY <1>3, <1>10 DEF Swept
  <2> QED
    BY <1>8, <1>9, <1>10, <2>1
<1> QED
  BY <1>4, <1>5, <1>6, <1>10

(* A step preserves it. *)
LEMMA LifeInvNext ==
  ASSUME WorkerInv, LifeInv, [Next]_vars, twice = 0, twice' = 0
  PROVE  LifeInv'
<1>1. LoopInv /\ QueueInv /\ SlotInv /\ TypeOK
  BY DEF WorkerInv, LoopInv
<1>2. ASSUME NEW c \in Slot, Handle(c) PROVE LifeInv'
  <2>1. /\ pc' # "ended"
        /\ \A d \in Slot \ {c} :
             conn'[d] = conn[d] /\ kernel'[d] = kernel[d] /\ handler'[d] = handler[d]
        /\ \/ kernel'[c] = <<>>
           \/ \E op \in {"read", "write"} :
                kernel'[c] = <<op>> /\ (op = "read" => handler'[c] = "ain_conn_onread")
    BY <1>1, <1>2, HandleSlots
  <2>2. ASSUME NEW d \in Slot
        PROVE  /\ kernel'[d] = <<"read">> => handler'[d] = "ain_conn_onread"
               /\ kernel'[d] = <<"accept">> => conn'[d].connected = 0
    <3>1. CASE d = c
      BY <2>1, <3>1
    <3>2. CASE d # c
      <4>1. conn'[d] = conn[d] /\ kernel'[d] = kernel[d] /\ handler'[d] = handler[d]
        BY ONLY d \in Slot, <2>1, <3>2
      <4> QED
        BY <4>1 DEF LifeInv
    <3> QED
      BY <3>1, <3>2
  <2> QED
    BY <2>1, <2>2 DEF LifeInv
<1>3. ASSUME NEW c \in Slot, KernelStep(c) PROVE LifeInv'
  <2>1. /\ pc' = pc /\ UNCHANGED <<conn, handler>> /\ kernel'[c] = <<>>
        /\ \A d \in Slot \ {c} : kernel'[d] = kernel[d]
    BY <1>1, <1>3, KernelSlots
  <2>2. \A d \in Slot : kernel'[d] = kernel[d] \/ kernel'[d] = <<>>
    BY <2>1
  <2> QED
    BY <2>1, <2>2 DEF LifeInv
<1>4. CASE TakeBatch \/ TimedOut \/ BatchDone \/ Tick \/ MainRequests \/ UNCHANGED vars
  <2>1. UNCHANGED <<kernel, handler, conn>> /\ (pc' = "ended" => pc = "ended")
    BY <1>4 DEF TakeBatch, TimedOut, BatchDone, Tick, MainRequests, vars, slots
  <2> QED
    BY <2>1 DEF LifeInv
<1>5. CASE Sweep
  <2>1. pc' # "ended"
    BY <1>1, <1>5, SweepSlots
  <2>2. ASSUME NEW c \in Slot
        PROVE  /\ kernel'[c] = <<"read">> => handler'[c] = "ain_conn_onread"
               /\ kernel'[c] = <<"accept">> => conn'[c].connected = 0
    <3>1. \/ conn'[c].connected = 0 /\ kernel'[c] = <<"accept">>
          \/ kernel'[c] = <<>>
          \/ conn'[c] = conn[c] /\ kernel'[c] = kernel[c] /\ handler'[c] = handler[c]
      BY <1>1, <1>5, SweepSlots
    <3>2. CASE conn'[c].connected = 0 /\ kernel'[c] = <<"accept">>
      <4>1. <<"accept">> # <<"read">>
        OBVIOUS
      <4> QED
        BY <3>2, <4>1
    <3>3. CASE kernel'[c] = <<>>
      <4>1. <<>> # <<"read">> /\ <<>> # <<"accept">>
        OBVIOUS
      <4> QED
        BY <3>3, <4>1
    <3>4. CASE conn'[c] = conn[c] /\ kernel'[c] = kernel[c] /\ handler'[c] = handler[c]
      BY <3>4 DEF LifeInv
    <3> QED
      BY <3>1, <3>2, <3>3, <3>4
  <2> QED
    BY <2>1, <2>2 DEF LifeInv
<1>6. CASE WriteEnd
  <2>1. \A c \in Slot : conn'[c].fd = INVALID_SOCKET /\ kernel'[c] = <<>>
    <3>1. conn \in [Slot -> Conn]
      BY <1>1 DEF TypeOK, Conn
    <3> QED
      BY <1>6, <3>1 DEF WriteEnd, Shut, Conn
  <2> QED
    BY <2>1 DEF LifeInv
<1> QED
  BY <1>2, <1>3, <1>4, <1>5, <1>6 DEF Next, WorkerStep, KernelStep

(* The abstract variables are the mapped ones. *)
LEMMA Moves ==
  ASSUME NEW c \in Slot, NEW from, NEW to, Phase(c) \in from, Phase(c)' \in to
  PROVE  Life!Move(c, from, to)
  BY DEF Life!Move

(* A slot whose operation stays has not moved. *)
LEMMA Stays ==
  ASSUME TypeOK, QueueInv, SlotInv, PhaseFacts, PhaseFacts', NEW c \in Slot,
         conn'[c].fd = conn[c].fd, kernel'[c] = kernel[c],
         handler'[c] = handler[c], internal'[c] = internal[c],
         \A p : p.slot = c => (In(Queued', p) <=> In(Queued, p))
  PROVE  Life!SlotStep(c) /\ Phase(c)' = Phase(c) /\ PhaseSocket(c)' = PhaseSocket(c)
<1>1. Phase(c)' = Phase(c)
  <2>1. CASE conn[c].fd = INVALID_SOCKET
    BY <2>1 DEF PhaseFacts
  <2>2. CASE conn[c].fd # INVALID_SOCKET /\ kernel[c] # <<>>
    BY <2>2 DEF Phase
  <2>3. CASE conn[c].fd # INVALID_SOCKET /\ kernel[c] = <<>>
    <3>1. Has(Queued, c)
      BY <2>3 DEF SlotInv
    <3>2. PICK p \in Packet : In(Queued, p) /\ p.slot = c
      <4>1. Queued \in Seq(Packet)
        BY QueueEnds DEF TypeOK, Queued
      <4> QED
        BY <3>1, <4>1 DEF Has, In
    <3>3. In(Queued', p)
      BY <3>2
    <3>4. Phase(c) = PhaseOfPacket(c, p)
      BY <2>3, <3>2 DEF PhaseFacts
    <3>5. Phase(c)' = PhaseOfPacket(c, p)'
      BY <2>3, <3>2, <3>3 DEF PhaseFacts
    <3>6. PhaseOfPacket(c, p)' = PhaseOfPacket(c, p)
      BY DEF PhaseOfPacket
    <3> QED
      BY <3>4, <3>5, <3>6
  <2> QED
    BY <2>1, <2>2, <2>3
<1>2. PhaseSocket(c)' = PhaseSocket(c)
  BY <1>1 DEF PhaseSocket
<1> QED
  BY <1>1, <1>2 DEF Life!SlotStep, Life!Stay

(* A handler takes a step of its slot's life: it goes on after what it heard,
   wrote or accepted, or closes. *)
LEMMA HandleLife ==
  ASSUME LoopInv, QueueInv, SlotInv, PhaseFacts, PhaseFacts',
         NEW c \in Slot, Handle(c), twice' = twice
  PROVE  \A d \in Slot : Life!SlotStep(d) \/ Life!Drop(d)
<1>1. ASSUME NEW d \in Slot \ {c} PROVE Life!SlotStep(d)
  <2>1. /\ conn'[d] = conn[d] /\ kernel'[d] = kernel[d]
        /\ handler'[d] = handler[d] /\ internal'[d] = internal[d]
        /\ \A p : p.slot = d => (In(Queued', p) <=> In(Queued, p))
    BY <1>1, HandleSlots
  <2> QED
    BY <2>1, Stays DEF LoopInv
<1>2. Now \in Packet /\ Now.slot = c /\ In(Queued, Now)
  BY HandleSlots
<1>3. PICK f : f = PhaseOfPacket(c, Now)
  OBVIOUS
<1>4. f \in {"written", "failed", "arrived", "heard"}
  BY <1>2, <1>3, PacketPhases
<1>5. conn[c].fd # INVALID_SOCKET => Phase(c) = f
  BY <1>2, <1>3 DEF PhaseFacts
<1>6. CASE conn'[c].fd = INVALID_SOCKET
  <2>1. Phase(c)' = "closed" /\ PhaseSocket(c)' = INVALID_SOCKET
    BY <1>6 DEF PhaseFacts
  <2>2. CASE conn[c].fd = INVALID_SOCKET
    <3>1. Phase(c) = "closed" /\ PhaseSocket(c) = INVALID_SOCKET
      BY <2>2 DEF PhaseFacts
    <3>2. Life!Stay(c)
      BY <2>1, <3>1 DEF Life!Stay
    <3> QED
      BY <1>1, <3>2 DEF Life!SlotStep
  <2>3. CASE conn[c].fd # INVALID_SOCKET /\ f \in {"heard", "failed"}
    <3>1. Life!Close(c)
      BY <1>5, <2>1, <2>3, Moves DEF Life!Close
    <3> QED
      BY <1>1, <3>1 DEF Life!SlotStep
  <2>4. CASE conn[c].fd # INVALID_SOCKET /\ f \in {"arrived", "written"}
    <3>1. Life!Drop(c)
      BY <1>5, <2>1, <2>4, Moves DEF Life!Drop
    <3> QED
      BY <1>1, <3>1
  <2> QED
    BY <1>4, <2>2, <2>3, <2>4
<1>7. CASE conn'[c].fd # INVALID_SOCKET
  <2>1. PICK op \in {"read", "write"} :
          kernel'[c] = <<op>> /\ conn'[c].fd = conn[c].fd /\ <<f, op>> \in Follows
    BY <1>3, <1>7, HandleSlots
  <2>2. Phase(c) = f
    BY <1>5, <1>7, <2>1
  <2>3. Phase(c)' = PhaseOfOp[op]
    BY <1>7, <2>1 DEF PhaseFacts, KernelOp
  <2>4. PhaseSocket(c)' = PhaseSocket(c)
    <3>1. Phase(c) # "listening" /\ Phase(c)' # "listening"
      BY <1>4, <2>2, <2>3 DEF PhaseOfOp
    <3> QED
      BY <2>1, <3>1 DEF PhaseFacts
  <2>5. CASE f = "arrived" /\ op = "read"
    <3>1. Life!Greet(c)
      BY <2>2, <2>3, <2>4, <2>5, Moves DEF Life!Greet, PhaseOfOp
    <3> QED
      BY <1>1, <3>1 DEF Life!SlotStep
  <2>6. CASE f = "heard"
    <3>1. Phase(c)' \in {"reading", "writing"}
      BY <2>3 DEF PhaseOfOp
    <3>2. Life!Answer(c)
      BY <2>2, <2>4, <2>6, <3>1, Moves DEF Life!Answer
    <3> QED
      BY <1>1, <3>2 DEF Life!SlotStep
  <2>7. CASE f = "written" /\ op = "read"
    <3>1. Life!Resume(c)
      BY <2>2, <2>3, <2>4, <2>7, Moves DEF Life!Resume, PhaseOfOp
    <3> QED
      BY <1>1, <3>1 DEF Life!SlotStep
  <2> QED
    BY <2>1, <2>5, <2>6, <2>7 DEF Follows
<1> QED
  BY <1>6, <1>7

(* So does the system: what a client does to the slot, or one that arrives, on a
   socket no other slot has. *)
LEMMA KernelLife ==
  ASSUME LoopInv, SocketsOwned, QueueInv, SlotInv, LifeInv, PhaseFacts, PhaseFacts',
         NEW c \in Slot, KernelStep(c)
  PROVE  \A d \in Slot : Life!SlotStep(d)
<1>1. /\ UNCHANGED <<conn, handler>> /\ conn[c].fd # INVALID_SOCKET
      /\ \A d \in Slot \ {c} : kernel'[d] = kernel[d] /\ internal'[d] = internal[d]
  BY KernelSlots
<1>2. PICK p \in Packet :
        /\ p.slot = c /\ \A r : In(Queued', r) <=> In(Queued, r) \/ r = p
        /\ \/ /\ kernel[c] = <<"accept">> /\ p.evt = "read_evt"
              /\ internal'[c].read_evt = "ok"
           \/ kernel[c] = <<"read">> /\ p.evt = "read_evt"
           \/ kernel[c] = <<"write">> /\ p.evt = "write_evt"
  BY KernelSlots
<1>3. ASSUME NEW d \in Slot \ {c}
      PROVE  Life!SlotStep(d) /\ PhaseSocket(d)' = PhaseSocket(d)
  <2>1. \A r : r.slot = d => (In(Queued', r) <=> In(Queued, r))
    BY <1>2
  <2> QED
    BY <1>1, <2>1, Stays DEF LoopInv
<1>4. Phase(c)' = PhaseOfPacket(c, p)'
  BY <1>1, <1>2 DEF PhaseFacts
<1>5. conn[c].fd \in Fd
  BY <1>1 DEF LoopInv, TypeOK
<1>6. CASE kernel[c] = <<"accept">> /\ p.evt = "read_evt" /\ internal'[c].read_evt = "ok"
  <2>1. Phase(c) = "listening"
    BY <1>1, <1>6 DEF PhaseFacts, PhaseOfOp, KernelOp
  <2>2. handler[c] = "ain_socket_onaccept"
    BY <1>6 DEF QueueInv
  <2>3. Phase(c)' = "arrived"
    BY <1>1, <1>4, <1>6, <2>2 DEF PhaseOfPacket
  <2>4. PhaseSocket(c)' = conn[c].fd
    BY <1>1, <2>3 DEF PhaseFacts
  <2>5. ASSUME NEW d \in Slot \ {c} PROVE PhaseSocket(d)' # PhaseSocket(c)'
    <3>1. PhaseSocket(d)' \in {INVALID_SOCKET, conn[d].fd}
      BY <1>1 DEF PhaseFacts
    <3>2. conn[d].fd # conn[c].fd
      BY <1>5 DEF SocketsOwned
    <3> QED
      BY <1>1, <2>4, <3>1, <3>2
  <2>6. Life!Arrive(c)
    BY <1>5, <2>1, <2>3, <2>4, <2>5, Moves DEF Life!Arrive
  <2> QED
    BY <1>3, <2>6 DEF Life!SlotStep
<1>7. CASE kernel[c] = <<"read">> /\ p.evt = "read_evt"
  <2>1. Phase(c) = "reading"
    BY <1>1, <1>7 DEF PhaseFacts, PhaseOfOp, KernelOp
  <2>2. handler[c] = "ain_conn_onread"
    BY <1>7 DEF LifeInv
  <2>3. Phase(c)' \in {"heard", "failed"}
    BY <1>1, <1>4, <1>7, <2>2 DEF PhaseOfPacket
  <2>4. PhaseSocket(c)' = PhaseSocket(c)
    BY <1>1, <2>1, <2>3 DEF PhaseFacts
  <2>5. Life!Hear(c)
    BY <2>1, <2>3, <2>4, Moves DEF Life!Hear
  <2> QED
    BY <1>3, <2>5 DEF Life!SlotStep
<1>8. CASE kernel[c] = <<"write">> /\ p.evt = "write_evt"
  <2>1. Phase(c) = "writing"
    BY <1>1, <1>8 DEF PhaseFacts, PhaseOfOp, KernelOp
  <2>2. Phase(c)' \in {"written", "failed"}
    BY <1>4, <1>8 DEF PhaseOfPacket
  <2>3. PhaseSocket(c)' = PhaseSocket(c)
    BY <1>1, <2>1, <2>2 DEF PhaseFacts
  <2>4. Life!Write(c)
    BY <2>1, <2>2, <2>3, Moves DEF Life!Write
  <2> QED
    BY <1>3, <2>4 DEF Life!SlotStep
<1> QED
  BY <1>2, <1>6, <1>7, <1>8

(* A sweep accepts on slots that are closed and drops clients; it closes no slot
   that listens, since that has no client. *)
LEMMA SweepLife ==
  ASSUME LoopInv, QueueInv, SlotInv, LifeInv, PhaseFacts, PhaseFacts', Sweep,
         NEW c \in Slot
  PROVE  Life!SlotStep(c) \/ Life!Drop(c)
<1>1. CASE /\ conn[c].fd = INVALID_SOCKET
           /\ conn'[c].fd # INVALID_SOCKET /\ kernel'[c] = <<"accept">>
  <2>1. Phase(c) = "closed" /\ Phase(c)' = "listening"
    BY <1>1 DEF PhaseFacts, PhaseOfOp, KernelOp
  <2>2. PhaseSocket(c)' = INVALID_SOCKET
    BY <2>1 DEF PhaseFacts
  <2>3. Life!Reuse(c)
    BY <2>1, <2>2, Moves DEF Life!Reuse
  <2> QED
    BY <2>3 DEF Life!SlotStep
<1>2. CASE /\ conn[c].fd # INVALID_SOCKET /\ conn[c].connected = 1
           /\ conn'[c].fd = INVALID_SOCKET
  <2>1. Phase(c)' = "closed" /\ PhaseSocket(c)' = INVALID_SOCKET
    BY <1>2 DEF PhaseFacts
  <2>2. Phase(c) \in {"reading", "writing", "written", "failed", "arrived", "heard"}
    <3>1. CASE kernel[c] # <<>>
      <4>1. PICK op \in KernelOp : kernel[c] = <<op>>
        <5>1. PICK k \in Seq(KernelOp) : k = kernel[c]
          BY DEF LoopInv, TypeOK, KernelOp
        <5>2. Len(k) <= 1 /\ k # <<>>
          BY <3>1, <5>1 DEF QueueInv
        <5>3. Len(k) \in Nat /\ Len(k) # 0
          BY <5>2, LenProperties, EmptySeq
        <5>4. Len(k) = 1
          <6>1. PICK l \in Nat : l = Len(k)
            BY <5>3
          <6>2. l # 0 /\ l <= 1
            BY <5>2, <5>3, <6>1
          <6>3. l = 1
            BY ONLY l \in Nat, <6>2
          <6> QED
            BY <6>1, <6>3
        <5>5. 1 \in DOMAIN k /\ k[1] \in KernelOp
          <6>1. 1 \in 1 .. Len(k) /\ DOMAIN k = 1 .. Len(k)
            BY <5>4, LenProperties
          <6> QED
            BY <6>1, ElementOfSeq
        <5>6. PICK op \in KernelOp : k[1] = op
          BY <5>5
        <5>7. k = <<op>>
          BY ONLY k \in Seq(KernelOp), <5>4, <5>5, <5>6
        <5> QED
          BY <5>1, <5>7
      <4>2. op # "accept"
        BY <1>2, <4>1 DEF LifeInv
      <4> QED
        BY <1>2, <4>1, <4>2 DEF PhaseFacts, PhaseOfOp, KernelOp
    <3>2. CASE kernel[c] = <<>>
      <4>1. Has(Queued, c)
        BY <1>2, <3>2 DEF SlotInv
      <4>2. PICK p \in Packet : In(Queued, p) /\ p.slot = c
        <5>1. Queued \in Seq(Packet)
          BY QueueEnds DEF LoopInv, TypeOK, Queued
        <5> QED
          BY <4>1, <5>1 DEF Has, In
      <4>3. Phase(c) = PhaseOfPacket(c, p)
        BY <1>2, <4>2 DEF PhaseFacts
      <4> QED
        BY <4>3, PacketPhases
    <3> QED
      BY <3>1, <3>2
  <2>3. CASE Phase(c) \in {"heard", "failed"}
    <3>1. Life!Close(c)
      BY <2>1, <2>3, Moves DEF Life!Close
    <3> QED
      BY <3>1 DEF Life!SlotStep
  <2>4. CASE Phase(c) \in {"arrived", "reading", "writing", "written"}
    BY <2>1, <2>4, Moves DEF Life!Drop
  <2> QED
    BY <2>2, <2>3, <2>4
<1>3. CASE /\ conn'[c] = conn[c] /\ kernel'[c] = kernel[c]
           /\ handler'[c] = handler[c] /\ internal'[c] = internal[c]
           /\ \A p : p.slot = c => (In(Queued', p) <=> In(Queued, p))
  BY <1>3, Stays DEF LoopInv
<1> QED
  BY <1>1, <1>2, <1>3, SweepSlots

(* A step of the worker is one in the lives of its slots. *)
LEMMA StepLife ==
  ASSUME WorkerInv, WorkerInv', LifeInv, [Next]_vars, twice = 0, twice' = 0
  PROVE  Life!ServeOrDrop \/ Life!Stop \/ UNCHANGED Life!vars
<1>1. LoopInv /\ SocketsOwned /\ QueueInv /\ SlotInv /\ TypeOK
  BY DEF WorkerInv, LoopInv
<1>2. PhaseFacts /\ PhaseFacts'
  <2>1. TypeOK' /\ QueueInv'
    BY DEF WorkerInv, LoopInv
  <2> QED
    BY <1>1, <2>1, PhaseNow, PhaseThen
<1>3. ASSUME NEW c \in Slot, Handle(c) PROVE Life!ServeOrDrop
  <2>1. \A d \in Slot : Life!SlotStep(d) \/ Life!Drop(d)
    BY <1>1, <1>2, <1>3, HandleLife
  <2>2. pc # "ended" /\ pc' # "ended"
    BY <1>1, <1>3, HandleSlots
  <2> QED
    BY <2>1, <2>2 DEF Life!ServeOrDrop
<1>4. ASSUME NEW c \in Slot, KernelStep(c) PROVE Life!ServeOrDrop
  <2>1. \A d \in Slot : Life!SlotStep(d)
    BY <1>1, <1>2, <1>4, KernelLife
  <2>2. pc # "ended" /\ pc' # "ended"
    BY <1>1, <1>4, KernelSlots DEF LifeInv
  <2> QED
    BY <2>1, <2>2 DEF Life!ServeOrDrop
<1>5. CASE TakeBatch \/ TimedOut \/ BatchDone \/ Tick \/ MainRequests \/ UNCHANGED vars
  <2>1. UNCHANGED slots /\ (pc' = "ended" <=> pc = "ended")
    BY <1>5 DEF TakeBatch, TimedOut, BatchDone, Tick, MainRequests, vars
  <2>2. Queued' = Queued
    BY <1>1, <1>5, SameQueue
  <2>3. ASSUME NEW c \in Slot
        PROVE  Phase(c)' = Phase(c) /\ PhaseSocket(c)' = PhaseSocket(c)
    <3>1. /\ conn'[c].fd = conn[c].fd /\ kernel'[c] = kernel[c]
          /\ handler'[c] = handler[c] /\ internal'[c] = internal[c]
      BY <2>1 DEF slots
    <3>2. \A p : p.slot = c => (In(Queued', p) <=> In(Queued, p))
      BY <2>2
    <3> QED
      BY <1>1, <1>2, <3>1, <3>2, Stays
  <2> QED
    BY <2>1, <2>3 DEF Life!vars
<1>6. CASE Sweep
  <2>1. \A c \in Slot : Life!SlotStep(c) \/ Life!Drop(c)
    BY <1>1, <1>2, <1>6, SweepLife
  <2>2. pc # "ended" /\ pc' # "ended"
    BY <1>1, <1>6, SweepSlots
  <2> QED
    BY <2>1, <2>2 DEF Life!ServeOrDrop
<1>7. CASE WriteEnd
  <2>1. conn \in [Slot -> Conn]
    BY <1>1 DEF TypeOK, Conn
  <2>2. \A c \in Slot : conn'[c].fd = INVALID_SOCKET
    BY <1>7, <2>1 DEF WriteEnd, Shut, Conn
  <2>3. \A c \in Slot : Phase(c)' = "closed" /\ PhaseSocket(c)' = INVALID_SOCKET
    BY <1>2, <2>2 DEF PhaseFacts
  <2>4. pc = "drain" /\ pc' = "ended"
    BY <1>7 DEF WriteEnd
  <2> QED
    BY <2>3, <2>4 DEF Life!Stop
<1> QED
  BY <1>3, <1>4, <1>5, <1>6, <1>7 DEF Next, WorkerStep, KernelStep

(* At first every slot listens. *)
LEMMA InitLife == Init => Life!Init
<1> SUFFICES ASSUME Init PROVE Life!Init
  OBVIOUS
<1>1. LoopInv /\ TypeOK /\ QueueInv
  BY WorkerInvInit DEF WorkerInv, LoopInv, Init
<1>2. PhaseFacts
  BY <1>1, PhaseNow
<1>3. ASSUME NEW c \in Slot
      PROVE  Phase(c) = "listening" /\ PhaseSocket(c) = INVALID_SOCKET
  <2>1. kernel[c] = <<"accept">>
    BY DEF Init
  <2>2. conn[c].fd # INVALID_SOCKET
    <3>1. kernel[c] # <<>>
      BY <2>1
    <3> QED
      BY <1>1, <3>1 DEF QueueInv
  <2>3. Phase(c) = "listening"
    BY <1>2, <2>1, <2>2 DEF PhaseFacts, PhaseOfOp, KernelOp
  <2> QED
    BY <1>2, <2>3 DEF PhaseFacts
<1>4. pc # "ended"
  BY DEF Init
<1> QED
  BY <1>3, <1>4 DEF Life!Init

(* What completed at once stays counted. *)
LEMMA TwiceGrows == WorkerInv /\ [Next]_vars => (twice' = 0 => twice = 0)
<1> SUFFICES ASSUME WorkerInv, [Next]_vars, twice' = 0 PROVE twice = 0
  OBVIOUS
<1>1. LoopInv /\ TypeOK
  BY DEF WorkerInv, LoopInv
<1>2. ASSUME NEW c \in Slot, Handle(c) PROVE twice = 0
  <2>1. twice \in Nat /\ twice' >= twice
    BY <1>1, <1>2, HandleLoop, IocpAssumption DEF TypeOK
  <2> QED
    BY <2>1
<1>3. ASSUME NEW c \in Slot, KernelStep(c) PROVE twice = 0
  BY <1>1, <1>3, KernelCases
<1>4. CASE TakeBatch \/ TimedOut \/ BatchDone \/ Tick \/ MainRequests \/ Sweep \/ WriteEnd
           \/ UNCHANGED vars
  BY <1>4 DEF TakeBatch, TimedOut, BatchDone, Tick, MainRequests, Sweep, WriteEnd, vars, outside
<1> QED
  BY <1>2, <1>3, <1>4 DEF Next, WorkerStep, KernelStep

(* As long as nothing completes twice, the worker follows the life of its slots
   (module SlotLife), but that it may drop a client: it answers only after it
   heard, on the socket it heard on; two slots never serve one socket; a slot that
   listens closes only with the worker; and none with a socket is forgotten. *)
THEOREM WorkerFollowsSlotLife == Spec => FollowsSlotLife
<1> DEFINE Inv == WorkerInv /\ (twice = 0 => LifeInv)
<1>1. Init => Inv
  BY WorkerInvInit, LifeInvInit
<1>2. Inv /\ [Next]_vars => Inv'
  BY WorkerInvNext, TwiceGrows, LifeInvNext
<1>3. Inv /\ Inv' /\ [Next]_vars
        => [twice' = 0 => Life!ServeOrDrop \/ Life!Stop]_Life!vars
  BY TwiceGrows, StepLife
<1> HIDE DEF Inv
<1> QED
  BY <1>1, <1>2, <1>3, InitLife, PTL DEF Spec, FollowsSlotLife
=============================================================================
