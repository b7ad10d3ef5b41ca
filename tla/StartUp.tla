------------------------------ MODULE StartUp ------------------------------
(***************************************************************************)
(* How the server starts: the configuration (core/ain_conf.c), the         *)
(* listeners made from it (core/ain_sock.c), the workers they are dealt to *)
(* (core/ain_main_process.c) and what each worker sets up before its loop  *)
(* (core/ain_worker_proc.c).                                               *)
(*                                                                         *)
(* On Windows the workers are threads: they read the one table of          *)
(* listeners while the main thread still deals listeners to the workers    *)
(* after them.  On Linux they are processes, each with its own copy of the *)
(* table, and deal to themselves.                                          *)
(***************************************************************************)
EXTENDS Integers, Sequences, FiniteSetsExt

CONSTANTS
  Systems,      (* the systems looked at: "windows", "linux"               *)
  CpuCounts,    (* the numbers of processors looked at                     *)
  Totals,       (* the values of AIN_WORKER_CONNECTIONS looked at          *)
  MgmtPorts     (* the ports written in AIN_MGMT_CHILD_ADDRESS             *)

ASSUME StartUpAssumption ==
  /\ Systems \subseteq {"windows", "linux"}
  /\ \E most \in CpuCounts : CpuCounts \subseteq 1 .. most
  /\ Totals \subseteq 0 .. 2^16 - 1
  /\ \A p \in MgmtPorts : p \in Seq(0 .. 9)

VARIABLES
  os, cpus, total,  (* where the server is started, and how it was built   *)
  lls,              (* ain_conf_t.lls                                      *)
  w_max, w_conns_size,
  ls,               (* ain_sock_t of each listener: conn_size, port        *)
  wdata,            (* ls->wdata, in each copy of the table                *)
  pc,               (* what the main thread or parent process does         *)
  next, l,          (* the worker it creates next, the listener it deals   *)
  wpc, at,          (* what each worker does, and its l                    *)
  table,            (* connections each worker has counted (req)           *)
  pool_size,
  slots             (* connections it has set up for each listener         *)

env == <<os, cpus, total>>
conf == <<lls, w_max, w_conns_size>>
main == <<pc, next, l>>
work == <<table, pool_size, slots>>
vars == <<env, conf, ls, wdata, main, wpc, at, work>>

Listener == 0 .. 1                      \* conf->lls_size = 2
Worker == 0 .. Max(CpuCounts) - 1
None == -1

(* The listeners table a worker reads. *)
Copy(i) == IF os = "windows" THEN 0 ELSE i

TypeOK ==
  /\ os \in Systems /\ cpus \in CpuCounts /\ total \in Totals
  /\ w_max \in 0 .. 2^8 - 1 /\ w_conns_size \in 0 .. 2^16 - 1
  /\ pc \in {"load", "listeners", "deal", "wait"} /\ next \in 0 .. w_max /\ l \in Nat
  /\ wdata \in [Worker -> [Listener -> {None} \cup Worker]]
  /\ wpc \in [Worker -> {"none", "deal", "count", "setup", "serve", "stopped"}]
  /\ at \in [Worker -> Nat] /\ table \in [Worker -> Nat]
  /\ pool_size \in [Worker -> 0 .. 2^16 - 1]
  /\ slots \in [Worker -> [Listener -> 0 .. 2^16 - 1]]

Init ==
  /\ os \in Systems /\ cpus \in CpuCounts /\ total \in Totals
  /\ \E p \in MgmtPorts :
       lls = <<[scheme |-> "http", port |-> <<9, 0, 8, 1>>, conns_size |-> 0],
               [scheme |-> "ainc", port |-> p, conns_size |-> 4]>>
  /\ w_max = 0 /\ w_conns_size = 0
  /\ ls = [k \in Listener |-> [conn_size |-> 0, port |-> 0]]
  /\ wdata = [i \in Worker |-> [k \in Listener |-> None]]
  /\ pc = "load" /\ next = 0 /\ l = 0
  /\ wpc = [i \in Worker |-> "none"]
  /\ at = [i \in Worker |-> 0]
  /\ table = [i \in Worker |-> 0]
  /\ pool_size = [i \in Worker |-> 16]
  /\ slots = [i \in Worker |-> [k \in Listener |-> 0]]

-----------------------------------------------------------------------------
(* ain_config_load and the first lines of the two main functions *)

(* Mutant of Share: the shares that are fixed are not taken off. *)
ShareOfAll == total \div Cardinality({k \in DOMAIN lls : lls[k].conns_size = 0})

(* uint16_t: fixed shares beyond the total wrap around. *)
Share ==
  LET fixed == lls[1].conns_size + lls[2].conns_size
      rest == (total - fixed) % 2^16
  IN  rest \div Cardinality({k \in DOMAIN lls : lls[k].conns_size = 0})

LoadConfig ==
  /\ pc = "load"
  /\ w_conns_size' = Share
  /\ w_max' = cpus % 2^8                \* (uint8_t)sysinfo->cpus
  /\ pc' = "listeners"
  /\ UNCHANGED <<env, lls, ls, wdata, next, l, wpc, at, work>>

-----------------------------------------------------------------------------
(* ain_listeners_conf *)

DefaultPort ==
  [http |-> 80, https |-> 443, sip |-> 5060, sips |-> 5061,
   ainc |-> 39480, ainp |-> 39481]

(* AIN_TO_NUM into a uint16_t. *)
ToNum(s) ==
  LET n[k \in 0 .. Len(s)] ==
        IF k = 0 THEN 0 ELSE (n[k - 1] * 10 + s[k]) % 2^16
  IN  n[Len(s)]

(* ain_inet_setport *)
Port(c) == IF ToNum(c.port) = 0 THEN DefaultPort[c.scheme] ELSE ToNum(c.port)

(* An address whose URI is not parsed, or whose host does not convert, would
   leave its listener unset; those of ain_config_load do neither. *)
ConfigureListeners ==
  /\ pc = "listeners"
  /\ ls' = [k \in Listener |->
              LET c == lls[k + 1]
              IN [conn_size |-> IF c.conns_size # 0 THEN c.conns_size
                                ELSE w_conns_size,
                  port |-> Port(c)]]
  /\ pc' = IF w_max = 0 THEN "wait" ELSE "deal"
  /\ UNCHANGED <<env, conf, wdata, next, l, wpc, at, work>>

-----------------------------------------------------------------------------
(* Dealing the listeners, and creating the workers *)

(* Mutant of Stride: threads are dealt to as processes are. *)
StrideOne == 1

Stride == IF os = "windows" THEN w_max ELSE 1

Deal(k, i) == wdata' = [wdata EXCEPT ![Copy(i)][k] = i]

(* Mutant of Create: i <= w_max. *)
CreateOneMore(i, start) ==
  /\ wpc' = [wpc EXCEPT ![i] = start]
  /\ next' = i + 1 /\ l' = i + 1
  /\ pc' = IF next' > w_max THEN "wait" ELSE "deal"
  /\ UNCHANGED <<env, conf, ls, wdata, at, work>>

Create(i, start) ==
  /\ wpc' = [wpc EXCEPT ![i] = start]
  /\ next' = i + 1 /\ l' = i + 1
  /\ pc' = IF next' = w_max THEN "wait" ELSE "deal"
  /\ UNCHANGED <<env, conf, ls, wdata, at, work>>

(* Windows: the main thread deals to a worker and starts its thread. *)
DealToThread ==
  /\ os = "windows" /\ pc = "deal" /\ l \in Listener
  /\ Deal(l, next)
  /\ l' = l + Stride
  /\ UNCHANGED <<env, conf, ls, pc, next, wpc, at, work>>

(* Mutant of CreateThread: the thread may start before all is dealt to it. *)
CreateThreadFirst ==
  /\ os = "windows" /\ pc = "deal"
  /\ \/ /\ wpc[next] = "none"
        /\ wpc' = [wpc EXCEPT ![next] = "count"]
        /\ UNCHANGED <<env, conf, ls, wdata, main, at, work>>
     \/ /\ wpc[next] # "none" /\ l \notin Listener
        /\ Create(next, wpc[next])

CreateThread ==
  /\ os = "windows" /\ pc = "deal" /\ l \notin Listener
  /\ Create(next, "count")

(* Linux: the parent forks; the child listens on the listeners it deals to
   itself, from its own number on. *)
Fork == os = "linux" /\ pc = "deal" /\ Create(next, "deal")

ListenInChild(i) ==
  /\ wpc[i] = "deal" /\ i + at[i] \in Listener
  /\ Deal(i + at[i], i)
  /\ at' = [at EXCEPT ![i] = @ + Stride]
  /\ UNCHANGED <<env, conf, ls, main, wpc, work>>

EnterWorker(i) ==
  /\ wpc[i] = "deal" /\ i + at[i] \notin Listener
  /\ wpc' = [wpc EXCEPT ![i] = "count"]
  /\ at' = [at EXCEPT ![i] = 0]
  /\ UNCHANGED <<env, conf, ls, wdata, main, work>>

-----------------------------------------------------------------------------
(* ain_worker_proc before its loop: it goes through the listeners twice *)

Mine(i, k) == wdata[Copy(i)][k] = i

(* Mutant of Sized: the pool is sized for one listener. *)
SizedForOne(size, conns) == (16 + 2 * conns) % 2^16

(* pool_size += 2 * ls->conn_size, a uint16_t *)
Sized(size, conns) == (size + 2 * conns) % 2^16

Count(i) ==
  /\ wpc[i] = "count" /\ at[i] \in Listener
  /\ LET n == ls[at[i]].conn_size IN
     IF Mine(i, at[i])
     THEN /\ table' = [table EXCEPT ![i] = @ + n]
          /\ pool_size' = [pool_size EXCEPT ![i] = Sized(@, n)]
     ELSE UNCHANGED <<table, pool_size>>
  /\ at' = [at EXCEPT ![i] = @ + 1]
  /\ UNCHANGED <<env, conf, ls, wdata, main, wpc, slots>>

(* A pool of p pages.  Its header, _ain_mem_pool_t and 32 times a base and two
   bytes a page, lies in its first pages, and they are tagged like any extent:
   by their number cut to a byte, so that the 256th of them reads free. *)
PagesOf(bytes) == (bytes + 4095) \div 4096
HeaderPages(p) == PagesOf(10 + 32 * (8 + 2 * p))
FirstFree(p) ==
  Min({k \in 0 .. HeaderPages(p) : k = HeaderPages(p) \/ (1 + k) % 2^8 = 0})

(* ain_pool_alloc returns n pages of such a pool, just created.  It goes round
   forever when the first hole lies in the header and is too short, and stops
   the process when the extent is longer than any pool. *)
Allocates(p, n) == n <= p /\ (FirstFree(p) + 1 < HeaderPages(p) => n <= 1)

(* The table of connections, 72 bytes each. *)
TablePages(conns) == PagesOf(72 * conns)

(* The pool is made, and the table of connections if any were counted.  A
   worker whose table is not allocated is stopped; that a failed assertion
   stops the other threads as well only takes steps away. *)
MakePool(i) ==
  /\ wpc[i] = "count" /\ at[i] \notin Listener
  /\ pool_size' = [pool_size EXCEPT ![i] = Max({@, 256})]
  /\ at' = [at EXCEPT ![i] = 0]
  /\ wpc' = [wpc EXCEPT ![i] =
               IF table[i] = 0 THEN "serve"
               ELSE IF Allocates(pool_size'[i], TablePages(table[i])) THEN "setup"
               ELSE "stopped"]
  /\ UNCHANGED <<env, conf, ls, wdata, main, table, slots>>

(* ain_conn_init and ain_conn_accept for every connection of a listener. *)
SetUp(i) ==
  /\ wpc[i] = "setup" /\ at[i] \in Listener
  /\ slots' = IF Mine(i, at[i])
              THEN [slots EXCEPT ![i][at[i]] = ls[at[i]].conn_size] ELSE slots
  /\ at' = [at EXCEPT ![i] = @ + 1]
  /\ UNCHANGED <<env, conf, ls, wdata, main, wpc, table, pool_size>>

EnterLoop(i) ==
  /\ wpc[i] = "setup" /\ at[i] \notin Listener
  /\ wpc' = [wpc EXCEPT ![i] = "serve"]
  /\ UNCHANGED <<env, conf, ls, wdata, main, at, work>>

Next ==
  \/ LoadConfig \/ ConfigureListeners
  \/ DealToThread \/ CreateThread \/ Fork
  \/ \E i \in Worker :
       \/ ListenInChild(i) \/ EnterWorker(i)
       \/ Count(i) \/ MakePool(i) \/ SetUp(i) \/ EnterLoop(i)

Spec == Init /\ [][Next]_vars

-----------------------------------------------------------------------------
Slots(i) == slots[i][0] + slots[i][1]

Started ==
  /\ pc = "wait" /\ w_max > 0
  /\ \A i \in 0 .. w_max - 1 : wpc[i] = "serve"

(* A worker never sets up more connections than it counted when it allocated
   their table, although on Windows the owners of the listeners are written
   while it goes through them, once to count and once to set up. *)
SlotsFitTable == \A i \in Worker : Slots(i) <= table[i]

(* The decimal digits of a port, the last one taken off first, are these. *)
WrittenAs(port, digits) ==
  LET rest[k \in 0 .. Len(digits)] == IF k = 0 THEN port ELSE rest[k - 1] \div 10
  IN  /\ rest[Len(digits)] = 0
      /\ \A k \in DOMAIN digits : digits[k] = rest[Len(digits) - k] % 10

(* When all workers have started, connections are accepted at every listener;
   threads, which share the listener's socket, never share a listener. *)
EveryListenerDealt ==
  Started => \A k \in Listener :
    LET by == {i \in Worker : slots[i][k] > 0}
    IN  by # {} /\ (os = "windows" => Cardinality(by) = 1)

(* And on the port that was written, or else on that of its scheme. *)
EveryListenerServed ==
  /\ EveryListenerDealt
  /\ Started => \A k \in Listener :
       IF lls[k + 1].port = <<>> THEN ls[k].port = DefaultPort[lls[k + 1].scheme]
       ELSE WrittenAs(ls[k].port, lls[k + 1].port)

(* AIN_WORKER_CONNECTIONS is the "total no of connections (sockets) for all
   listeners": no worker has more. *)
SlotsWithinTotal == \A i \in Worker : Slots(i) <= total

(* The most connections for which a pool's header has less than 256 pages. *)
MostConnections == 8149

(* "min 2 pages per connection": no worker is stopped by its pool, the table of
   connections does not lie in the pool's header, and next to these two the
   pools hold two pages for each connection, although the size of a pool is
   kept in 16 bits and a page's tag in eight. *)
PagesPerConnection ==
  total \in 4 .. MostConnections => \A i \in Worker :
    /\ wpc[i] # "stopped"
    /\ wpc[i] \in {"setup", "serve"} =>
         /\ FirstFree(pool_size[i]) = HeaderPages(pool_size[i])
         /\ 2 * table[i] + HeaderPages(pool_size[i]) + TablePages(table[i])
              <= 32 * pool_size[i]
=============================================================================
