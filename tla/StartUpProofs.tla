--------------------------- MODULE StartUpProofs ---------------------------
(***************************************************************************)
(* What is dealt to a worker, counted by it and set up by it agree, for    *)
(* any number of processors, however the main thread, which still deals,   *)
(* and the workers, which already count, take turns; and the port of each  *)
(* listener is the number its digits stand for.                            *)
(***************************************************************************)
EXTENDS StartUp, FiniteSetTheorems, WellFoundedInduction, TLAPS

(* Who is dealt listener k: on Windows the threads take turns, on Linux a
   process takes all from its own number on. *)
Owner(k) == IF w_max = 1 THEN 0 ELSE k
Dealt(i, k) == IF os = "windows" THEN i = Owner(k) ELSE i <= k

(* What worker i counts for listener k, and for the first n listeners. *)
Part(i, k) == IF Dealt(i, k) THEN ls[k].conn_size ELSE 0
Before(i, n) == (IF n > 0 THEN Part(i, 0) ELSE 0) + (IF n > 1 THEN Part(i, 1) ELSE 0)

Config ==
  /\ DOMAIN lls = {1, 2} /\ lls[1].conns_size = 0 /\ lls[2].conns_size = 4
  /\ pc = "load" => w_max = 0
  /\ pc # "load" => w_max = cpus % 2^8 /\ w_conns_size = (total - 4) % 2^16
  /\ pc \in {"load", "listeners"} =>
       /\ next = 0 /\ l = 0
       /\ \A i \in Worker, k \in Listener : wdata[i][k] = None
  /\ pc = "deal" => next < w_max
  /\ pc \in {"deal", "wait"} => ls[0].conn_size = w_conns_size /\ ls[1].conn_size = 4

(* On Windows a listener is dealt when the main thread has come past it. *)
Threads ==
  /\ pc = "deal" => l = next \/ l = next + w_max \/ (w_max = 1 /\ l = 2)
  /\ \A k \in Listener :
       wdata[0][k] = IF Owner(k) < next \/ (pc = "deal" /\ Owner(k) = next /\ k < l)
                     THEN Owner(k) ELSE None

(* On Linux a child deals to itself in its own copy. *)
Processes ==
  \A i \in Worker, k \in Listener :
    wdata[i][k] = IF \/ wpc[i] = "deal" /\ i <= k /\ k < i + at[i]
                     \/ wpc[i] \in {"count", "setup", "serve", "stopped"} /\ i <= k
                  THEN i ELSE None

(* How far a worker is. *)
Fresh(i) ==
  table[i] = 0 /\ pool_size[i] = 16 /\ \A k \in Listener : slots[i][k] = 0
Counting(i) ==
  /\ at[i] \in 0 .. 2 /\ table[i] = Before(i, at[i])
  /\ pool_size[i] = (16 + 2 * table[i]) % 2^16
  /\ \A k \in Listener : slots[i][k] = 0
Counted(i) ==
  /\ table[i] = Before(i, 2)
  /\ pool_size[i] = Max({(16 + 2 * table[i]) % 2^16, 256})
SettingUp(i) ==
  /\ at[i] \in 0 .. 2 /\ Counted(i)
  /\ \A k \in Listener : slots[i][k] = IF k < at[i] THEN Part(i, k) ELSE 0
Serving(i) ==
  Counted(i) /\ \A k \in Listener : slots[i][k] = Part(i, k)
Stopped(i) ==
  /\ Counted(i) /\ ~Allocates(pool_size[i], TablePages(table[i]))
  /\ \A k \in Listener : slots[i][k] = 0

Progress(i) ==
  /\ wpc[i] = "none" <=> i >= next
  /\ wpc[i] = "none" => Fresh(i) /\ at[i] = 0
  /\ wpc[i] = "deal" => os = "linux" /\ Fresh(i) /\ at[i] <= 2
  /\ wpc[i] = "count" => Counting(i)
  /\ wpc[i] = "setup" => SettingUp(i)
  /\ wpc[i] = "serve" => Serving(i)
  /\ wpc[i] = "stopped" => Stopped(i)

StartUpInv ==
  /\ TypeOK /\ Config
  /\ \A i \in Worker : Progress(i)
  /\ os = "windows" => Threads
  /\ os = "linux" => Processes

-----------------------------------------------------------------------------
(* The constants, and the numbers. *)

(* The workers are numbered from 0, and there is one for every processor. *)
LEMMA Workers ==
  /\ Worker \subseteq Nat /\ 0 \in Worker
  /\ \A n \in CpuCounts : n \in Nat \ {0} /\ \A i \in 0 .. n - 1 : i \in Worker
<1>1. PICK most \in CpuCounts : CpuCounts \subseteq 1 .. most
  BY StartUpAssumption, Zenon
<1>2. \A n \in CpuCounts : n \in Nat /\ 1 <= n /\ n <= most
  BY <1>1
<1>3. PICK m : m = Max(CpuCounts)
  OBVIOUS
<1>4. m = most
  <2>1. m \in CpuCounts /\ \A n \in CpuCounts : m >= n
    BY <1>1, <1>2, <1>3 DEF Max
  <2>2. m \in Nat /\ most \in Nat /\ m >= most /\ m <= most
    BY <1>1, <1>2, <2>1
  <2> QED
    BY <2>2
<1>5. Worker = 0 .. most - 1
  BY <1>3, <1>4 DEF Worker
<1> QED
  BY <1>1, <1>2, <1>5

(* The larger of two numbers. *)
LEMMA MaxOfTwo ==
  ASSUME NEW a \in Int, NEW b \in Int
  PROVE  Max({a, b}) = IF a >= b THEN a ELSE b
<1>1. PICK m : m = Max({a, b})
  OBVIOUS
<1>2. \E x \in {a, b} : \A y \in {a, b} : x >= y
  OBVIOUS
<1>3. m \in {a, b} /\ \A y \in {a, b} : m >= y
  BY <1>1, <1>2 DEF Max
<1> QED
  BY <1>1, <1>3

(* A size cut to 16 bits grows as the size itself does. *)
LEMMA CutSizeGrows ==
  ASSUME NEW t \in Nat, NEW n \in Nat
  PROVE  Sized((16 + 2 * t) % 2^16, n) = (16 + 2 * (t + n)) % 2^16
<1>1. 2^16 = 65536
  BY SMT
<1>2. (((16 + 2 * t) % 65536) + 2 * n) % 65536 = (16 + 2 * (t + n)) % 65536
  OBVIOUS
<1> QED
  BY <1>1, <1>2 DEF Sized

-----------------------------------------------------------------------------
(* What the invariant says of a worker. *)

(* The numbers in the state. *)
LEMMA Basics ==
  ASSUME StartUpInv
  PROVE  /\ os \in {"windows", "linux"}
         /\ w_max \in Nat /\ next \in Nat /\ next <= w_max /\ l \in Nat
         /\ w_conns_size \in Nat /\ w_conns_size < 65536 /\ 2^16 = 65536
         /\ pc \in {"load", "listeners", "deal", "wait"}
         /\ Listener = {0, 1} /\ 0 \in Worker
         /\ \A i \in Worker : i \in Nat /\ None # i /\ at[i] \in Nat
         /\ \A i \in Worker : wpc[i] # "none" <=> i < next
<1>1. /\ os \in Systems /\ l \in Nat
      /\ pc \in {"load", "listeners", "deal", "wait"} /\ at \in [Worker -> Nat]
  BY Zenon DEF StartUpInv, TypeOK
<1>2. os \in {"windows", "linux"}
  BY ONLY <1>1, StartUpAssumption, Zenon
<1>3. w_max \in Nat /\ next \in Nat /\ next <= w_max
  <2>1. w_max \in 0 .. 2^8 - 1 /\ next \in 0 .. w_max
    BY Zenon DEF StartUpInv, TypeOK
  <2> QED
    BY ONLY <2>1
<1>4. 2^16 = 65536
  BY SMT
<1>5. w_conns_size \in Nat /\ w_conns_size < 65536
  <2>1. w_conns_size \in 0 .. 2^16 - 1
    BY Zenon DEF StartUpInv, TypeOK
  <2> QED
    BY ONLY <1>4, <2>1
<1>6. Worker \subseteq Nat /\ 0 \in Worker
  BY Workers
<1>7. ASSUME NEW i \in Worker
      PROVE  i \in Nat /\ None # i /\ at[i] \in Nat /\ (wpc[i] # "none" <=> i < next)
  <2>1. i \in Nat
    BY <1>6
  <2>2. None # i
    BY ONLY <2>1 DEF None
  <2>3. wpc[i] = "none" <=> i >= next
    BY DEF StartUpInv, Progress
  <2>4. i >= next <=> ~(i < next)
    BY ONLY <1>3, <2>1
  <2> QED
    BY <1>1, <2>1, <2>2, <2>3, <2>4
<1>8. Listener = {0, 1}
  BY DEF Listener
<1> QED
  BY <1>1, <1>2, <1>3, <1>4, <1>5, <1>6, <1>7, <1>8

(* A worker that goes through the table finds itself the owner of just the
   listeners it is dealt, whatever is dealt meanwhile to those after it. *)
LEMMA MineIsDealt ==
  ASSUME StartUpInv, NEW i \in Worker, NEW k \in Listener,
         wpc[i] \in {"count", "setup"}
  PROVE  Mine(i, k) <=> Dealt(i, k)
<1>1. /\ i \in Nat /\ k \in {0, 1} /\ next \in Nat /\ os \in {"windows", "linux"}
      /\ None # i
  BY Basics
<1>2. i < next
  <2>1. wpc[i] # "none"
    OBVIOUS
  <2> QED
    BY <2>1, Basics
<1>3. ASSUME os = "windows" PROVE Mine(i, k) <=> Dealt(i, k)
  <2>1. PICK o : o = Owner(k)
    OBVIOUS
  <2>2. o \in {0, 1}
    BY <1>1, <2>1 DEF Owner
  <2>3. wdata[0][k] \in {o, None} /\ (o < next => wdata[0][k] = o)
    BY <1>3, <2>1 DEF StartUpInv, Threads
  <2>4. i = o => wdata[0][k] = i
    BY <1>2, <2>3
  <2>5. i = o <=> wdata[0][k] = i
    BY <1>1, <2>3, <2>4
  <2> QED
    BY <1>3, <2>1, <2>5 DEF Mine, Copy, Dealt
<1>4. ASSUME os = "linux" PROVE Mine(i, k) <=> Dealt(i, k)
  <2>1. wdata[i][k] = IF i <= k THEN i ELSE None
    BY <1>4 DEF StartUpInv, Processes
  <2> QED
    BY <1>1, <1>4, <2>1 DEF Mine, Copy, Dealt
<1> QED
  BY <1>1, <1>3, <1>4

(* Once a worker is created the listeners have their sizes, each of 16 bits. *)
LEMMA Parts ==
  ASSUME StartUpInv, NEW i \in Worker, wpc[i] # "none"
  PROVE  /\ i \in Nat /\ i < next /\ pc \in {"deal", "wait"}
         /\ \A k \in Listener : ls[k].conn_size \in Nat /\ ls[k].conn_size < 65536
         /\ \A k \in Listener : Part(i, k) \in Nat /\ Part(i, k) < 65536
<1>1. i \in Nat /\ next \in Nat /\ pc \in {"load", "listeners", "deal", "wait"}
  BY Basics
<1>2. i < next
  BY Basics
<1>3. pc \in {"deal", "wait"}
  <2>1. next # 0
    BY ONLY <1>1, <1>2
  <2> QED
    BY <1>1, <2>1 DEF StartUpInv, Config
<1>4. ls[0].conn_size = w_conns_size /\ ls[1].conn_size = 4
  BY <1>3 DEF StartUpInv, Config
<1>5. w_conns_size \in Nat /\ w_conns_size < 65536
  BY Basics
<1>6. \A k \in Listener : ls[k].conn_size \in Nat /\ ls[k].conn_size < 65536
  BY <1>4, <1>5, Basics
<1> QED
  BY <1>1, <1>2, <1>3, <1>5, <1>6 DEF Part

(* A worker nothing was done to is as far as it was. *)
LEMMA ProgressElsewhere ==
  ASSUME NEW i \in Worker, Progress(i),
         UNCHANGED <<os, w_max, ls, wpc[i], at[i], table[i], pool_size[i], slots[i]>>,
         i >= next' <=> i >= next
  PROVE  Progress(i)'
<1>1. \A k \in Listener : Part(i, k)' = Part(i, k)
  BY DEF Part, Dealt, Owner
<1>2. \A n : Before(i, n)' = Before(i, n)
  <2>1. 0 \in Listener /\ 1 \in Listener
    BY DEF Listener
  <2> QED
    BY <1>1, <2>1 DEF Before
<1>3. /\ Fresh(i)' = Fresh(i) /\ Counted(i)' = Counted(i)
  BY <1>2 DEF Fresh, Counted
<1>4. /\ Counting(i)' = Counting(i) /\ SettingUp(i)' = SettingUp(i)
      /\ Serving(i)' = Serving(i) /\ Stopped(i)' = Stopped(i)
  <2>1. Counting(i)' = Counting(i)
    BY <1>2 DEF Counting
  <2>2. SettingUp(i)' = SettingUp(i)
    BY <1>1, <1>3 DEF SettingUp
  <2>3. Serving(i)' = Serving(i)
    BY <1>1, <1>3 DEF Serving
  <2>4. Stopped(i)' = Stopped(i)
    BY <1>3 DEF Stopped
  <2> QED
    BY <2>1, <2>2, <2>3, <2>4
<1> QED
  BY <1>3, <1>4 DEF Progress

-----------------------------------------------------------------------------
(* A worker goes through the table. *)

(* What it does on its own leaves the rest as it was. *)
LEMMA TableStep ==
  ASSUME StartUpInv, NEW i \in Worker,
         UNCHANGED <<env, conf, ls, wdata, main>>,
         wpc[i] \in {"count", "setup"}, wpc'[i] \in {"count", "setup", "serve", "stopped"},
         \A j \in Worker \ {i} :
           UNCHANGED <<wpc[j], at[j], table[j], pool_size[j], slots[j]>>,
         TypeOK', Progress(i)'
  PROVE  StartUpInv'
<1>1. /\ UNCHANGED <<os, total, cpus, lls, w_max, w_conns_size, ls, wdata, pc, next, l>>
  BY DEF env, conf, main
<1>2. Config'
  <2>1. Config
    BY DEF StartUpInv
  <2> QED
    BY ONLY <1>1, <2>1 DEF Config
<1>3. ASSUME NEW j \in Worker PROVE Progress(j)'
  <2>1. CASE j = i
    BY <2>1
  <2>2. CASE j # i
    <3>1. UNCHANGED <<wpc[j], at[j], table[j], pool_size[j], slots[j]>>
      BY <2>2
    <3>2. Progress(j)
      BY DEF StartUpInv
    <3>3. UNCHANGED <<os, w_max, ls, wpc[j], at[j], table[j], pool_size[j], slots[j]>>
          /\ (j >= next' <=> j >= next)
      BY <1>1, <3>1
    <3> QED
      BY ONLY <3>2, <3>3, ProgressElsewhere
  <2> QED
    BY <2>1, <2>2
<1>4. ASSUME os = "windows" PROVE Threads'
  <2>1. Threads
    BY <1>4 DEF StartUpInv
  <2> QED
    BY ONLY <1>1, <2>1 DEF Threads, Owner
<1>5. ASSUME os = "linux" PROVE Processes'
  <2>1. Processes
    BY <1>5 DEF StartUpInv
  <2>2. ASSUME NEW j \in Worker, NEW k \in Listener
        PROVE  wdata'[j][k] = IF \/ wpc'[j] = "deal" /\ j <= k /\ k < j + at'[j]
                                 \/ wpc'[j] \in {"count", "setup", "serve", "stopped"} /\ j <= k
                              THEN j ELSE None
    <3>1. CASE j = i
      BY <1>1, <2>1, <3>1 DEF Processes
    <3>2. CASE j # i
      <4>1. wpc'[j] = wpc[j] /\ at'[j] = at[j]
        BY <3>2
      <4> QED
        BY <1>1, <2>1, <4>1 DEF Processes
    <3> QED
      BY <3>1, <3>2
  <2> QED
    BY <2>2 DEF Processes
<1> QED
  BY <1>1, <1>2, <1>3, <1>4, <1>5 DEF StartUpInv

(* The types of what a worker keeps. *)
LEMMA WorkerTypes ==
  ASSUME StartUpInv
  PROVE  /\ wpc \in [Worker -> {"none", "deal", "count", "setup", "serve", "stopped"}]
         /\ at \in [Worker -> Nat] /\ table \in [Worker -> Nat]
         /\ pool_size \in [Worker -> 0 .. 2^16 - 1]
         /\ slots \in [Worker -> [Listener -> 0 .. 2^16 - 1]]
  BY Zenon DEF StartUpInv, TypeOK

(* What is counted for a listener is what will be set up for it. *)
LEMMA CountKeeps ==
  ASSUME StartUpInv, NEW i \in Worker, Count(i)
  PROVE  StartUpInv'
<1>1. /\ wpc[i] = "count" /\ at[i] \in Listener /\ wpc' = wpc /\ slots' = slots
      /\ at' = [at EXCEPT ![i] = at[i] + 1]
      /\ UNCHANGED <<env, conf, ls, wdata, main>>
      /\ UNCHANGED <<os, total, cpus, lls, w_max, w_conns_size, pc, next, l>>
  BY DEF Count, env, conf, main
<1>2. PICK n : n = ls[at[i]].conn_size
  OBVIOUS
<1>3. PICK k \in {0, 1} : k = at[i]
  BY <1>1, Basics
<1>4. /\ k \in Listener /\ n \in Nat /\ i < next /\ i \in Nat
      /\ \A j \in Listener : Part(i, j) \in Nat
  BY <1>1, <1>2, <1>3, Parts
<1>5. Mine(i, k) <=> Dealt(i, k)
  BY <1>1, <1>3, MineIsDealt
<1>6. /\ Mine(i, k) => table' = [table EXCEPT ![i] = table[i] + n]
                       /\ pool_size' = [pool_size EXCEPT ![i] = Sized(pool_size[i], n)]
      /\ ~Mine(i, k) => table' = table /\ pool_size' = pool_size
  BY <1>2, <1>3 DEF Count
<1>7. PICK t \in Nat : t = table[i]
  BY WorkerTypes, Zenon
<1>8. Counting(i)
  BY <1>1 DEF StartUpInv, Progress
<1>9. /\ t = Before(i, k) /\ pool_size[i] = (16 + 2 * t) % 2^16
      /\ \A j \in Listener : slots[i][j] = 0
  BY <1>3, <1>7, <1>8 DEF Counting
<1>10. PICK p : p = Part(i, k)
  OBVIOUS
<1>11. p = IF Mine(i, k) THEN n ELSE 0
  BY <1>2, <1>3, <1>5, <1>10 DEF Part
<1>12. p \in Nat /\ t + p \in Nat
  BY <1>4, <1>7, <1>10
<1>13. Before(i, k + 1) = t + p
  <2>1. Part(i, 0) \in Nat /\ Part(i, 1) \in Nat
    BY <1>4, Basics
  <2>2. CASE k = 0
    BY <1>9, <1>10, <2>1, <2>2 DEF Before
  <2>3. CASE k = 1
    BY <1>9, <1>10, <2>1, <2>3 DEF Before
  <2> QED
    BY <2>2, <2>3
<1>14. table' = [table EXCEPT ![i] = t + p]
  <2>1. table \in [Worker -> Nat]
    BY WorkerTypes, Zenon
  <2>2. CASE Mine(i, k)
    BY <1>6, <1>7, <1>11, <2>2
  <2>3. CASE ~Mine(i, k)
    <3>1. p = 0 /\ t + p = t
      BY <1>7, <1>11, <2>3
    <3> QED
      BY <1>6, <1>7, <2>1, <2>3, <3>1
  <2> QED
    BY <2>2, <2>3
<1>15. pool_size' = [pool_size EXCEPT ![i] = (16 + 2 * (t + p)) % 2^16]
  <2>1. pool_size \in [Worker -> 0 .. 2^16 - 1]
    BY WorkerTypes, Zenon
  <2>2. CASE Mine(i, k)
    <3>1. Sized(pool_size[i], n) = (16 + 2 * (t + p)) % 2^16
      BY <1>4, <1>7, <1>9, <1>11, <2>2, CutSizeGrows
    <3> QED
      BY <1>6, <2>2, <3>1
  <2>3. CASE ~Mine(i, k)
    <3>1. t + p = t
      BY <1>7, <1>11, <2>3
    <3> QED
      BY <1>6, <1>9, <2>1, <2>3, <3>1, Zenon
  <2> QED
    BY <2>2, <2>3
<1>16. (16 + 2 * (t + p)) % 2^16 \in 0 .. 2^16 - 1
  <2>1. 2^16 = 65536
    BY SMT
  <2>2. 16 + 2 * (t + p) \in Int
    BY <1>12
  <2> QED
    BY ONLY <2>1, <2>2
<1>17. /\ at' \in [Worker -> Nat] /\ table' \in [Worker -> Nat]
       /\ pool_size' \in [Worker -> 0 .. 2^16 - 1]
  <2>1. at[i] + 1 \in Nat
    BY <1>3
  <2> QED
    BY <1>1, <1>12, <1>14, <1>15, <1>16, <2>1, WorkerTypes, Zenon
<1>18. TypeOK'
  BY <1>1, <1>17, Zenon DEF StartUpInv, TypeOK
<1>19. /\ at'[i] = k + 1 /\ table'[i] = t + p
       /\ pool_size'[i] = (16 + 2 * (t + p)) % 2^16
  BY <1>1, <1>3, <1>14, <1>15, WorkerTypes, Zenon
<1>20. Progress(i)'
  <2>1. Before(i, k + 1)' = Before(i, k + 1)
    BY <1>1 DEF Before, Part, Dealt, Owner
  <2>2. Counting(i)'
    BY <1>1, <1>3, <1>9, <1>13, <1>19, <2>1 DEF Counting
  <2>3. i >= next <=> FALSE
    BY <1>4, Basics
  <2> QED
    BY <1>1, <2>2, <2>3 DEF Progress
<1>21. \A j \in Worker \ {i} :
         UNCHANGED <<wpc[j], at[j], table[j], pool_size[j], slots[j]>>
  BY <1>1, <1>14, <1>15, WorkerTypes, Zenon
<1> QED
  BY <1>1, <1>18, <1>20, <1>21, TableStep

(* The pool is no smaller than what was counted; a worker without connections has
   nothing to set up. *)
LEMMA MakePoolKeeps ==
  ASSUME StartUpInv, NEW i \in Worker, MakePool(i)
  PROVE  StartUpInv'
<1>1. /\ wpc[i] = "count" /\ at[i] \notin Listener /\ UNCHANGED <<slots, table>>
      /\ at' = [at EXCEPT ![i] = 0]
      /\ pool_size' = [pool_size EXCEPT ![i] = Max({pool_size[i], 256})]
      /\ wpc' = [wpc EXCEPT ![i] =
                  IF table[i] = 0 THEN "serve"
                  ELSE IF Allocates(pool_size'[i], TablePages(table[i])) THEN "setup"
                  ELSE "stopped"]
      /\ UNCHANGED <<env, conf, ls, wdata, main>>
      /\ UNCHANGED <<os, total, cpus, lls, w_max, w_conns_size, pc, next, l>>
  BY DEF MakePool, env, conf, main
<1>2. Counting(i)
  BY <1>1 DEF StartUpInv, Progress
<1>3. PICK p : p = pool_size[i]
  OBVIOUS
<1>4. Max({p, 256}) \in 0 .. 2^16 - 1
  <2>1. p \in 0 .. 2^16 - 1
    BY <1>3, WorkerTypes, Zenon
  <2>2. 2^16 = 65536
    BY SMT
  <2>3. p \in Int /\ 256 \in Int
    BY ONLY <2>1
  <2>4. Max({p, 256}) = IF p >= 256 THEN p ELSE 256
    BY ONLY <2>3, MaxOfTwo
  <2> QED
    BY ONLY <2>1, <2>2, <2>4
<1>5. TypeOK'
  <2>1. /\ at' \in [Worker -> Nat] /\ pool_size' \in [Worker -> 0 .. 2^16 - 1]
        /\ wpc' \in [Worker -> {"none", "deal", "count", "setup", "serve", "stopped"}]
    BY <1>1, <1>3, <1>4, WorkerTypes, Zenon
  <2> QED
    BY <1>1, <2>1, Zenon DEF StartUpInv, TypeOK
<1>6. /\ at'[i] = 0 /\ table'[i] = table[i] /\ pool_size'[i] = Max({p, 256})
      /\ wpc'[i] = IF table[i] = 0 THEN "serve"
                   ELSE IF Allocates(pool_size'[i], TablePages(table[i])) THEN "setup"
                   ELSE "stopped"
      /\ slots'[i] = slots[i]
  BY <1>1, <1>3, WorkerTypes, Zenon
<1>7. at[i] = 2
  <2>1. at[i] \in 0 .. 2 /\ at[i] # 0 /\ at[i] # 1
    BY <1>1, <1>2, Basics DEF Counting
  <2> QED
    BY ONLY <2>1
<1>8. Counted(i)'
  <2>1. Before(i, 2)' = Before(i, 2)
    BY <1>1 DEF Before, Part, Dealt, Owner
  <2>2. table[i] = Before(i, 2) /\ p = (16 + 2 * table[i]) % 2^16
    BY <1>2, <1>3, <1>7 DEF Counting
  <2> QED
    BY <1>6, <2>1, <2>2 DEF Counted
<1>9. i < next /\ i \in Nat /\ \A k \in Listener : Part(i, k) \in Nat
  BY <1>1, Parts
<1>10. SettingUp(i)' /\ (wpc'[i] = "stopped" => Stopped(i)')
  <2>1. \A k \in Listener : slots'[i][k] = 0 /\ ~(k < 0)
    BY <1>2, <1>6, Basics DEF Counting
  <2>2. wpc'[i] = "stopped" => ~Allocates(pool_size'[i], TablePages(table'[i]))
    BY <1>6
  <2> QED
    BY <1>6, <1>8, <2>1, <2>2 DEF SettingUp, Stopped
<1>11. ASSUME table[i] = 0 PROVE Serving(i)'
  <2>1. Part(i, 0) \in Nat /\ Part(i, 1) \in Nat
    BY <1>9, Basics
  <2>2. Part(i, 0) + Part(i, 1) = 0
    BY <1>2, <1>7, <1>11 DEF Counting, Before
  <2>3. Part(i, 0) = 0 /\ Part(i, 1) = 0
    BY ONLY <2>1, <2>2
  <2>4. \A k \in Listener : Part(i, k) = 0
    BY <2>3, Basics
  <2>5. \A k \in Listener : Part(i, k)' = Part(i, k)
    BY <1>1 DEF Part, Dealt, Owner
  <2>6. \A k \in Listener : slots'[i][k] = 0
    BY <1>2, <1>6 DEF Counting
  <2> QED
    BY <1>8, <2>4, <2>5, <2>6 DEF Serving
<1>12. Progress(i)'
  <2>1. ~(i >= next)
    BY <1>9, Basics
  <2> QED
    BY <1>1, <1>6, <1>10, <1>11, <2>1 DEF Progress
<1>13. \A j \in Worker \ {i} :
         UNCHANGED <<wpc[j], at[j], table[j], pool_size[j], slots[j]>>
  BY <1>1, WorkerTypes, Zenon
<1> QED
  BY <1>1, <1>5, <1>6, <1>12, <1>13, TableStep

(* What is set up for a listener is what was counted for it. *)
LEMMA SetUpKeeps ==
  ASSUME StartUpInv, NEW i \in Worker, SetUp(i)
  PROVE  StartUpInv'
<1>1. /\ wpc[i] = "setup" /\ at[i] \in Listener /\ UNCHANGED <<wpc, table, pool_size>>
      /\ at' = [at EXCEPT ![i] = at[i] + 1]
      /\ UNCHANGED <<env, conf, ls, wdata, main>>
      /\ UNCHANGED <<os, total, cpus, lls, w_max, w_conns_size, pc, next, l>>
  BY DEF SetUp, env, conf, main
<1>2. PICK n : n = ls[at[i]].conn_size
  OBVIOUS
<1>3. PICK k \in {0, 1} : k = at[i]
  BY <1>1, Basics
<1>4. /\ k \in Listener /\ n \in Nat /\ n < 65536 /\ i < next /\ i \in Nat
  BY <1>1, <1>2, <1>3, Parts
<1>5. Mine(i, k) <=> Dealt(i, k)
  BY <1>1, <1>3, MineIsDealt
<1>6. SettingUp(i)
  BY <1>1 DEF StartUpInv, Progress
<1>7. \A j \in Listener : slots[i][j] = IF j < k THEN Part(i, j) ELSE 0
  BY <1>3, <1>6 DEF SettingUp
<1>8. PICK s : s = slots[i]
  OBVIOUS
<1>9. s \in [Listener -> 0 .. 2^16 - 1]
  BY <1>8, WorkerTypes, Zenon
<1>10. PICK p : p = Part(i, k)
  OBVIOUS
<1>11. p = IF Mine(i, k) THEN n ELSE 0
  BY <1>2, <1>3, <1>5, <1>10 DEF Part
<1>12. slots' = [slots EXCEPT ![i] = [s EXCEPT ![k] = p]]
  <2>1. CASE Mine(i, k)
    BY <1>2, <1>3, <1>8, <1>11, <2>1 DEF SetUp
  <2>2. CASE ~Mine(i, k)
    <3>1. s[k] = 0 /\ p = 0
      BY <1>3, <1>4, <1>7, <1>8, <1>11, <2>2
    <3>2. [s EXCEPT ![k] = p] = s
      BY <1>9, <3>1, Zenon
    <3>3. slots' = slots
      BY <1>3, <2>2 DEF SetUp
    <3> QED
      BY <1>8, <3>2, <3>3, WorkerTypes, Zenon
  <2> QED
    BY <2>1, <2>2
<1>13. p \in 0 .. 2^16 - 1
  <2>1. 2^16 = 65536
    BY SMT
  <2>2. p \in Nat /\ p < 65536
    BY <1>4, <1>11
  <2> QED
    BY ONLY <2>1, <2>2
<1>14. TypeOK'
  <2>1. at[i] + 1 \in Nat
    BY <1>3
  <2>2. [s EXCEPT ![k] = p] \in [Listener -> 0 .. 2^16 - 1]
    BY <1>9, <1>13, Zenon
  <2>3. /\ at' \in [Worker -> Nat] /\ slots' \in [Worker -> [Listener -> 0 .. 2^16 - 1]]
    BY <1>1, <1>12, <2>1, <2>2, WorkerTypes, Zenon
  <2> QED
    BY <1>1, <2>3, Zenon DEF StartUpInv, TypeOK
<1>15. /\ at'[i] = k + 1 /\ slots'[i] = [s EXCEPT ![k] = p]
  BY <1>1, <1>3, <1>12, WorkerTypes, Zenon
<1>16. SettingUp(i)'
  <2>1. /\ \A j \in Listener : Part(i, j)' = Part(i, j)
        /\ Before(i, 2)' = Before(i, 2)
    BY <1>1 DEF Before, Part, Dealt, Owner
  <2>2. Counted(i)'
    BY <1>1, <1>6, <2>1 DEF SettingUp, Counted
  <2>3. ASSUME NEW j \in Listener
        PROVE  slots'[i][j] = IF j < k + 1 THEN Part(i, j) ELSE 0
    <3>1. j \in {0, 1} /\ s[j] = IF j < k THEN Part(i, j) ELSE 0
      BY <1>7, <1>8, Basics
    <3>2. CASE j = k
      <4>1. slots'[i][j] = p
        BY <1>9, <1>15, <3>2, Zenon
      <4>2. j < k + 1
        BY ONLY <1>3, <3>2
      <4> QED
        BY <1>10, <3>2, <4>1, <4>2
    <3>3. CASE j # k
      <4>1. slots'[i][j] = s[j]
        BY <1>9, <1>15, <3>3, Zenon
      <4>2. j < k + 1 <=> j < k
        BY ONLY <1>3, <3>1, <3>3
      <4> QED
        BY <3>1, <4>1, <4>2
    <3> QED
      BY <3>2, <3>3
  <2>4. k + 1 \in 0 .. 2
    BY <1>3
  <2> QED
    BY <1>15, <2>1, <2>2, <2>3, <2>4 DEF SettingUp
<1>17. Progress(i)'
  <2>1. ~(i >= next)
    BY <1>4, Basics
  <2> QED
    BY <1>1, <1>16, <2>1 DEF Progress
<1>18. \A j \in Worker \ {i} :
         UNCHANGED <<wpc[j], at[j], table[j], pool_size[j], slots[j]>>
  BY <1>1, <1>12, WorkerTypes, Zenon
<1> QED
  BY <1>1, <1>14, <1>17, <1>18, TableStep

(* A worker serves when it has come past the table's end. *)
LEMMA EnterLoopKeeps ==
  ASSUME StartUpInv, NEW i \in Worker, EnterLoop(i)
  PROVE  StartUpInv'
<1>1. /\ wpc[i] = "setup" /\ at[i] \notin Listener
      /\ UNCHANGED <<at, table, pool_size, slots>>
      /\ wpc' = [wpc EXCEPT ![i] = "serve"]
      /\ UNCHANGED <<env, conf, ls, wdata, main>>
      /\ UNCHANGED <<os, total, cpus, lls, w_max, w_conns_size, pc, next, l>>
  BY DEF EnterLoop, env, conf, main, work
<1>2. SettingUp(i)
  BY <1>1 DEF StartUpInv, Progress
<1>3. at[i] = 2
  <2>1. at[i] \in 0 .. 2 /\ at[i] # 0 /\ at[i] # 1
    BY <1>1, <1>2, Basics DEF SettingUp
  <2> QED
    BY ONLY <2>1
<1>4. TypeOK'
  <2>1. wpc' \in [Worker -> {"none", "deal", "count", "setup", "serve", "stopped"}]
    BY <1>1, WorkerTypes, Zenon
  <2> QED
    BY <1>1, <2>1, Zenon DEF StartUpInv, TypeOK
<1>5. wpc'[i] = "serve"
  BY <1>1, WorkerTypes, Zenon
<1>6. Serving(i)'
  <2>1. /\ \A j \in Listener : Part(i, j)' = Part(i, j)
        /\ Before(i, 2)' = Before(i, 2)
    BY <1>1 DEF Before, Part, Dealt, Owner
  <2>2. Counted(i)'
    BY <1>1, <1>2, <2>1 DEF SettingUp, Counted
  <2>3. \A k \in Listener : slots'[i][k] = Part(i, k)
    BY <1>1, <1>2, <1>3, Basics DEF SettingUp
  <2> QED
    BY <2>1, <2>2, <2>3 DEF Serving
<1>7. Progress(i)'
  <2>1. ~(i >= next)
    BY <1>1, Basics, Parts
  <2> QED
    BY <1>1, <1>5, <1>6, <2>1 DEF Progress
<1>8. \A j \in Worker \ {i} :
         UNCHANGED <<wpc[j], at[j], table[j], pool_size[j], slots[j]>>
  BY <1>1, WorkerTypes, Zenon
<1> QED
  BY <1>1, <1>4, <1>5, <1>7, <1>8, TableStep

-----------------------------------------------------------------------------
(* A forked child deals to itself. *)

(* Nothing it does while it deals is seen by another worker. *)
LEMMA DealStep ==
  ASSUME StartUpInv, NEW i \in Worker, wpc[i] = "deal",
         UNCHANGED <<env, conf, ls, main, table, pool_size, slots>>,
         \A j \in Worker \ {i} : UNCHANGED <<wpc[j], at[j], wdata[j]>>,
         TypeOK', Progress(i)',
         \A k \in Listener :
           wdata'[i][k] = IF \/ wpc'[i] = "deal" /\ i <= k /\ k < i + at'[i]
                             \/ wpc'[i] \in {"count", "setup", "serve", "stopped"} /\ i <= k
                          THEN i ELSE None
  PROVE  StartUpInv'
<1>1. UNCHANGED <<os, total, cpus, lls, w_max, w_conns_size, ls, pc, next, l>>
  BY DEF env, conf, main
<1>2. os = "linux" /\ pc \in {"deal", "wait"}
  <2>1. wpc[i] # "none"
    OBVIOUS
  <2>2. os = "linux"
    BY DEF StartUpInv, Progress
  <2> QED
    BY <2>1, <2>2, Parts
<1>3. Config'
  <2>1. Config
    BY DEF StartUpInv
  <2> QED
    BY ONLY <1>1, <1>2, <2>1 DEF Config
<1>4. ASSUME NEW j \in Worker PROVE Progress(j)'
  <2>1. CASE j = i
    BY <2>1
  <2>2. CASE j # i
    <3>1. UNCHANGED <<wpc[j], at[j]>>
      BY <2>2
    <3>2. Progress(j)
      BY DEF StartUpInv
    <3>3. UNCHANGED <<os, w_max, ls, wpc[j], at[j], table[j], pool_size[j], slots[j]>>
          /\ (j >= next' <=> j >= next)
      BY <1>1, <3>1
    <3> QED
      BY ONLY <3>2, <3>3, ProgressElsewhere
  <2> QED
    BY <2>1, <2>2
<1>5. Processes'
  <2>1. Processes
    BY <1>2 DEF StartUpInv
  <2>2. ASSUME NEW j \in Worker, NEW k \in Listener
        PROVE  wdata'[j][k] = IF \/ wpc'[j] = "deal" /\ j <= k /\ k < j + at'[j]
                                 \/ wpc'[j] \in {"count", "setup", "serve", "stopped"} /\ j <= k
                              THEN j ELSE None
    <3>1. CASE j = i
      BY <3>1
    <3>2. CASE j # i
      <4>1. wpc'[j] = wpc[j] /\ at'[j] = at[j] /\ wdata'[j] = wdata[j]
        BY <3>2
      <4> QED
        BY <2>1, <4>1 DEF Processes
    <3> QED
      BY <3>1, <3>2
  <2> QED
    BY <2>2 DEF Processes
<1> QED
  BY <1>1, <1>2, <1>3, <1>4, <1>5 DEF StartUpInv

(* The type of the owners. *)
LEMMA OwnerTypes ==
  ASSUME StartUpInv
  PROVE  wdata \in [Worker -> [Listener -> {None} \cup Worker]]
  BY Zenon DEF StartUpInv, TypeOK

(* It takes every listener from its own number on. *)
LEMMA ListenInChildKeeps ==
  ASSUME StartUpInv, NEW i \in Worker, ListenInChild(i)
  PROVE  StartUpInv'
<1>1. /\ wpc[i] = "deal" /\ i + at[i] \in Listener /\ wpc' = wpc
      /\ at' = [at EXCEPT ![i] = at[i] + Stride]
      /\ UNCHANGED <<env, conf, ls, main, table, pool_size, slots>>
      /\ UNCHANGED <<os, total, cpus, lls, w_max, w_conns_size, pc, next, l>>
  BY DEF ListenInChild, env, conf, main, work
<1>2. os = "linux" /\ Fresh(i) /\ i < next /\ i \in Nat
  <2>1. wpc[i] # "none"
    BY <1>1
  <2> QED
    BY <1>1, <2>1, Parts DEF StartUpInv, Progress
<1>3. PICK k \in {0, 1} : k = i + at[i]
  BY <1>1, Basics
<1>4. PICK a \in Nat : a = at[i]
  BY WorkerTypes, Zenon
<1>5. PICK w : w = wdata[i]
  OBVIOUS
<1>6. w \in [Listener -> {None} \cup Worker] /\ k \in Listener
  BY <1>1, <1>3, <1>5, OwnerTypes
<1>7. wdata' = [wdata EXCEPT ![i] = [w EXCEPT ![k] = i]]
  BY <1>2, <1>3, <1>5 DEF ListenInChild, Deal, Copy
<1>8. at' = [at EXCEPT ![i] = a + 1]
  BY <1>1, <1>2, <1>4 DEF Stride
<1>9. /\ wdata' \in [Worker -> [Listener -> {None} \cup Worker]]
      /\ at' \in [Worker -> Nat] /\ at'[i] = a + 1
      /\ wdata'[i] = [w EXCEPT ![k] = i]
  <2>1. [w EXCEPT ![k] = i] \in [Listener -> {None} \cup Worker]
    BY <1>6
  <2>2. PICK v : v = [w EXCEPT ![k] = i]
    OBVIOUS
  <2>3. wdata' = [wdata EXCEPT ![i] = v] /\ v \in [Listener -> {None} \cup Worker]
    BY <1>7, <2>1, <2>2
  <2>4. wdata' \in [Worker -> [Listener -> {None} \cup Worker]] /\ wdata'[i] = v
    BY <2>3, OwnerTypes
  <2>5. at' \in [Worker -> Nat] /\ at'[i] = a + 1
    <3>1. PICK b \in Nat : b = a + 1
      BY <1>4
    <3>2. at' = [at EXCEPT ![i] = b]
      BY <1>8, <3>1
    <3> QED
      BY <3>1, <3>2, WorkerTypes, Zenon
  <2> QED
    BY <2>2, <2>4, <2>5
<1>10. TypeOK'
  BY <1>1, <1>9, Zenon DEF StartUpInv, TypeOK
<1>11. Progress(i)'
  <2>1. a + 1 <= 2
    BY <1>2, <1>3, <1>4
  <2>2. Fresh(i)'
    BY <1>1, <1>2 DEF Fresh
  <2>3. ~(i >= next)
    BY <1>2, Basics
  <2> QED
    BY <1>1, <1>2, <1>9, <2>1, <2>2, <2>3 DEF Progress
<1>12. ASSUME NEW j \in Listener
       PROVE  wdata'[i][j] = IF \/ wpc'[i] = "deal" /\ i <= j /\ j < i + at'[i]
                                \/ wpc'[i] \in {"count", "setup", "serve", "stopped"} /\ i <= j
                             THEN i ELSE None
  <2>1. w[j] = IF i <= j /\ j < i + a THEN i ELSE None
    BY <1>1, <1>2, <1>4, <1>5 DEF StartUpInv, Processes
  <2>2. wdata'[i][j] = IF j = k THEN i ELSE w[j]
    BY <1>6, <1>9
  <2>3. j \in {0, 1}
    BY Basics
  <2>4. (i <= j /\ j < i + (a + 1)) <=> (i <= j /\ j < i + a) \/ j = k
    BY ONLY <1>2, <1>3, <1>4, <2>3
  <2> QED
    BY <1>1, <1>9, <2>1, <2>2, <2>4
<1>13. \A j \in Worker \ {i} : UNCHANGED <<wpc[j], at[j], wdata[j]>>
  BY <1>1, <1>7, <1>8, OwnerTypes, WorkerTypes, Zenon
<1> QED
  BY <1>1, <1>10, <1>11, <1>12, <1>13, DealStep

(* It counts when it has dealt itself all. *)
LEMMA EnterWorkerKeeps ==
  ASSUME StartUpInv, NEW i \in Worker, EnterWorker(i)
  PROVE  StartUpInv'
<1>1. /\ wpc[i] = "deal" /\ i + at[i] \notin Listener /\ wdata' = wdata
      /\ wpc' = [wpc EXCEPT ![i] = "count"] /\ at' = [at EXCEPT ![i] = 0]
      /\ UNCHANGED <<env, conf, ls, main, table, pool_size, slots>>
      /\ UNCHANGED <<os, total, cpus, lls, w_max, w_conns_size, pc, next, l>>
  BY DEF EnterWorker, env, conf, main, work
<1>2. os = "linux" /\ Fresh(i) /\ i < next /\ i \in Nat
  <2>1. wpc[i] # "none"
    BY <1>1
  <2> QED
    BY <1>1, <2>1, Parts DEF StartUpInv, Progress
<1>3. PICK a \in Nat : a = at[i]
  BY WorkerTypes, Zenon
<1>4. i + a >= 2
  <2>1. i + a # 0 /\ i + a # 1
    BY <1>1, <1>3, Basics
  <2> QED
    BY ONLY <1>2, <1>3, <2>1
<1>5. wpc'[i] = "count" /\ at'[i] = 0
  BY <1>1, WorkerTypes, Zenon
<1>6. TypeOK'
  <2>1. /\ at' \in [Worker -> Nat]
        /\ wpc' \in [Worker -> {"none", "deal", "count", "setup", "serve", "stopped"}]
    BY <1>1, WorkerTypes, Zenon
  <2> QED
    BY <1>1, <2>1, Zenon DEF StartUpInv, TypeOK
<1>7. Counting(i)'
  <2>1. Before(i, 0)' = 0
    BY DEF Before
  <2>2. (16 + 2 * 0) % 2^16 = 16
    <3>1. 2^16 = 65536
      BY SMT
    <3> QED
      BY ONLY <3>1
  <2>3. /\ table'[i] = 0 /\ pool_size'[i] = 16
        /\ \A k \in Listener : slots'[i][k] = 0
    BY <1>1, <1>2 DEF Fresh
  <2> QED
    BY <1>5, <2>1, <2>2, <2>3 DEF Counting
<1>8. Progress(i)'
  <2>1. ~(i >= next)
    BY <1>2, Basics
  <2> QED
    BY <1>1, <1>5, <1>7, <2>1 DEF Progress
<1>9. ASSUME NEW j \in Listener
      PROVE  wdata'[i][j] = IF \/ wpc'[i] = "deal" /\ i <= j /\ j < i + at'[i]
                               \/ wpc'[i] \in {"count", "setup", "serve", "stopped"} /\ i <= j
                            THEN i ELSE None
  <2>1. wdata[i][j] = IF i <= j /\ j < i + a THEN i ELSE None
    BY <1>1, <1>2, <1>3 DEF StartUpInv, Processes
  <2>2. j < i + a
    <3>1. j \in {0, 1}
      BY Basics
    <3> QED
      BY ONLY <1>2, <1>3, <1>4, <3>1
  <2> QED
    BY <1>1, <1>5, <2>1, <2>2
<1>10. \A j \in Worker \ {i} : UNCHANGED <<wpc[j], at[j], wdata[j]>>
  BY <1>1, WorkerTypes, Zenon
<1> QED
  BY <1>1, <1>6, <1>8, <1>9, <1>10, DealStep

-----------------------------------------------------------------------------
(* The main thread, or the parent process. *)

(* The listeners whose number of connections is fixed leave the rest to the
   only other one. *)
LEMMA ShareOfRest ==
  ASSUME StartUpInv
  PROVE  Share = (total - 4) % 2^16 /\ Share \in 0 .. 2^16 - 1
<1>1. DOMAIN lls = {1, 2} /\ lls[1].conns_size = 0 /\ lls[2].conns_size = 4
  BY DEF StartUpInv, Config
<1>2. {k \in DOMAIN lls : lls[k].conns_size = 0} = {1}
  BY <1>1
<1>3. Cardinality({k \in DOMAIN lls : lls[k].conns_size = 0}) = 1
  BY <1>2, FS_Singleton
<1>4. total \in Int
  <2>1. total \in Totals
    BY Zenon DEF StartUpInv, TypeOK
  <2>2. Totals \subseteq 0 .. 2^16 - 1
    BY StartUpAssumption, Zenon
  <2>3. total \in 0 .. 2^16 - 1
    BY ONLY <2>1, <2>2, Zenon
  <2> QED
    BY ONLY <2>3
<1>5. lls[1].conns_size + lls[2].conns_size = 4
  BY <1>1
<1>6. PICK rest : rest = (total - 4) % 2^16
  OBVIOUS
<1>7. rest \in 0 .. 2^16 - 1 /\ rest \div 1 = rest
  <2>1. 2^16 = 65536
    BY SMT
  <2> QED
    BY ONLY <1>4, <1>6, <2>1
<1>8. Share = rest \div 1
  BY <1>3, <1>5, <1>6 DEF Share
<1> QED
  BY <1>6, <1>7, <1>8

(* Before there is a worker. *)
LEMMA NoWorkerYet ==
  ASSUME StartUpInv, next = 0
  PROVE  \A i \in Worker : wpc[i] = "none" /\ Fresh(i) /\ at[i] = 0 /\ i >= next
<1> SUFFICES ASSUME NEW i \in Worker
             PROVE  wpc[i] = "none" /\ Fresh(i) /\ at[i] = 0 /\ i >= next
  OBVIOUS
<1>1. i \in Nat
  BY Basics
<1>2. i >= next
  BY ONLY <1>1, next = 0
<1> QED
  BY <1>2 DEF StartUpInv, Progress

(* The configuration is loaded before there is a worker. *)
LEMMA LoadConfigKeeps ==
  ASSUME StartUpInv, LoadConfig
  PROVE  StartUpInv'
<1>1. /\ pc = "load" /\ pc' = "listeners" /\ w_max' = cpus % 2^8 /\ w_conns_size' = Share
      /\ UNCHANGED <<os, cpus, total, lls, ls, wdata, next, l, wpc, at>>
      /\ UNCHANGED <<table, pool_size, slots>>
  BY DEF LoadConfig, env, work
<1>2. next = 0 /\ l = 0 /\ \A i \in Worker, k \in Listener : wdata[i][k] = None
  BY <1>1 DEF StartUpInv, Config
<1>3. w_max' \in Nat /\ w_max' \in 0 .. 2^8 - 1
  <2>1. cpus \in CpuCounts
    BY Zenon DEF StartUpInv, TypeOK
  <2>2. cpus \in Nat
    BY <2>1, Workers
  <2>3. 2^8 = 256
    BY SMT
  <2>4. w_max' = cpus % 2^8
    BY <1>1
  <2> QED
    BY ONLY <2>2, <2>3, <2>4
<1>4. TypeOK'
  <2>1. 0 \in 0 .. w_max'
    BY ONLY <1>3
  <2>2. w_conns_size' \in 0 .. 2^16 - 1
    BY <1>1, ShareOfRest
  <2> QED
    BY <1>1, <1>2, <1>3, <2>1, <2>2, Zenon DEF StartUpInv, TypeOK
<1>5. Config'
  BY <1>1, <1>2, ShareOfRest DEF StartUpInv, Config
<1>6. \A i \in Worker : Progress(i)'
  <2>1. \A i \in Worker : Fresh(i)' = Fresh(i)
    BY <1>1 DEF Fresh
  <2> QED
    BY <1>1, <1>2, <2>1, NoWorkerYet DEF Progress
<1>7. Threads'
  <2>1. \A k \in Listener : ~(Owner(k)' < 0)
    BY Basics DEF Owner
  <2> QED
    BY <1>1, <1>2, <2>1, Basics DEF Threads
<1>8. Processes'
  BY <1>1, <1>2, NoWorkerYet DEF Processes
<1> QED
  BY <1>4, <1>5, <1>6, <1>7, <1>8 DEF StartUpInv

(* So are the listeners. *)
LEMMA ConfigureListenersKeeps ==
  ASSUME StartUpInv, ConfigureListeners
  PROVE  StartUpInv'
<1>1. /\ pc = "listeners" /\ pc' = IF w_max = 0 THEN "wait" ELSE "deal"
      /\ UNCHANGED <<os, cpus, total, lls, w_max, w_conns_size, wdata, next, l, wpc, at>>
      /\ UNCHANGED <<table, pool_size, slots>>
  BY DEF ConfigureListeners, env, conf, work
<1>2. next = 0 /\ l = 0 /\ \A i \in Worker, k \in Listener : wdata[i][k] = None
  BY <1>1 DEF StartUpInv, Config
<1>3. TypeOK'
  BY <1>1, Zenon DEF StartUpInv, TypeOK
<1>4. ls'[0].conn_size = w_conns_size /\ ls'[1].conn_size = 4
  <2>1. 0 \in Listener /\ 1 \in Listener /\ 0 + 1 = 1 /\ 1 + 1 = 2
    BY Basics
  <2>2. lls[1].conns_size = 0 /\ lls[2].conns_size = 4
    BY DEF StartUpInv, Config
  <2>3. /\ ls'[0].conn_size = IF lls[1].conns_size # 0 THEN lls[1].conns_size ELSE w_conns_size
        /\ ls'[1].conn_size = IF lls[2].conns_size # 0 THEN lls[2].conns_size ELSE w_conns_size
    BY <2>1 DEF ConfigureListeners
  <2> QED
    BY <2>2, <2>3
<1>5. Config'
  <2>1. w_max # 0 => 0 < w_max
    BY Basics
  <2> QED
    BY <1>1, <1>2, <1>4, <2>1 DEF StartUpInv, Config
<1>6. \A i \in Worker : Progress(i)'
  <2>1. \A i \in Worker : Fresh(i)' = Fresh(i)
    BY <1>1 DEF Fresh
  <2> QED
    BY <1>1, <1>2, <2>1, NoWorkerYet DEF Progress
<1>7. Threads'
  <2>1. \A k \in Listener : ~(Owner(k)' < 0) /\ ~(k < 0)
    BY Basics DEF Owner
  <2> QED
    BY <1>1, <1>2, <2>1, Basics DEF Threads
<1>8. Processes'
  BY <1>1, <1>2, NoWorkerYet DEF Processes
<1> QED
  BY <1>3, <1>5, <1>6, <1>7, <1>8 DEF StartUpInv

(* There is a worker left to create. *)
LEMMA NextWorker ==
  ASSUME StartUpInv, pc = "deal"
  PROVE  next < w_max /\ next \in Worker
<1>1. next < w_max
  BY DEF StartUpInv, Config
<1>2. cpus \in Nat \ {0} /\ \A i \in 0 .. cpus - 1 : i \in Worker
  <2>1. cpus \in CpuCounts
    BY Zenon DEF StartUpInv, TypeOK
  <2> QED
    BY <2>1, Workers
<1>3. next \in 0 .. cpus - 1
  <2>1. w_max = cpus % 2^8
    BY DEF StartUpInv, Config
  <2>2. 2^8 = 256
    BY SMT
  <2>3. w_max <= cpus
    BY ONLY <1>2, <2>1, <2>2
  <2>4. next \in Nat /\ w_max \in Nat
    BY Basics
  <2> QED
    BY ONLY <1>1, <1>2, <2>3, <2>4
<1> QED
  BY <1>1, <1>2, <1>3

(* The main thread deals on, behind the back of the threads it has created. *)
LEMMA DealToThreadKeeps ==
  ASSUME StartUpInv, DealToThread
  PROVE  StartUpInv'
<1>1. /\ os = "windows" /\ pc = "deal" /\ l \in Listener /\ l' = l + w_max
      /\ wdata' = [wdata EXCEPT ![0][l] = next]
      /\ UNCHANGED <<os, cpus, total, lls, w_max, w_conns_size, ls, pc, next, wpc, at>>
      /\ UNCHANGED <<table, pool_size, slots>>
  BY DEF DealToThread, Deal, Copy, Stride, env, conf, work
<1>2. next < w_max /\ next \in Worker /\ next \in Nat /\ w_max \in Nat /\ l \in {0, 1}
  BY <1>1, NextWorker, Basics
<1>3. Threads
  BY <1>1 DEF StartUpInv
<1>4. l = next \/ (w_max = 1 /\ next = 0 /\ l = 1)
  <2>1. l = next \/ l = next + w_max \/ (w_max = 1 /\ l = 2)
    BY <1>1, <1>3 DEF Threads
  <2> QED
    BY ONLY <1>2, <2>1
<1>5. PICK w : w = wdata[0]
  OBVIOUS
<1>6. w \in [Listener -> {None} \cup Worker]
  BY <1>5, OwnerTypes, Basics
<1>7. PICK v : v = [w EXCEPT ![l] = next]
  OBVIOUS
<1>8. v \in [Listener -> {None} \cup Worker] /\ wdata' = [wdata EXCEPT ![0] = v]
  BY <1>1, <1>2, <1>5, <1>6, <1>7
<1>9. wdata' \in [Worker -> [Listener -> {None} \cup Worker]] /\ wdata'[0] = v
  BY <1>8, OwnerTypes, Basics
<1>10. l' \in Nat
  BY ONLY <1>1, <1>2
<1>11. TypeOK'
  BY <1>1, <1>9, <1>10, Zenon DEF StartUpInv, TypeOK
<1>12. Config'
  BY <1>1 DEF StartUpInv, Config
<1>13. \A i \in Worker : Progress(i)'
  <2> SUFFICES ASSUME NEW i \in Worker PROVE Progress(i)'
    OBVIOUS
  <2>1. Progress(i)
    BY DEF StartUpInv
  <2>2. UNCHANGED <<os, w_max, ls, wpc[i], at[i], table[i], pool_size[i], slots[i]>>
        /\ (i >= next' <=> i >= next)
    BY <1>1
  <2> QED
    BY ONLY <2>1, <2>2, ProgressElsewhere
<1>14. l' = next + w_max \/ (w_max = 1 /\ l' = 2)
  BY ONLY <1>1, <1>2, <1>4
<1>15. ASSUME NEW k \in Listener
       PROVE  wdata'[0][k] = IF Owner(k) < next \/ (Owner(k) = next /\ k < l')
                             THEN Owner(k) ELSE None
  <2>1. k \in {0, 1}
    BY Basics
  <2>2. PICK o : o = Owner(k)
    OBVIOUS
  <2>3. o = IF w_max = 1 THEN 0 ELSE k
    BY <2>2 DEF Owner
  <2>4. w[k] = IF o < next \/ (o = next /\ k < l) THEN o ELSE None
    BY <1>1, <1>3, <1>5, <2>2 DEF Threads
  <2>5. CASE k = l
    <3>1. v[k] = next
      BY <1>6, <1>7, <2>5
    <3>2. o = next /\ k < l'
      BY ONLY <1>1, <1>2, <1>4, <2>1, <2>3, <2>5
    <3> QED
      BY <1>9, <2>2, <3>1, <3>2
  <2>6. CASE k # l
    <3>1. v[k] = w[k]
      BY <1>6, <1>7, <2>6
    <3>2. (o = next /\ k < l) <=> (o = next /\ k < l')
      BY ONLY <1>1, <1>2, <1>4, <2>1, <2>3, <2>6
    <3> QED
      BY <1>9, <2>2, <2>4, <3>1, <3>2
  <2> QED
    BY <2>5, <2>6
<1>16. Threads'
  <2>1. \A k \in Listener : Owner(k)' = Owner(k)
    BY <1>1 DEF Owner
  <2> QED
    BY <1>1, <1>14, <1>15, <2>1 DEF Threads
<1> QED
  BY <1>1, <1>11, <1>12, <1>13, <1>16 DEF StartUpInv

(* A worker that is created has done nothing yet. *)
LEMMA CreateKeeps ==
  ASSUME StartUpInv, pc = "deal", NEW start \in {"count", "deal"}, Create(next, start),
         start = "deal" => os = "linux"
  PROVE  /\ TypeOK' /\ Config' /\ \A i \in Worker : Progress(i)'
         /\ wpc' = [wpc EXCEPT ![next] = start] /\ wpc[next] = "none"
         /\ next' = next + 1 /\ l' = next + 1 /\ pc' \in {"deal", "wait"}
         /\ UNCHANGED <<os, cpus, total, lls, w_max, w_conns_size, ls, wdata, at>>
         /\ UNCHANGED <<table, pool_size, slots>>
<1>1. /\ wpc' = [wpc EXCEPT ![next] = start]
      /\ next' = next + 1 /\ l' = next + 1
      /\ pc' = IF next' = w_max THEN "wait" ELSE "deal"
      /\ UNCHANGED <<os, cpus, total, lls, w_max, w_conns_size, ls, wdata, at>>
      /\ UNCHANGED <<table, pool_size, slots>>
  BY DEF Create, env, conf, work
<1>2. next < w_max /\ next \in Worker /\ next \in Nat /\ w_max \in Nat
  BY NextWorker, Basics
<1>3. wpc[next] = "none" /\ Fresh(next) /\ at[next] = 0
  <2>1. next >= next
    BY ONLY <1>2
  <2> QED
    BY <1>2, <2>1 DEF StartUpInv, Progress
<1>4. next' \in 0 .. w_max /\ l' \in Nat /\ (next' # w_max => next' < w_max)
  BY ONLY <1>1, <1>2
<1>5. TypeOK'
  <2>1. wpc' \in [Worker -> {"none", "deal", "count", "setup", "serve", "stopped"}]
    BY <1>1, <1>2, WorkerTypes, Zenon
  <2> QED
    BY <1>1, <1>4, <2>1, Zenon DEF StartUpInv, TypeOK
<1>6. Config'
  BY <1>1, <1>4 DEF StartUpInv, Config
<1>7. ASSUME NEW i \in Worker PROVE Progress(i)'
  <2>1. i \in Nat
    BY Basics
  <2>2. CASE i = next
    <3>1. wpc'[i] = start /\ ~(i >= next')
      <4>1. ~(i >= next')
        BY ONLY <1>1, <1>2, <2>2
      <4> QED
        BY <1>1, <1>2, <2>2, <4>1, WorkerTypes, Zenon
    <3>2. Fresh(i)' /\ at'[i] = 0
      BY <1>1, <1>3, <2>2 DEF Fresh
    <3>3. Counting(i)'
      <4>1. Before(i, 0)' = 0
        BY DEF Before
      <4>2. (16 + 2 * 0) % 2^16 = 16
        <5>1. 2^16 = 65536
          BY SMT
        <5> QED
          BY ONLY <5>1
      <4>3. /\ table'[i] = 0 /\ pool_size'[i] = 16
            /\ \A k \in Listener : slots'[i][k] = 0
        BY <3>2 DEF Fresh
      <4> QED
        BY <3>2, <4>1, <4>2, <4>3 DEF Counting
    <3> QED
      BY <1>1, <3>1, <3>2, <3>3 DEF Progress
  <2>3. CASE i # next
    <3>1. i >= next' <=> i >= next
      BY ONLY <1>1, <1>2, <2>1, <2>3
    <3>2. Progress(i)
      BY DEF StartUpInv
    <3>3. wpc'[i] = wpc[i]
      BY <1>1, <2>3, WorkerTypes, Zenon
    <3>4. UNCHANGED <<os, w_max, ls, wpc[i], at[i], table[i], pool_size[i], slots[i]>>
      BY <1>1, <3>3
    <3> QED
      BY ONLY <3>1, <3>2, <3>4, ProgressElsewhere
  <2> QED
    BY <2>2, <2>3
<1> QED
  BY <1>1, <1>3, <1>5, <1>6, <1>7

(* A thread is created when all its listeners are dealt to it. *)
LEMMA CreateThreadKeeps ==
  ASSUME StartUpInv, CreateThread
  PROVE  StartUpInv'
<1>1. os = "windows" /\ pc = "deal" /\ l \notin Listener /\ Create(next, "count")
  BY DEF CreateThread
<1>2. /\ TypeOK' /\ Config' /\ \A i \in Worker : Progress(i)'
      /\ next' = next + 1 /\ l' = next + 1 /\ pc' \in {"deal", "wait"}
      /\ UNCHANGED <<os, w_max, wdata>>
  BY <1>1, CreateKeeps
<1>3. Threads
  BY <1>1 DEF StartUpInv
<1>4. next \in Nat /\ l \in Nat /\ l # 0 /\ l # 1
  BY <1>1, Basics
<1>5. ASSUME NEW k \in Listener
      PROVE  wdata'[0][k] = IF Owner(k) < next' \/ (pc' = "deal" /\ Owner(k) = next' /\ k < l')
                            THEN Owner(k) ELSE None
  <2>1. k \in {0, 1}
    BY Basics
  <2>2. PICK o : o = Owner(k)
    OBVIOUS
  <2>3. o = 0 \/ o = k
    BY <2>2 DEF Owner
  <2>4. wdata[0][k] = IF o < next \/ (o = next /\ k < l) THEN o ELSE None
    BY <1>1, <1>3, <2>2 DEF Threads
  <2>5. (o < next \/ (o = next /\ k < l)) <=> (o < next + 1)
    BY ONLY <1>4, <2>1, <2>3
  <2>6. ~(o = next + 1 /\ k < next + 1)
    BY ONLY <1>4, <2>1, <2>3
  <2> QED
    BY <1>2, <2>2, <2>4, <2>5, <2>6
<1>6. Threads'
  <2>1. \A k \in Listener : Owner(k)' = Owner(k)
    BY <1>2 DEF Owner
  <2> QED
    BY <1>2, <1>5, <2>1 DEF Threads
<1> QED
  BY <1>1, <1>2, <1>6 DEF StartUpInv

(* A forked child has dealt itself nothing. *)
LEMMA ForkKeeps ==
  ASSUME StartUpInv, Fork
  PROVE  StartUpInv'
<1>1. os = "linux" /\ pc = "deal" /\ Create(next, "deal")
  BY DEF Fork
<1>2. /\ TypeOK' /\ Config' /\ \A i \in Worker : Progress(i)'
      /\ wpc' = [wpc EXCEPT ![next] = "deal"] /\ wpc[next] = "none"
      /\ UNCHANGED <<os, wdata, at>>
  BY <1>1, CreateKeeps
<1>3. Processes
  BY <1>1 DEF StartUpInv
<1>4. ASSUME NEW i \in Worker, NEW k \in Listener
      PROVE  wdata'[i][k] = IF \/ wpc'[i] = "deal" /\ i <= k /\ k < i + at'[i]
                               \/ wpc'[i] \in {"count", "setup", "serve", "stopped"} /\ i <= k
                            THEN i ELSE None
  <2>1. CASE i = next
    <3>1. wpc'[i] = "deal"
      BY <1>2, <2>1, WorkerTypes, Zenon
    <3>2. at[i] = 0
      BY <1>2, <2>1 DEF StartUpInv, Progress
    <3>3. ~(i <= k /\ k < i + 0)
      <4>1. i \in Nat /\ k \in {0, 1}
        BY Basics
      <4> QED
        BY ONLY <4>1
    <3>4. wdata[i][k] = None
      BY <1>2, <1>3, <2>1 DEF Processes
    <3> QED
      BY <1>2, <3>1, <3>2, <3>3, <3>4
  <2>2. CASE i # next
    <3>1. wpc'[i] = wpc[i]
      BY <1>2, <2>2, WorkerTypes, Zenon
    <3> QED
      BY <1>2, <1>3, <3>1 DEF Processes
  <2> QED
    BY <2>1, <2>2
<1>5. Processes'
  BY <1>4 DEF Processes
<1> QED
  BY <1>1, <1>2, <1>5 DEF StartUpInv

-----------------------------------------------------------------------------
(* The invariant. *)

(* Nothing is dealt before the start. *)
LEMMA StartUpInvInit ==
  ASSUME Init
  PROVE  StartUpInv
<1>1. /\ os \in Systems /\ cpus \in CpuCounts /\ total \in Totals
      /\ w_max = 0 /\ w_conns_size = 0 /\ pc = "load" /\ next = 0 /\ l = 0
      /\ wdata = [i \in Worker |-> [k \in Listener |-> None]]
      /\ wpc = [i \in Worker |-> "none"] /\ at = [i \in Worker |-> 0]
      /\ table = [i \in Worker |-> 0] /\ pool_size = [i \in Worker |-> 16]
      /\ slots = [i \in Worker |-> [k \in Listener |-> 0]]
  BY DEF Init
<1>2. 0 \in 0 .. 2^8 - 1 /\ 0 \in 0 .. 2^16 - 1 /\ 16 \in 0 .. 2^16 - 1 /\ 0 \in 0 .. 0
  <2>1. 2^8 = 256 /\ 2^16 = 65536
    BY SMT
  <2> QED
    BY ONLY <2>1
<1>3. TypeOK
  BY <1>1, <1>2 DEF TypeOK
<1>4. Config
  <2>1. PICK p : lls = <<[scheme |-> "http", port |-> <<9, 0, 8, 1>>, conns_size |-> 0],
                         [scheme |-> "ainc", port |-> p, conns_size |-> 4]>>
    BY DEF Init
  <2>2. DOMAIN lls = {1, 2} /\ lls[1].conns_size = 0 /\ lls[2].conns_size = 4
    BY <2>1
  <2> QED
    BY <1>1, <2>2 DEF Config
<1>5. \A i \in Worker : i \in Nat /\ i >= 0
  BY Workers
<1>6. \A i \in Worker : Progress(i)
  BY <1>1, <1>5 DEF Progress, Fresh
<1>7. Threads
  <2>1. \A k \in Listener : ~(Owner(k) < 0)
    BY DEF Owner, Listener
  <2> QED
    BY <1>1, <2>1, Workers DEF Threads
<1>8. Processes
  BY <1>1 DEF Processes
<1> QED
  BY <1>3, <1>4, <1>6, <1>7, <1>8 DEF StartUpInv

(* Every step of the main thread and of every worker keeps the invariant. *)
LEMMA StartUpInvNext ==
  ASSUME StartUpInv, [Next]_vars
  PROVE  StartUpInv'
<1>1. ASSUME NEW i \in Worker,
             \/ ListenInChild(i) \/ EnterWorker(i)
             \/ Count(i) \/ MakePool(i) \/ SetUp(i) \/ EnterLoop(i)
      PROVE  StartUpInv'
  BY <1>1, ListenInChildKeeps, EnterWorkerKeeps, CountKeeps, MakePoolKeeps,
     SetUpKeeps, EnterLoopKeeps
<1>2. ASSUME UNCHANGED vars PROVE StartUpInv'
  <2>1. /\ UNCHANGED <<os, cpus, total, lls, w_max, w_conns_size, ls, wdata, pc, next, l>>
        /\ UNCHANGED <<wpc, at, table, pool_size, slots>>
    BY <1>2 DEF vars, env, conf, main, work
  <2>2. TypeOK' /\ Config' /\ Threads' = Threads /\ Processes' = Processes
    BY <2>1, ZenonT(40) DEF StartUpInv, TypeOK, Config, Threads, Owner, Processes
  <2>3. ASSUME NEW i \in Worker PROVE Progress(i)'
    <3>1. Progress(i)
      BY DEF StartUpInv
    <3>2. UNCHANGED <<os, w_max, ls, wpc[i], at[i], table[i], pool_size[i], slots[i]>>
          /\ (i >= next' <=> i >= next)
      BY <2>1
    <3> QED
      BY ONLY <3>1, <3>2, ProgressElsewhere
  <2> QED
    BY <2>1, <2>2, <2>3 DEF StartUpInv
<1> QED
  BY <1>1, <1>2, LoadConfigKeeps, ConfigureListenersKeeps, DealToThreadKeeps,
     CreateThreadKeeps, ForkKeeps DEF Next

(* A worker's connections are among those it counted, and these among all. *)
LEMMA WorkerBounds ==
  ASSUME StartUpInv, NEW i \in Worker
  PROVE  /\ table[i] \in Nat /\ Slots(i) \in Nat /\ Slots(i) <= table[i]
         /\ total >= 4 => table[i] <= total
<1>1. /\ table[i] \in Nat /\ 0 \in Listener /\ 1 \in Listener
      /\ wpc[i] \in {"none", "deal", "count", "setup", "serve", "stopped"}
  <2>1. table[i] \in Nat /\ wpc[i] \in {"none", "deal", "count", "setup", "serve", "stopped"}
    BY WorkerTypes, Zenon
  <2>2. 0 \in Listener /\ 1 \in Listener
    BY Basics
  <2> QED
    BY <2>1, <2>2
<1>2. total \in Nat /\ total < 65536 /\ 2^16 = 65536
  <2>1. total \in Totals
    BY Zenon DEF StartUpInv, TypeOK
  <2>2. total \in 0 .. 2^16 - 1
    BY <2>1, StartUpAssumption, Zenon
  <2>3. 2^16 = 65536
    BY SMT
  <2> QED
    BY ONLY <2>2, <2>3
<1>3. CASE wpc[i] \in {"none", "deal"}
  <2>1. Fresh(i)
    BY <1>3 DEF StartUpInv, Progress
  <2>2. table[i] = 0 /\ slots[i][0] = 0 /\ slots[i][1] = 0
    BY <1>1, <2>1 DEF Fresh
  <2> QED
    BY <1>2, <2>2 DEF Slots
<1>4. CASE wpc[i] \in {"count", "setup", "serve", "stopped"}
  <2>1. wpc[i] # "none"
    BY <1>4
  <2>2. PICK p \in Nat, q \in Nat : p = Part(i, 0) /\ q = Part(i, 1)
    BY <1>1, <2>1, Parts
  <2>3. total >= 4 => p + q <= total
    <3>1. ls[0].conn_size = (total - 4) % 2^16 /\ ls[1].conn_size = 4
      BY <2>1, Parts DEF StartUpInv, Config
    <3>2. total >= 4 => (total - 4) % 2^16 = total - 4
      BY ONLY <1>2
    <3>3. (p = ls[0].conn_size \/ p = 0) /\ (q = ls[1].conn_size \/ q = 0)
      BY <2>2 DEF Part
    <3>4. total >= 4 => (p = total - 4 \/ p = 0) /\ (q = 4 \/ q = 0)
      BY <3>1, <3>2, <3>3
    <3> QED
      BY ONLY <1>2, <2>2, <3>4
  <2>4. PICK a : a = at[i]
    OBVIOUS
  <2>5. CASE wpc[i] = "count"
    <3>1. Counting(i)
      BY <2>5 DEF StartUpInv, Progress
    <3>2. a \in 0 .. 2
      BY <2>4, <3>1 DEF Counting
    <3>3. table[i] = (IF a > 0 THEN p ELSE 0) + (IF a > 1 THEN q ELSE 0)
      BY <2>2, <2>4, <3>1 DEF Counting, Before
    <3>4. Slots(i) = 0
      <4>1. slots[i][0] = 0 /\ slots[i][1] = 0
        BY <1>1, <3>1 DEF Counting
      <4> QED
        BY <4>1 DEF Slots
    <3> QED
      BY ONLY <1>1, <1>2, <2>2, <2>3, <3>2, <3>3, <3>4
  <2>6. CASE wpc[i] = "setup"
    <3>1. SettingUp(i)
      BY <2>6 DEF StartUpInv, Progress
    <3>2. a \in 0 .. 2
      BY <2>4, <3>1 DEF SettingUp
    <3>3. table[i] = p + q
      BY <2>2, <3>1 DEF SettingUp, Counted, Before
    <3>4. Slots(i) = (IF 0 < a THEN p ELSE 0) + (IF 1 < a THEN q ELSE 0)
      BY <1>1, <2>2, <2>4, <3>1 DEF SettingUp, Slots
    <3> QED
      BY ONLY <1>1, <1>2, <2>2, <2>3, <3>2, <3>3, <3>4
  <2>7. CASE wpc[i] = "stopped"
    <3>1. Stopped(i)
      BY <2>7 DEF StartUpInv, Progress
    <3>2. table[i] = p + q
      BY <2>2, <3>1 DEF Stopped, Counted, Before
    <3>3. Slots(i) = 0
      BY <1>1, <3>1 DEF Stopped, Slots
    <3> QED
      BY ONLY <1>1, <1>2, <2>2, <2>3, <3>2, <3>3
  <2>8. CASE wpc[i] = "serve"
    <3>1. Serving(i)
      BY <2>8 DEF StartUpInv, Progress
    <3>2. table[i] = p + q
      BY <2>2, <3>1 DEF Serving, Counted, Before
    <3>3. Slots(i) = p + q
      BY <1>1, <2>2, <3>1 DEF Serving, Slots
    <3> QED
      BY ONLY <1>1, <1>2, <2>2, <2>3, <3>2, <3>3
  <2> QED
    BY <1>4, <2>5, <2>6, <2>7, <2>8
<1> QED
  BY <1>1, <1>3, <1>4

-----------------------------------------------------------------------------
(* What this says of the server, for any number of processors. *)

(* The main process and the workers keep to their types: w_max, a uint8_t, and
   the sizes, uint16_t, included. *)
THEOREM TypeCorrect == Spec => []TypeOK
<1>1. StartUpInv => TypeOK
  BY DEF StartUpInv
<1> QED
  BY <1>1, StartUpInvInit, StartUpInvNext, PTL DEF Spec

(* A worker never sets up more connections than it counted when it allocated their
   table (ain_worker_proc), however many threads there are and however the main
   thread's dealing falls between their two passes; whatever
   AIN_WORKER_CONNECTIONS is. *)
THEOREM SlotsAlwaysFit == Spec => []SlotsFitTable
<1>1. StartUpInv => SlotsFitTable
  BY WorkerBounds DEF SlotsFitTable
<1> QED
  BY <1>1, StartUpInvInit, StartUpInvNext, PTL DEF Spec

(* No worker has more connections than AIN_WORKER_CONNECTIONS, if that is not less
   than the number the management listener has to itself: the rest that
   ain_config_load shares out would be less than nothing. *)
THEOREM NeverMoreThanTotal ==
  ASSUME \A t \in Totals : t >= 4
  PROVE  Spec => []SlotsWithinTotal
<1>1. StartUpInv => SlotsWithinTotal
  <2> SUFFICES ASSUME StartUpInv, NEW i \in Worker PROVE Slots(i) <= total
    BY DEF SlotsWithinTotal
  <2>1. total \in Totals
    BY Zenon DEF StartUpInv, TypeOK
  <2>2. total \in Nat
    <3>1. total \in 0 .. 2^16 - 1
      BY <2>1, StartUpAssumption, Zenon
    <3> QED
      BY ONLY <3>1
  <2>3. total >= 4
    BY <2>1
  <2>4. Slots(i) \in Nat /\ table[i] \in Nat /\ Slots(i) <= table[i] /\ table[i] <= total
    BY <2>3, WorkerBounds
  <2> QED
    BY ONLY <2>2, <2>4
<1> QED
  BY <1>1, StartUpInvInit, StartUpInvNext, PTL DEF Spec

(* A pool for at most MostConnections connections has a header whose pages are
   all tagged as in use, and the first page behind it is the first free one. *)
LEMMA HeaderIsTagged ==
  ASSUME NEW p \in Nat, p <= 16 + 2 * MostConnections
  PROVE  /\ HeaderPages(p) = (64 * p + 4361) \div 4096
         /\ FirstFree(p) = HeaderPages(p)
<1>1. PICK h : h = HeaderPages(p)
  OBVIOUS
<1>2. h = (64 * p + 4361) \div 4096
  BY <1>1 DEF HeaderPages, PagesOf
<1>3. h \in Nat /\ h <= 255
  BY ONLY <1>2, p \in Nat, p <= 16 + 2 * MostConnections DEF MostConnections
<1>4. PICK S : S = {k \in 0 .. h : k = h \/ (1 + k) % 2^8 = 0}
  OBVIOUS
<1>5. ASSUME NEW k \in S PROVE k = h
  <2>1. k \in 0 .. h /\ (k = h \/ (1 + k) % 256 = 0)
    <3>1. 2^8 = 256
      BY SMT
    <3> QED
      BY <1>4, <1>5, <3>1
  <2> QED
    BY ONLY <1>3, <2>1
<1>6. S = {h}
  BY <1>3, <1>4, <1>5
<1>7. FirstFree(p) = h
  <2>1. FirstFree(p) = Min(S)
    BY <1>1, <1>4 DEF FirstFree
  <2> QED
    BY <1>3, <1>6, <2>1 DEF Min
<1> QED
  BY <1>1, <1>2, <1>7

(* A worker's pool holds its table of connections behind its header and two pages
   for each of the connections (ain_worker_proc, "min 2 pages per connection"),
   for every total from the management listener's four up to MostConnections. *)
THEOREM TwoPagesPerConnection == Spec => []PagesPerConnection
<1>1. StartUpInv => PagesPerConnection
  <2> SUFFICES ASSUME StartUpInv, total \in 4 .. MostConnections, NEW i \in Worker
               PROVE  /\ wpc[i] # "stopped"
                      /\ wpc[i] \in {"setup", "serve"} =>
                           /\ FirstFree(pool_size[i]) = HeaderPages(pool_size[i])
                           /\ 2 * table[i] + HeaderPages(pool_size[i])
                                + TablePages(table[i]) <= 32 * pool_size[i]
    BY DEF PagesPerConnection
  <2> SUFFICES ASSUME wpc[i] \in {"setup", "serve", "stopped"}
               PROVE  /\ FirstFree(pool_size[i]) = HeaderPages(pool_size[i])
                      /\ 2 * table[i] + HeaderPages(pool_size[i])
                           + TablePages(table[i]) <= 32 * pool_size[i]
                      /\ Allocates(pool_size[i], TablePages(table[i]))
    BY DEF StartUpInv, Progress, Stopped
  <2>1. PICK n \in Nat : n = table[i]
    BY WorkerTypes, Zenon
  <2>2. n <= MostConnections
    <3>1. total \in Nat /\ total >= 4 /\ total <= MostConnections
      BY DEF MostConnections
    <3>2. n <= total
      BY <2>1, <3>1, WorkerBounds
    <3> QED
      BY ONLY <2>1, <3>1, <3>2 DEF MostConnections
  <2>3. Counted(i)
    BY DEF StartUpInv, Progress, SettingUp, Serving, Stopped
  <2>4. pool_size[i] = IF 16 + 2 * n >= 256 THEN 16 + 2 * n ELSE 256
    <3>1. pool_size[i] = Max({(16 + 2 * n) % 2^16, 256})
      BY <2>1, <2>3 DEF Counted
    <3>2. (16 + 2 * n) % 2^16 = 16 + 2 * n
      <4>1. 2^16 = 65536
        BY SMT
      <4> QED
        BY ONLY <2>1, <2>2, <4>1 DEF MostConnections
    <3>3. 16 + 2 * n \in Int /\ 256 \in Int
      BY ONLY <2>1
    <3> QED
      BY <3>1, <3>2, <3>3, MaxOfTwo
  <2>5. PICK p \in Nat : p = pool_size[i]
    BY ONLY <2>1, <2>4
  <2>6. p <= 16 + 2 * MostConnections
    BY ONLY <2>1, <2>2, <2>4, <2>5 DEF MostConnections
  <2>7. PICK h : h = HeaderPages(p)
    OBVIOUS
  <2>8. h = (64 * p + 4361) \div 4096 /\ FirstFree(p) = h
    BY <2>6, <2>7, HeaderIsTagged
  <2>9. PICK t : t = TablePages(n)
    OBVIOUS
  <2>10. t = (72 * n + 4095) \div 4096
    BY <2>9 DEF TablePages, PagesOf
  <2>11. 2 * n + h + t <= 32 * p /\ t <= p
    BY ONLY <2>1, <2>4, <2>5, <2>8, <2>10
  <2>12. Allocates(p, t)
    <3>1. h \in Int
      BY ONLY <2>5, <2>8
    <3> QED
      BY <2>7, <2>8, <2>11, <3>1 DEF Allocates
  <2> QED
    BY <2>1, <2>5, <2>7, <2>8, <2>9, <2>11, <2>12
<1> QED
  BY <1>1, StartUpInvInit, StartUpInvNext, PTL DEF Spec

(* When all have started every listener is served, on Windows, where the workers
   share its socket, by one thread only: if AIN_WORKER_CONNECTIONS leaves a
   connection to the listener that takes the rest. *)
THEOREM EveryListenerIsDealt ==
  ASSUME \A t \in Totals : t >= 5
  PROVE  Spec => []EveryListenerDealt
<1>1. StartUpInv => EveryListenerDealt
  <2> SUFFICES ASSUME StartUpInv, Started, NEW k \in Listener
               PROVE  /\ {i \in Worker : slots[i][k] > 0} # {}
                      /\ os = "windows" => Cardinality({i \in Worker : slots[i][k] > 0}) = 1
    BY DEF EveryListenerDealt
  <2>1. /\ pc = "wait" /\ w_max \in Nat /\ w_max > 0 /\ next \in Nat /\ next <= w_max
        /\ k \in {0, 1} /\ os \in {"windows", "linux"} /\ 0 \in Worker
    BY Basics DEF Started
  <2>2. ls[k].conn_size > 0
    <3>1. ls[0].conn_size = (total - 4) % 2^16 /\ ls[1].conn_size = 4
      BY <2>1 DEF StartUpInv, Config
    <3>2. total \in Totals
      BY Zenon DEF StartUpInv, TypeOK
    <3>3. total >= 5 /\ total \in 0 .. 2^16 - 1
      BY <3>2, StartUpAssumption, Zenon
    <3>4. (total - 4) % 2^16 > 0
      <4>1. 2^16 = 65536
        BY SMT
      <4> QED
        BY ONLY <3>3, <4>1
    <3> QED
      BY <2>1, <3>1, <3>4
  <2>3. ASSUME NEW i \in Worker, i < w_max
        PROVE  slots[i][k] = IF Dealt(i, k) THEN ls[k].conn_size ELSE 0
    <3>1. i \in Nat /\ i \in 0 .. w_max - 1
      <4>1. i \in Nat
        BY Basics
      <4> QED
        BY ONLY <2>1, <2>3, <4>1
    <3>2. wpc[i] = "serve"
      BY <3>1 DEF Started
    <3>3. Serving(i)
      BY <3>2 DEF StartUpInv, Progress
    <3> QED
      BY <3>3 DEF Serving, Part
  <2>4. ASSUME NEW i \in Worker, ~(i < w_max)
        PROVE  slots[i][k] = 0
    <3>1. i \in Nat
      BY Basics
    <3>2. i >= next
      BY ONLY <2>1, <2>4, <3>1
    <3> QED
      BY <3>2 DEF StartUpInv, Progress, Fresh
  <2>5. CASE os = "linux"
    <3>1. slots[0][k] > 0
      BY <2>1, <2>2, <2>3, <2>5 DEF Dealt
    <3> QED
      BY <2>1, <2>5, <3>1
  <2>6. CASE os = "windows"
    <3>1. PICK o : o = Owner(k)
      OBVIOUS
    <3>2. o < w_max /\ o \in Nat
      BY <2>1, <3>1 DEF Owner
    <3>3. o \in Worker
      <4>1. cpus \in CpuCounts
        BY Zenon DEF StartUpInv, TypeOK
      <4>2. cpus \in Nat \ {0} /\ \A i \in 0 .. cpus - 1 : i \in Worker
        BY <4>1, Workers
      <4>3. w_max = cpus % 2^8
        BY <2>1 DEF StartUpInv, Config
      <4>4. 2^8 = 256
        BY SMT
      <4>5. o \in 0 .. cpus - 1
        BY ONLY <3>2, <4>2, <4>3, <4>4
      <4> QED
        BY <4>2, <4>5
    <3>4. \A i \in Worker : slots[i][k] > 0 <=> i = o
      <4> SUFFICES ASSUME NEW i \in Worker PROVE slots[i][k] > 0 <=> i = o
        OBVIOUS
      <4>1. CASE i < w_max
        BY <2>2, <2>3, <2>6, <3>1, <4>1 DEF Dealt
      <4>2. CASE ~(i < w_max)
        BY <2>4, <3>2, <4>2
      <4> QED
        BY <4>1, <4>2
    <3>5. {i \in Worker : slots[i][k] > 0} = {o}
      BY <3>3, <3>4
    <3> QED
      BY <3>5, FS_Singleton
  <2> QED
    BY <2>1, <2>5, <2>6
<1> QED
  BY <1>1, StartUpInvInit, StartUpInvNext, PTL DEF Spec

-----------------------------------------------------------------------------
(* The numbers that digits stand for. *)

(* A set of numbers has a least. *)
LEMMA Least ==
  ASSUME NEW T \in SUBSET Nat, T # {}
  PROVE  \E x \in T : \A y \in T : x <= y
<1>1. PICK R : R = OpToRel(<, Nat)
  OBVIOUS
<1>2. IsWellFoundedOn(R, Nat)
  BY <1>1, NatLessThanWellFounded
<1>3. PICK x \in T : \A y \in T : ~(<<y, x>> \in R)
  BY <1>2, WFMin
<1>4. ASSUME NEW y \in T PROVE x <= y
  <2>1. y < x => <<y, x>> \in R
    BY <1>1 DEF OpToRel
  <2>2. ~(y < x)
    BY <1>3, <2>1
  <2>3. x \in Nat /\ y \in Nat
    OBVIOUS
  <2> QED
    BY ONLY <2>2, <2>3
<1> QED
  BY <1>4

(* A list of values, each made of the one before it. *)
Steps(f, V, first, step, m) ==
  /\ f \in [0 .. m -> V] /\ f[0] = first
  /\ \A k \in 1 .. m : f[k] = step[k][f[k - 1]]

(* There is one of every length. *)
LEMMA HasSteps ==
  ASSUME NEW V, NEW first \in V, NEW n \in Nat, NEW step \in [1 .. n -> [V -> V]]
  PROVE  \E f : Steps(f, V, first, step, n)
<1>1. SUFFICES ASSUME ~ \E f : Steps(f, V, first, step, n) PROVE FALSE
  OBVIOUS
<1>2. PICK T : T = {m \in Nat : m <= n /\ ~ \E f : Steps(f, V, first, step, m)}
  OBVIOUS
<1>3. PICK m \in T : \A y \in T : m <= y
  <2>1. n <= n
    OBVIOUS
  <2>2. n \in T /\ T \in SUBSET Nat
    BY <1>1, <1>2, <2>1
  <2> QED
    BY <2>2, Least
<1>4. m \in Nat /\ m <= n /\ ~ \E f : Steps(f, V, first, step, m)
  BY <1>2
<1>5. CASE m = 0
  <2>1. PICK f : f = [k \in 0 .. 0 |-> first]
    OBVIOUS
  <2>2. Steps(f, V, first, step, 0)
    BY <2>1 DEF Steps
  <2> QED
    BY <1>4, <1>5, <2>2
<1>6. CASE m # 0
  <2>1. PICK p \in Nat : m = p + 1
    <3>1. m - 1 \in Nat /\ m = (m - 1) + 1
      BY ONLY <1>4, <1>6
    <3> QED
      BY <3>1
  <2>2. p \notin T
    <3>1. ~(m <= p)
      BY ONLY <2>1
    <3> QED
      BY <1>3, <3>1
  <2>3. PICK f : Steps(f, V, first, step, p)
    <3>1. p <= n
      BY ONLY <1>4, <2>1
    <3> QED
      BY <1>2, <2>2, <3>1
  <2>4. PICK g : g = [k \in 0 .. m |-> IF k = m THEN step[m][f[p]] ELSE f[k]]
    OBVIOUS
  <2>5. /\ m \in 1 .. n /\ m # 0 /\ p \in 0 .. p /\ p # m /\ p = m - 1
        /\ 0 \in 0 .. m /\ p \in 0 .. m /\ m \in 0 .. m
    BY ONLY <1>4, <2>1
  <2>6. step[m][f[p]] \in V
    <3>1. f[p] \in V
      BY <2>3, <2>5 DEF Steps
    <3>2. step[m] \in [V -> V]
      BY <2>5
    <3> QED
      BY <3>1, <3>2
  <2>7. \A k \in 0 .. m : g[k] \in V
    <3>1. \A k \in 0 .. m : k # m => k \in 0 .. p
      BY ONLY <2>1
    <3> QED
      BY <2>3, <2>4, <2>6, <3>1 DEF Steps
  <2>8. \A k \in 1 .. m : g[k] = step[k][g[k - 1]]
    <3> SUFFICES ASSUME NEW k \in 1 .. m PROVE g[k] = step[k][g[k - 1]]
      OBVIOUS
    <3>1. CASE k = m
      <4>1. g[k - 1] = f[p]
        BY <2>4, <2>5, <3>1
      <4> QED
        BY <2>4, <2>5, <3>1, <4>1
    <3>2. CASE k # m
      <4>1. k \in 1 .. p /\ k \in 0 .. m /\ k - 1 \in 0 .. m /\ k - 1 # m
        BY ONLY <2>1, <3>2
      <4>2. f[k] = step[k][f[k - 1]]
        BY <2>3, <4>1 DEF Steps
      <4> QED
        BY <2>4, <3>2, <4>1, <4>2
    <3> QED
      BY <3>1, <3>2
  <2>9. g[0] = first
    BY <2>3, <2>4, <2>5 DEF Steps
  <2>10. g \in [0 .. m -> V]
    BY <2>4, <2>7
  <2>11. Steps(g, V, first, step, m)
    BY <2>8, <2>9, <2>10 DEF Steps
  <2> QED
    BY <1>4, <2>11
<1> QED
  BY <1>5, <1>6

(* There is only one. *)
LEMMA OneSteps ==
  ASSUME NEW V, NEW first, NEW n \in Nat, NEW step, NEW f, NEW g,
         Steps(f, V, first, step, n), g[0] = first,
         \A k \in 1 .. n : g[k - 1] \in V => g[k] = step[k][g[k - 1]]
  PROVE  \A k \in 0 .. n : g[k] = f[k]
<1>1. SUFFICES ASSUME ~ \A k \in 0 .. n : g[k] = f[k] PROVE FALSE
  OBVIOUS
<1>2. PICK T : T = {k \in 0 .. n : g[k] # f[k]}
  OBVIOUS
<1>3. PICK m \in T : \A y \in T : m <= y
  <2>1. T \in SUBSET Nat /\ T # {}
    BY <1>1, <1>2
  <2> QED
    BY <2>1, Least
<1>4. m \in 0 .. n /\ g[m] # f[m]
  BY <1>2
<1>5. m # 0
  BY <1>4 DEF Steps
<1>6. m \in 1 .. n /\ m - 1 \in 0 .. n /\ ~(m <= m - 1)
  BY ONLY <1>4, <1>5
<1>7. g[m - 1] = f[m - 1]
  BY <1>2, <1>3, <1>6
<1> QED
  BY <1>4, <1>6, <1>7 DEF Steps

Word16 == {v \in Nat : v < 65536}

(* The number after each digit. *)
Sums(f, s) ==
  /\ f \in [0 .. Len(s) -> Word16] /\ f[0] = 0
  /\ \A k \in 1 .. Len(s) : f[k] = (f[k - 1] * 10 + s[k]) % 2^16

(* The last of them is what AIN_TO_NUM makes of the digits. *)
LEMMA ToNumSums ==
  ASSUME NEW s \in Seq(0 .. 9)
  PROVE  \E f : Sums(f, s) /\ ToNum(s) = f[Len(s)]
<1>1. PICK n \in Nat : n = Len(s)
  OBVIOUS
<1>2. 2^16 = 65536
  BY SMT
<1>3. PICK step : step = [k \in 1 .. n |-> [v \in Word16 |-> (v * 10 + s[k]) % 2^16]]
  BY Zenon
<1>4. \A k \in 1 .. n : s[k] \in 0 .. 9
  BY <1>1
<1>5. \A k \in 1 .. n, v \in Word16 : (v * 10 + s[k]) % 2^16 \in Word16
  <2> SUFFICES ASSUME NEW k \in 1 .. n, NEW v \in Word16
               PROVE  (v * 10 + s[k]) % 2^16 \in Word16
    OBVIOUS
  <2>1. PICK d \in 0 .. 9 : d = s[k]
    BY <1>4
  <2>2. v \in Nat /\ d \in Nat
    BY <2>1 DEF Word16
  <2>3. (v * 10 + d) % 2^16 \in Nat /\ (v * 10 + d) % 2^16 < 65536
    BY ONLY <1>2, <2>2
  <2> QED
    BY <2>1, <2>3 DEF Word16
<1>6. step \in [1 .. n -> [Word16 -> Word16]]
  BY <1>3, <1>5
<1>7. 0 \in Word16
  BY DEF Word16
<1>8. PICK g : Steps(g, Word16, 0, step, n)
  BY <1>6, <1>7, HasSteps
<1>9. /\ g \in [0 .. n -> Word16] /\ g[0] = 0
      /\ \A k \in 1 .. n : g[k] = (g[k - 1] * 10 + s[k]) % 2^16
  <2>1. \A k \in 1 .. n : k - 1 \in 0 .. n
    BY ONLY <1>1
  <2> QED
    BY <1>3, <1>8, <2>1 DEF Steps
<1>10. \A k \in 0 .. n : k # 0 => k \in 1 .. n
  BY ONLY <1>1
<1>11. g = [k \in 0 .. Len(s) |->
              IF k = 0 THEN 0 ELSE (g[k - 1] * 10 + s[k]) % 2^16]
  BY <1>1, <1>2, <1>9, <1>10
<1>12. PICK c : c = CHOOSE f : f = [k \in 0 .. Len(s) |->
                   IF k = 0 THEN 0 ELSE (f[k - 1] * 10 + s[k]) % 2^16]
  OBVIOUS
<1>13. c = [k \in 0 .. Len(s) |-> IF k = 0 THEN 0 ELSE (c[k - 1] * 10 + s[k]) % 2^16]
  BY <1>11, <1>12
<1>14. ToNum(s) = c[Len(s)]
  BY <1>12 DEF ToNum
<1>15. \A k \in 0 .. n : c[k] = g[k]
  <2>1. \A k \in 1 .. n : k \in 0 .. n /\ k # 0
    BY ONLY <1>1
  <2>2. 0 \in 0 .. n
    BY ONLY <1>1
  <2>3. c[0] = 0 /\ \A k \in 1 .. n : c[k] = (c[k - 1] * 10 + s[k]) % 2^16
    BY <1>1, <1>2, <1>13, <2>1, <2>2
  <2>4. \A k \in 1 .. n : c[k - 1] \in Word16 => c[k] = step[k][c[k - 1]]
    BY <1>3, <2>3
  <2> QED
    BY <1>8, <2>3, <2>4, OneSteps
<1>16. n \in 0 .. n
  BY ONLY <1>1
<1> QED
  BY <1>1, <1>9, <1>14, <1>15, <1>16 DEF Sums

(* What is left of a port as its digits are taken off. *)
Rests(r, port, n) ==
  /\ r \in [0 .. n -> Word16] /\ r[0] = port
  /\ \A k \in 1 .. n : r[k] = r[k - 1] \div 10

(* They are what WrittenAs compares with the digits. *)
LEMMA HasRests ==
  ASSUME NEW s \in Seq(0 .. 9), NEW port \in Word16
  PROVE  \E r : /\ Rests(r, port, Len(s))
                /\ WrittenAs(port, s) <=>
                     /\ r[Len(s)] = 0
                     /\ \A k \in 1 .. Len(s) : s[k] = r[Len(s) - k] % 10
<1>1. PICK n \in Nat : n = Len(s)
  OBVIOUS
<1>2. PICK step : step = [k \in 1 .. n |-> [v \in Word16 |-> v \div 10]]
  BY Zenon
<1>3. \A v \in Word16 : v \div 10 \in Word16
  BY DEF Word16
<1>4. step \in [1 .. n -> [Word16 -> Word16]]
  BY <1>2, <1>3
<1>5. PICK g : Steps(g, Word16, port, step, n)
  BY <1>4, HasSteps
<1>6. /\ g \in [0 .. n -> Word16] /\ g[0] = port
      /\ \A k \in 1 .. n : g[k] = g[k - 1] \div 10
  <2>1. \A k \in 1 .. n : k - 1 \in 0 .. n
    BY ONLY <1>1
  <2> QED
    BY <1>2, <1>5, <2>1 DEF Steps
<1>7. \A k \in 0 .. n : k # 0 => k \in 1 .. n
  BY ONLY <1>1
<1>8. g = [k \in 0 .. Len(s) |-> IF k = 0 THEN port ELSE g[k - 1] \div 10]
  BY <1>1, <1>6, <1>7
<1>9. PICK c : c = CHOOSE f : f = [k \in 0 .. Len(s) |->
                   IF k = 0 THEN port ELSE f[k - 1] \div 10]
  OBVIOUS
<1>10. c = [k \in 0 .. Len(s) |-> IF k = 0 THEN port ELSE c[k - 1] \div 10]
  BY <1>8, <1>9
<1>11. WrittenAs(port, s) <=>
         c[Len(s)] = 0 /\ \A k \in DOMAIN s : s[k] = c[Len(s) - k] % 10
  BY <1>9 DEF WrittenAs
<1>12. \A k \in 0 .. n : c[k] = g[k]
  <2>1. \A k \in 1 .. n : k \in 0 .. n /\ k # 0
    BY ONLY <1>1
  <2>2. 0 \in 0 .. n
    BY ONLY <1>1
  <2>3. c[0] = port /\ \A k \in 1 .. n : c[k] = c[k - 1] \div 10
    BY <1>1, <1>10, <2>1, <2>2
  <2>4. \A k \in 1 .. n : c[k - 1] \in Word16 => c[k] = step[k][c[k - 1]]
    BY <1>2, <2>3
  <2> QED
    BY <1>5, <2>3, <2>4, OneSteps
<1>13. n \in 0 .. n /\ \A k \in 1 .. n : n - k \in 0 .. n
  BY ONLY <1>1
<1>14. DOMAIN s = 1 .. n
  BY <1>1
<1>15. WrittenAs(port, s) <=>
         g[Len(s)] = 0 /\ \A k \in 1 .. Len(s) : s[k] = g[Len(s) - k] % 10
  BY <1>1, <1>11, <1>12, <1>13, <1>14
<1> QED
  BY <1>1, <1>6, <1>15 DEF Rests

(* A port is read as it is written. *)
LEMMA ToNumWritten ==
  ASSUME NEW s \in Seq(0 .. 9), NEW port \in Word16, WrittenAs(port, s)
  PROVE  ToNum(s) = port
<1>1. PICK n \in Nat : n = Len(s)
  OBVIOUS
<1>2. PICK r : /\ Rests(r, port, n)
               /\ r[n] = 0 /\ \A k \in 1 .. n : s[k] = r[n - k] % 10
  BY <1>1, HasRests
<1>3. PICK f : Sums(f, s) /\ ToNum(s) = f[n]
  BY <1>1, ToNumSums
<1>4. ASSUME NEW k \in 0 .. n, f[k] # r[n - k],
             \A j \in 0 .. n : j < k => f[j] = r[n - j]
      PROVE  FALSE
  <2>1. k # 0
    <3>1. n - 0 = n
      OBVIOUS
    <3> QED
      BY <1>2, <1>3, <1>4, <3>1 DEF Sums
  <2>2. /\ k \in 1 .. n /\ k - 1 \in 0 .. n /\ k - 1 < k /\ n - k \in 0 .. n
        /\ n - (k - 1) \in 1 .. n /\ n - (k - 1) - 1 = n - k
    BY ONLY <2>1, k \in 0 .. n, <1>1
  <2>3. r[n - (k - 1)] = r[n - k] \div 10 /\ r[n - k] \in Word16
    BY <1>2, <2>2 DEF Rests
  <2>4. f[k] = (f[k - 1] * 10 + s[k]) % 2^16 /\ f[k - 1] = r[n - (k - 1)]
    BY <1>1, <1>3, <1>4, <2>2 DEF Sums
  <2>5. s[k] = r[n - k] % 10
    BY <1>2, <2>2
  <2>6. PICK v \in Nat : v = r[n - k] /\ v < 65536
    BY <2>3 DEF Word16
  <2>7. \E q \in Nat, e \in 0 .. 9 : v = q * 10 + e /\ v \div 10 = q /\ v % 10 = e
    BY ONLY v \in Nat
  <2>8. PICK q \in Nat : \E e \in 0 .. 9 : v = q * 10 + e /\ v \div 10 = q /\ v % 10 = e
    BY <2>7
  <2>9. PICK e \in 0 .. 9 : v = q * 10 + e /\ v \div 10 = q /\ v % 10 = e
    BY <2>8
  <2>10. f[k - 1] = q /\ s[k] = e
    <3>1. r[n - (k - 1)] = v \div 10 /\ s[k] = v % 10
      BY <2>3, <2>5, <2>6
    <3> QED
      BY <2>4, <2>9, <3>1
  <2>11. f[k] = v % 2^16
    BY ONLY <2>4, <2>9, <2>10
  <2>12. v % 2^16 = v
    <3>1. 2^16 = 65536
      BY SMT
    <3> QED
      BY ONLY <2>6, v \in Nat, <3>1
  <2> QED
    BY <1>4, <2>6, <2>11, <2>12
<1>5. \A k \in 0 .. n : f[k] = r[n - k]
  <2>1. PICK T : T = {k \in 0 .. n : f[k] # r[n - k]}
    OBVIOUS
  <2>2. T \in SUBSET Nat
    BY <2>1
  <2>3. ASSUME T # {} PROVE FALSE
    <3>1. PICK k \in T : \A y \in T : k <= y
      BY <2>2, <2>3, Least
    <3>2. \A j \in 0 .. n : j < k => f[j] = r[n - j]
      <4> SUFFICES ASSUME NEW j \in 0 .. n, j < k PROVE j \notin T
        BY <2>1
      <4>1. ~(k <= j)
        BY ONLY j \in 0 .. n, j < k, k \in T, <2>2
      <4> QED
        BY <3>1, <4>1
    <3> QED
      BY <1>4, <2>1, <3>2
  <2> QED
    BY <2>1, <2>3
<1>6. n \in 0 .. n /\ n - n = 0
  BY ONLY <1>1
<1> QED
  BY <1>2, <1>3, <1>5, <1>6 DEF Rests

-----------------------------------------------------------------------------
(* The ports that are configured, and what is made of them. *)
PortInv ==
  /\ lls[1].scheme = "http" /\ lls[1].port = <<9, 0, 8, 1>>
  /\ lls[2].scheme = "ainc" /\ lls[2].port \in MgmtPorts
  /\ pc \in {"deal", "wait"} =>
       \A k \in Listener : ls[k].port = Port(lls[k + 1])

(* It holds at first, *)
LEMMA PortInvInit ==
  ASSUME Init
  PROVE  PortInv
<1>1. PICK p \in MgmtPorts :
        lls = <<[scheme |-> "http", port |-> <<9, 0, 8, 1>>, conns_size |-> 0],
                [scheme |-> "ainc", port |-> p, conns_size |-> 4]>>
  BY DEF Init
<1>2. pc = "load"
  BY DEF Init
<1> QED
  BY <1>1, <1>2 DEF PortInv

(* and every step keeps it: only ain_listeners_conf writes a port. *)
LEMMA PortInvNext ==
  ASSUME PortInv, [Next]_vars
  PROVE  PortInv'
<1>1. CASE LoadConfig
  BY <1>1 DEF LoadConfig, PortInv
<1>2. CASE ConfigureListeners
  <2>1. lls' = lls
    BY <1>2 DEF ConfigureListeners, conf
  <2>2. \A k \in Listener : ls'[k].port = Port(lls[k + 1])
    BY <1>2, Zenon DEF ConfigureListeners
  <2> QED
    BY <2>1, <2>2 DEF PortInv
<1>3. CASE DealToThread \/ CreateThread \/ Fork
  <2>1. pc = "deal" /\ lls' = lls /\ ls' = ls
    BY <1>3 DEF DealToThread, CreateThread, Fork, Create, conf
  <2> QED
    BY <2>1 DEF PortInv
<1>4. ASSUME NEW i \in Worker,
             \/ ListenInChild(i) \/ EnterWorker(i)
             \/ Count(i) \/ MakePool(i) \/ SetUp(i) \/ EnterLoop(i)
      PROVE  PortInv'
  <2>1. pc' = pc /\ lls' = lls /\ ls' = ls
    BY <1>4 DEF ListenInChild, EnterWorker, Count, MakePool, SetUp, EnterLoop, conf, main
  <2> QED
    BY <2>1 DEF PortInv
<1>5. CASE UNCHANGED vars
  BY <1>5 DEF vars, conf, main, PortInv
<1> QED
  BY <1>1, <1>2, <1>3, <1>4, <1>5 DEF Next

(* The port written in ain_conf.c, as its digits. *)
LEMMA HttpPort == \E port \in 1 .. 2^16 - 1 : WrittenAs(port, <<9, 0, 8, 1>>)
<1>1. PICK port \in Word16 : port = 9081
  BY DEF Word16
<1>2. PICK s : s = <<9, 0, 8, 1>>
  OBVIOUS
<1>3. /\ s \in Seq(0 .. 9) /\ Len(s) = 4
      /\ s[1] = 9 /\ s[2] = 0 /\ s[3] = 8 /\ s[4] = 1
  BY <1>2
<1>4. PICK r : /\ Rests(r, port, Len(s))
               /\ WrittenAs(port, s) <=>
                    /\ r[Len(s)] = 0
                    /\ \A k \in 1 .. Len(s) : s[k] = r[Len(s) - k] % 10
  BY <1>3, HasRests
<1>5. r[0] = 9081 /\ \A k \in 1 .. 4 : r[k] = r[k - 1] \div 10
  BY <1>1, <1>3, <1>4 DEF Rests
<1>6. r[1] = 908 /\ r[2] = 90 /\ r[3] = 9 /\ r[4] = 0
  <2>1. r[1] = r[0] \div 10 /\ r[2] = r[1] \div 10 /\ r[3] = r[2] \div 10 /\ r[4] = r[3] \div 10
    BY <1>5
  <2>2. r[1] = 908
    BY ONLY <1>5, <2>1
  <2>3. r[2] = 90
    BY ONLY <2>1, <2>2
  <2>4. r[3] = 9
    BY ONLY <2>1, <2>3
  <2>5. r[4] = 0
    BY ONLY <2>1, <2>4
  <2> QED
    BY <2>2, <2>3, <2>4, <2>5
<1>7. \A k \in 1 .. 4 : s[k] = r[4 - k] % 10
  BY <1>3, <1>5, <1>6
<1>8. WrittenAs(port, s)
  BY <1>3, <1>4, <1>6, <1>7
<1>9. port \in 1 .. 2^16 - 1
  <2>1. 2^16 = 65536
    BY SMT
  <2> QED
    BY ONLY <1>1, <2>1
<1> QED
  BY <1>2, <1>8, <1>9

(* The management address has no port, or one that is in range. *)
PortsWritten ==
  \A p \in MgmtPorts : p = <<>> \/ \E port \in 1 .. 2^16 - 1 : WrittenAs(port, p)

(* What is made of a port that is written is that port. *)
LEMMA PortAsWritten ==
  ASSUME NEW c, c.port \in Seq(0 .. 9), NEW port \in 1 .. 2^16 - 1,
         WrittenAs(port, c.port)
  PROVE  WrittenAs(Port(c), c.port)
<1>1. port \in Word16 /\ port # 0
  <2>1. 2^16 = 65536
    BY SMT
  <2>2. port \in Nat /\ port < 65536 /\ port # 0
    BY ONLY <2>1, port \in 1 .. 2^16 - 1
  <2> QED
    BY <2>2 DEF Word16
<1>2. ToNum(c.port) = port
  BY <1>1, ToNumWritten
<1> QED
  BY <1>1, <1>2 DEF Port

(* No digits are 0, and 0 is the default. *)
LEMMA PortByDefault ==
  ASSUME NEW c, c.port = <<>>
  PROVE  Port(c) = DefaultPort[c.scheme]
<1>1. PICK s : s = <<>>
  OBVIOUS
<1>2. s \in Seq(0 .. 9) /\ Len(s) = 0
  BY <1>1
<1>3. PICK f : Sums(f, s) /\ ToNum(s) = f[Len(s)]
  BY <1>2, ToNumSums
<1>4. ToNum(s) = 0
  BY <1>2, <1>3 DEF Sums
<1> QED
  BY <1>1, <1>4 DEF Port

(* When all workers have started, connections are accepted at every listener and
   on the port that was written, or else on that of its scheme, if a port that is
   written is one and the total leaves the server a connection (5 or more). *)
THEOREM ListenersAreServed ==
  ASSUME \A t \in Totals : t >= 5, PortsWritten
  PROVE  Spec => []EveryListenerServed
<1>1. ASSUME PortInv, Started, NEW k \in Listener
      PROVE  IF lls[k + 1].port = <<>>
             THEN ls[k].port = DefaultPort[lls[k + 1].scheme]
             ELSE WrittenAs(ls[k].port, lls[k + 1].port)
  <2>1. PICK c : c = lls[k + 1]
    OBVIOUS
  <2>2. ls[k].port = Port(c)
    BY <1>1, <2>1 DEF PortInv, Started
  <2>3. CASE c.port = <<>>
    BY <2>1, <2>2, <2>3, PortByDefault
  <2>4. CASE c.port # <<>>
    <3>1. c.port \in Seq(0 .. 9)
      <4>1. c.port = <<9, 0, 8, 1>> \/ c.port \in MgmtPorts
        BY <1>1, <2>1 DEF PortInv, Listener
      <4>2. <<9, 0, 8, 1>> \in Seq(0 .. 9)
        OBVIOUS
      <4> QED
        BY <4>1, <4>2, StartUpAssumption, Zenon
    <3>2. \E port \in 1 .. 2^16 - 1 : WrittenAs(port, c.port)
      <4>1. c.port = <<9, 0, 8, 1>> \/ c.port \in MgmtPorts
        BY <1>1, <2>1 DEF PortInv, Listener
      <4>2. CASE c.port = <<9, 0, 8, 1>>
        BY <4>2, HttpPort
      <4>3. CASE c.port \in MgmtPorts
        BY <2>4, <4>3, Zenon DEF PortsWritten
      <4> QED
        BY <4>1, <4>2, <4>3
    <3> QED
      BY <2>1, <2>2, <2>4, <3>1, <3>2, PortAsWritten
  <2> QED
    BY <2>3, <2>4, <2>1
<1>2. PortInv /\ EveryListenerDealt => EveryListenerServed
  BY <1>1, Zenon DEF EveryListenerServed
<1>3. Init => PortInv
  BY PortInvInit
<1>4. PortInv /\ [Next]_vars => PortInv'
  BY PortInvNext
<1>5. Spec => []EveryListenerDealt
  BY EveryListenerIsDealt
<1> QED
  BY <1>2, <1>3, <1>4, <1>5, PTL DEF Spec
=============================================================================
