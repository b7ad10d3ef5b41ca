------------------------------ MODULE MemPool ------------------------------
(***************************************************************************)
(* The page allocator of the server (os/ain_memory.c).  Memory comes in    *)
(* pools of PoolSize pages, mapped one after another as they are needed.   *)
(* One tag per page says what the page is used for: 0 means free, and the  *)
(* pages of an extent are tagged 1, 2, 3, ... in a byte.  ain_pool_alloc   *)
(* takes the first hole that is long enough, pool by pool; ain_pool_free   *)
(* finds the pool of a pointer, clears its first page and goes on as long  *)
(* as the tags rise.                                                       *)
(*                                                                         *)
(* A pool belongs to one thread.  Each turn of the outer loop of           *)
(* ain_pool_alloc is a step, because the loop need not end.                *)
(***************************************************************************)
EXTENDS Integers, FiniteSetsExt

CONSTANTS
  PoolSize,     (* _pool->pool_size, pages                                 *)
  MaxPools,     (* _pool->max_pools                                        *)
  HdrPages,     (* pages the pool table itself takes at the front          *)
  TagMod,       (* tags are stored modulo this; uint8_t gives 256          *)
  PageBytes,    (* AIN_PAGE_SIZE                                           *)
  Base,         (* address at which each pool is mapped                    *)
  DistMod,      (* distances in bytes are cut to 32 bits: modulo this      *)
  Requests,     (* sizes asked for                                         *)
  Frees,        (* does the user of the pool free anything?                *)
  MapFails,     (* how the system says it is out of memory, if it may be   *)
  MaxHeld       (* bound: extents held at a time                           *)

Pool == 0 .. MaxPools - 1
Page == 0 .. PoolSize - 1

ASSUME PoolAssumption ==
  /\ MaxPools \in Nat \ {0}
  /\ HdrPages \in Nat \ {0}
  /\ PoolSize \in Nat /\ HdrPages <= PoolSize
  /\ TagMod \in Nat \ {0} /\ DistMod \in Nat \ {0}
  /\ PageBytes \in Nat \ {0}
  /\ Base \in [Pool -> Nat]
  /\ Requests \subseteq 1 .. PoolSize
  /\ Frees \in BOOLEAN /\ MapFails \subseteq {"MAP_FAILED", "NULL"}
  /\ MaxHeld \in Nat

VARIABLES
  pages,        (* the tags of each pool                                   *)
  pool_cnt,     (* pools mapped so far                                     *)
  mapped,       (* pools whose base is memory the system gave              *)
  failed,       (* pools whose base is MAP_FAILED                          *)
  pc,           (* is an allocation under way?                             *)
  req, p, i, j, (* ain_pool_alloc: its argument, its pool, its hole [i, j) *)
  held          (* extents given out and not freed                         *)

scan == <<req, p, i, j>>
vars == <<pages, pool_cnt, mapped, failed, pc, scan, held>>

Extent == [pool : Pool, first : Page, len : 1 .. PoolSize]

TypeOK ==
  /\ pages \in [Pool -> [Page -> 0 .. TagMod - 1]]
  /\ pool_cnt \in 1 .. MaxPools
  /\ mapped \in SUBSET Pool
  /\ failed \in SUBSET Pool
  /\ pc \in {"idle", "scan", "crashed", "destroyed"}
  /\ req \in 0 .. PoolSize
  /\ p \in 0 .. pool_cnt - 1
  /\ i \in 0 .. PoolSize /\ j \in 0 .. PoolSize
  /\ held \in SUBSET Extent

(* Mutant of Tag: every page of an extent is tagged alike. *)
TagOne(n) == 1

(* (uint8_t)(1 + n) *)
Tag(n) == (1 + n) % TagMod

(* The extent starting at page k of length n carries the tags of an extent. *)
Tagged(row, k, n) ==
  [m \in Page |-> IF m \in k .. k + n - 1 THEN Tag(m - k) ELSE row[m]]

Free0 == [m \in Page |-> 0]

(* ain_pool_create: the table lies in the first pages of the first pool. *)
Init ==
  /\ pages = [q \in Pool |-> IF q = 0 THEN Tagged(Free0, 0, HdrPages) ELSE Free0]
  /\ pool_cnt = 1
  /\ mapped = {0}
  /\ failed = {}
  /\ pc = "idle"
  /\ req = 0 /\ p = 0 /\ i = 0 /\ j = 0
  /\ held = {}

-----------------------------------------------------------------------------
(* ain_pool_alloc *)

Call(n) ==
  /\ pc = "idle"
  /\ Cardinality(held) < MaxHeld
  /\ pc' = "scan"
  /\ req' = n /\ p' = 0 /\ i' = 0 /\ j' = 0
  /\ UNCHANGED <<pages, pool_cnt, mapped, failed, held>>

(* Mutant of HoleEnd: the tags behind the first free page are not looked at;
   the start of the hole is spelled out. *)
HoleEndUnchecked ==
  LET start == Min({k \in i .. PoolSize - 1 : pages[p][k] = 0} \cup {PoolSize})
  IN IF start < PoolSize THEN Min({PoolSize, start + req}) ELSE j

(* The next free page, and the end of the hole it starts, no longer than what
   is asked for. *)
HoleStart == Min({k \in i .. PoolSize - 1 : pages[p][k] = 0} \cup {PoolSize})
HoleEnd ==
  IF HoleStart < PoolSize
  THEN Min({k \in HoleStart + 1 .. PoolSize - 1 : pages[p][k] # 0}
           \cup {PoolSize, HoleStart + req})
  ELSE j

Fits == HoleStart < PoolSize /\ HoleEnd - HoleStart >= req

PoolIsFull ==
  HoleStart = PoolSize \/ (HoleEnd = PoolSize /\ HoleEnd - HoleStart < req)

TakeHole ==
  /\ pc = "scan" /\ Fits
  /\ pages' = [pages EXCEPT ![p] = Tagged(@, HoleStart, HoleEnd - HoleStart)]
  /\ held' = held \cup {[pool |-> p, first |-> HoleStart, len |-> req]}
  /\ i' = HoleStart /\ j' = HoleEnd
  /\ pc' = "idle"
  /\ UNCHANGED <<pool_cnt, mapped, failed, req, p>>

(* A hole that is too short and ends at a page in use: the loop goes round
   with i on the same free page. *)
HoleTooShort ==
  /\ pc = "scan" /\ ~Fits /\ ~PoolIsFull
  /\ i' = HoleStart /\ j' = HoleEnd
  /\ UNCHANGED <<pages, pool_cnt, mapped, failed, pc, req, p, held>>

(* A pool is mapped before it is first used.  mmap reports a failure by an
   address that is not NULL, MAP_FAILED, so the assertion that follows it lets
   the failure through and the pool counts as mapped. *)
MapPool(q) ==
  IF q # pool_cnt THEN UNCHANGED <<mapped, failed>>
  ELSE \/ mapped' = mapped \cup {q} /\ UNCHANGED failed
       \/ /\ "MAP_FAILED" \in MapFails
          /\ failed' = failed \cup {q}
          /\ UNCHANGED mapped

(* Mutants of NextPool: the pool is changed only when it was just mapped; a
   pool that was mapped is not counted. *)
NextPoolIfMapped ==
  /\ pc = "scan" /\ PoolIsFull
  /\ p + 1 < MaxPools
  /\ MapPool(p + 1)
  /\ p' = IF p + 1 = pool_cnt THEN p + 1 ELSE p
  /\ pool_cnt' = IF p + 1 = pool_cnt THEN pool_cnt + 1 ELSE pool_cnt
  /\ i' = 0 /\ j' = 0
  /\ UNCHANGED <<pages, pc, req, held>>

NextPoolUncounted ==
  /\ pc = "scan" /\ PoolIsFull
  /\ p + 1 < MaxPools
  /\ MapPool(p + 1)
  /\ p' = p + 1
  /\ i' = 0 /\ j' = 0
  /\ UNCHANGED <<pages, pool_cnt, pc, req, held>>

(* The next pool, mapped first if it is not yet. *)
NextPool ==
  /\ pc = "scan" /\ PoolIsFull
  /\ p + 1 < MaxPools
  /\ MapPool(p + 1)
  /\ p' = p + 1
  /\ pool_cnt' = IF p + 1 = pool_cnt THEN pool_cnt + 1 ELSE pool_cnt
  /\ i' = 0 /\ j' = 0
  /\ UNCHANGED <<pages, pc, req, held>>

(* AIN_ASSERT_NULL(npool->base): VirtualAlloc reports a failure by NULL, which
   the assertion catches. *)
NoMemory ==
  /\ pc = "scan" /\ PoolIsFull
  /\ p + 1 = pool_cnt /\ p + 1 < MaxPools
  /\ "NULL" \in MapFails
  /\ pc' = "crashed"
  /\ UNCHANGED <<pages, pool_cnt, mapped, failed, scan, held>>

(* AIN_ASSERT_NULL(pool_cnt < max_pools): a failed assertion kills the
   process. *)
OutOfPools ==
  /\ pc = "scan" /\ PoolIsFull
  /\ p + 1 = MaxPools
  /\ pc' = "crashed"
  /\ UNCHANGED <<pages, pool_cnt, mapped, failed, scan, held>>

-----------------------------------------------------------------------------
(* ain_pool_free *)

(* The base of every pool that could not be mapped; as a pointer it is the last
   byte there is. *)
MAP_FAILED == -1
Address(q) == IF q \in failed THEN MAP_FAILED ELSE Base[q]

PageAt(start, k) == start + k * PageBytes

(* (int32_t)(x - start) / AIN_PAGE_SIZE: the page size is a uint32_t, so the
   division is unsigned, and what is negative becomes large. *)
PageDistance(x, start) == ((x - start) % DistMod) \div PageBytes

(* The page of pool q that extent e starts at, if q is its pool. *)
Offset(e, q) == PageDistance(PageAt(Address(e.pool), e.first), Address(q))

(* Mutant of Matching: k > pool_size instead of k >= pool_size. *)
MatchingOneTooFar(e) == {q \in 0 .. pool_cnt - 1 : Offset(e, q) \in 0 .. PoolSize}

(* The pools e might lie in; the first one is taken. *)
Matching(e) == {q \in 0 .. pool_cnt - 1 : Offset(e, q) \in Page}

(* Tags rise from page k on up to this page. *)
RunEnd(row, k) ==
  Min({m \in k .. PoolSize - 1 : m = PoolSize - 1 \/ row[m] >= row[m + 1]})

(* Mutant of Cleared: the page after the rising run stays as it is. *)
ClearedButLast(row, k) ==
  [m \in Page |-> IF m \in k .. RunEnd(row, k) - 1 THEN 0 ELSE row[m]]

Cleared(row, k) == [m \in Page |-> IF m \in k .. RunEnd(row, k) THEN 0 ELSE row[m]]

(* The pool is found and the page there starts an extent, as the two
   assertions of ain_pool_free want it. *)
Releasable(e) ==
  /\ Matching(e) # {}
  /\ LET q == Min(Matching(e)) IN pages[q][Offset(e, q)] = 1

Release(e) ==
  /\ Frees
  /\ pc = "idle"
  /\ IF Releasable(e)
     THEN LET q == Min(Matching(e))
          IN /\ pages' = [pages EXCEPT ![q] = Cleared(@, Offset(e, q))]
             /\ held' = held \ {e}
             /\ UNCHANGED pc
     ELSE pc' = "crashed" /\ UNCHANGED <<pages, held>>
  /\ UNCHANGED <<pool_cnt, mapped, failed, scan>>

-----------------------------------------------------------------------------
(* ain_pool_destroy: the pools that were counted are unmapped, the first one,
   which holds the table and all tags, last. *)

(* Mutant of Counted: the loop ends one pool early. *)
CountedButLast == {0} \cup 1 .. pool_cnt - 2

Counted == {0} \cup 1 .. pool_cnt - 1

Destroy ==
  /\ pc = "idle"
  /\ mapped' = mapped \ Counted
  /\ pages' = [q \in Pool |-> Free0]
  /\ held' = {}
  /\ pc' = "destroyed"
  /\ UNCHANGED <<pool_cnt, failed, scan>>

-----------------------------------------------------------------------------
Scan == TakeHole \/ HoleTooShort \/ NextPool \/ NoMemory \/ OutOfPools

Next ==
  \/ \E n \in Requests : Call(n)
  \/ Scan
  \/ \E e \in held : Release(e)
  \/ Destroy

Spec == Init /\ [][Next]_vars

(* The thread that allocates is scheduled. *)
FairSpec == Spec /\ WF_vars(Scan)

-----------------------------------------------------------------------------
(* Properties. *)

Header == [pool |-> 0, first |-> 0, len |-> HdrPages]
Live == IF pc = "destroyed" THEN {} ELSE held \cup {Header}
InUse(q, k) == \E e \in Live : e.pool = q /\ k \in e.first .. e.first + e.len - 1

(* Pools that could not be mapped have one base, MAP_FAILED, so ain_pool_free
   takes an extent of the second for one of the first and clears tags there:
   what the pool promises below holds up to the second failure. *)
OneFailure == \A q, r \in failed : q = r

(* "pages that are free have 0, occupied pages have 1 or consecutive page no":
   a tag is 0 exactly on the pages nobody uses. *)
FreePagesAreTaggedZero ==
  OneFailure => \A q \in Pool, k \in Page : pages[q][k] = 0 <=> ~InUse(q, k)

(* The tags alone tell where each extent in use starts and ends, which is all
   ain_pool_free has to go by. *)
TagsTellExtents ==
  OneFailure =>
    \A e \in Live : pages[e.pool][e.first] = 1
                    /\ RunEnd(pages[e.pool], e.first) = e.first + e.len - 1

(* A pointer that was given out can be freed: it is found in its own pool, in
   no other one, and neither assertion of ain_pool_free fails.  A pool that
   could not be mapped does not disturb this, as long as it is the only one. *)
HeldCanBeReleased ==
  OneFailure =>
    \A e \in held :
      Matching(e) = {e.pool} /\ Offset(e, e.pool) = e.first /\ Releasable(e)

(* Extents in use never share a page, and freeing one gives back no page of
   another. *)
Alloc == INSTANCE PageAllocator WITH live <- Live
ImplementsPageAllocator == Alloc!Init /\ [][OneFailure => Alloc!Next]_Live

(* Destroying a pool gives back everything that was ever mapped for it. *)
NothingStaysMapped == pc = "destroyed" => mapped = {}

(* No pool has a free page before a page in use, as in a server that never
   frees. *)
Unbroken ==
  \A q \in Pool, k, l \in Page : k < l /\ pages[q][k] = 0 => pages[q][l] = 0

(* An allocation from unbroken pools comes to an end: it returns, or every
   pool is full and the assertion on max_pools stops the process. *)
AllocReturns == (pc = "scan" /\ Unbroken) ~> (pc # "scan")
=============================================================================
