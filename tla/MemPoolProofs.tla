--------------------------- MODULE MemPoolProofs ---------------------------
(***************************************************************************)
(* Proofs about module MemPool, for pools of any size and number, wherever *)
(* the system maps them.                                                   *)
(***************************************************************************)
EXTENDS MemPool, WellFoundedInduction, TLAPS

(***************************************************************************)
(* Least elements.                                                         *)
(***************************************************************************)

(* A set of numbers that is not empty has a least element, and Min finds it. *)
LEMMA MinExists ==
  ASSUME NEW S, S \subseteq Nat, S # {}
  PROVE  Min(S) \in S /\ \A y \in S : Min(S) <= y
<1> DEFINE R == OpToRel(<, Nat)
<1>1. IsWellFoundedOn(R, Nat)
  BY NatLessThanWellFounded
<1>2. PICK x \in S : \A y \in S : ~(<<y, x>> \in R)
  <2> HIDE DEF R
  <2> QED BY <1>1, WFMin
<1>3. ASSUME NEW y \in S PROVE x <= y
  <2>1. ~(y < x)
    BY <1>2, x \in Nat, y \in Nat DEF OpToRel
  <2> QED BY <2>1, x \in Nat, y \in Nat
<1> QED BY <1>2, <1>3 DEF Min

(* An element that is below all others is the one Min finds. *)
LEMMA MinIs ==
  ASSUME NEW S, S \subseteq Int, NEW x \in S, \A y \in S : x <= y
  PROVE  Min(S) = x
<1>1. Min(S) \in S /\ \A y \in S : Min(S) <= y
  BY DEF Min
<1>2. Min(S) \in Int /\ x \in Int
  BY <1>1
<1>3. Min(S) <= x /\ x <= Min(S)
  BY <1>1
<1> QED BY <1>2, <1>3

(* The least of one number is that number. *)
LEMMA MinOfOne ==
  ASSUME NEW x \in Int
  PROVE  Min({x}) = x
  BY DEF Min

(***************************************************************************)
(* Two conditions on the instance.  An extent is short enough for its tags *)
(* not to wrap round.  Pools do not overlap, MAP_FAILED is not near one,   *)
(* and the distance of a page from the base of its pool survives the cast  *)
(* to int32_t, while that from another base does not become a page number  *)
(* by it.                                                                  *)
(***************************************************************************)
TagsFit == HdrPages < TagMod /\ \A n \in Requests : n < TagMod

Starts == {Base[q] : q \in Pool} \cup {MAP_FAILED}

DistancesFit ==
  /\ \A q, r \in Pool : Base[q] = Base[r] => q = r
  /\ \A a, b \in Starts, k \in Page :
       IF a = b THEN PageDistance(PageAt(a, k), b) = k
                ELSE PageDistance(PageAt(a, k), b) \notin Page

(***************************************************************************)
(* The inductive invariant.                                                *)
(***************************************************************************)

(* What is scanned for is a size somebody asked for. *)
TypeInv ==
  /\ TypeOK
  /\ pc = "scan" => req \in Requests

Covers(e, q, k) == e.pool = q /\ k \in e.first .. e.first + e.len - 1

Sound(e) == e.first + e.len <= PoolSize /\ e.len < TagMod

(* Extents lie in mapped pools, and their owner is not the pool itself. *)
HeldInv ==
  /\ pc = "destroyed" => held = {}
  /\ \A e \in held : Sound(e) /\ e.pool < pool_cnt
  /\ Header \notin held

(* No page is in two extents. *)
Apart ==
  \A d, e \in Live, q \in Pool, k \in Page :
    Covers(d, q, k) /\ Covers(e, q, k) => d = e

(* A page of an extent carries its number in the extent, any other page 0. *)
TagInv ==
  \A e \in Live, k \in Page : Covers(e, e.pool, k) => pages[e.pool][k] = k - e.first + 1

FreeInv == \A q \in Pool, k \in Page : ~InUse(q, k) => pages[q][k] = 0

Inv == TypeInv /\ HeldInv /\ Apart /\ TagInv /\ FreeInv

USE PoolAssumption DEF PoolAssumption, Pool, Page

(***************************************************************************)
(* What the scan finds.                                                    *)
(***************************************************************************)

(* The hole starts at the first free page from i on, if there is one. *)
LEMMA HoleStartIs ==
  ASSUME TypeOK
  PROVE  /\ HoleStart \in i .. PoolSize
         /\ HoleStart < PoolSize => pages[p][HoleStart] = 0
<1> DEFINE S == {k \in i .. PoolSize - 1 : pages[p][k] = 0} \cup {PoolSize}
<1>1. i \in Nat /\ S \subseteq Nat /\ S # {}
  BY DEF TypeOK
<1>2. HoleStart \in S
  <2> HIDE DEF S
  <2>1. Min(S) \in S
    BY <1>1, MinExists
  <2> QED BY <2>1 DEF HoleStart, S
<1>3. i <= PoolSize
  BY DEF TypeOK
<1> QED BY <1>1, <1>2, <1>3

(* Every page of the hole is free, and it is no longer than what is asked
   for. *)
LEMMA HoleEndIs ==
  ASSUME TypeOK, req >= 1, HoleStart < PoolSize
  PROVE  /\ HoleEnd \in HoleStart + 1 .. PoolSize
         /\ HoleEnd - HoleStart <= req
         /\ \A k \in HoleStart .. HoleEnd - 1 : pages[p][k] = 0
<1> DEFINE T == {k \in HoleStart + 1 .. PoolSize - 1 : pages[p][k] # 0}
           S == T \cup {PoolSize, HoleStart + req}
<1>1. HoleStart \in Nat /\ req \in Nat /\ pages[p][HoleStart] = 0
  BY HoleStartIs DEF TypeOK
<1>2. S \subseteq Nat /\ S # {}
  BY <1>1
<1>3. HoleEnd \in S /\ \A y \in S : HoleEnd <= y
  <2> HIDE DEF S
  <2>1. Min(S) \in S /\ \A y \in S : Min(S) <= y
    BY <1>2, MinExists
  <2> QED BY <2>1 DEF HoleEnd, S
<1>4. HoleEnd \in HoleStart + 1 .. PoolSize /\ HoleEnd - HoleStart <= req
  <2>1. \A y \in S : y \in Nat /\ y >= HoleStart + 1
    BY <1>1
  <2>2. HoleEnd <= PoolSize /\ HoleEnd <= HoleStart + req
    BY <1>3
  <2>3. HoleEnd \in Nat /\ HoleEnd >= HoleStart + 1
    BY <1>3, <2>1
  <2> QED BY <1>1, <2>2, <2>3
<1>5. ASSUME NEW k \in HoleStart .. HoleEnd - 1 PROVE pages[p][k] = 0
  <2>1. k \notin T
    BY <1>1, <1>3, <1>4
  <2> QED BY <1>1, <1>4, <2>1
<1> QED BY <1>4, <1>5

(***************************************************************************)
(* Typing.                                                                 *)
(***************************************************************************)

TagRow == [Page -> 0 .. TagMod - 1]

(* Tagging a part of a row and clearing a part of it keep it a row of tags. *)
LEMMA RowsAreTags ==
  ASSUME NEW row \in TagRow, NEW k \in Nat, NEW n \in Int
  PROVE  Tagged(row, k, n) \in TagRow /\ Cleared(row, k) \in TagRow
<1>1. ASSUME NEW m \in Page
      PROVE  (IF m \in k .. k + n - 1 THEN Tag(m - k) ELSE row[m]) \in 0 .. TagMod - 1
  BY DEF Tag, TagRow
<1>2. Tagged(row, k, n) \in TagRow
  <2> HIDE DEF Page
  <2> QED BY <1>1 DEF Tagged, TagRow
<1> QED BY <1>2 DEF Cleared, TagRow

(* The pools are created well typed. *)
LEMMA InitTypeInv == Init => TypeInv
<1> SUFFICES ASSUME Init PROVE TypeInv
  OBVIOUS
<1>1. Free0 \in TagRow
  BY DEF Free0, TagRow
<1>2. Tagged(Free0, 0, HdrPages) \in TagRow
  BY <1>1, RowsAreTags, 0 \in Nat, HdrPages \in Int
<1> QED BY <1>1, <1>2 DEF Init, TypeInv, TypeOK, TagRow

(* No turn of the allocation loop, no free, no mapping and no destruction puts
   a tag, a counter or an extent out of range. *)
LEMMA StepTypeInv == TypeInv /\ [Next]_vars => TypeInv'
<1> SUFFICES ASSUME TypeInv, [Next]_vars PROVE TypeInv'
  OBVIOUS
<1> USE DEF TypeInv
<1>a. HoleStart \in 0 .. PoolSize
  BY HoleStartIs DEF TypeOK
<1>b. ASSUME pc = "scan", HoleStart < PoolSize PROVE HoleEnd \in 0 .. PoolSize
  <2>1. req >= 1
    <3>1. req \in 1 .. PoolSize
      BY <1>b
    <3> QED BY <3>1
  <2>2. HoleEnd \in HoleStart + 1 .. PoolSize
    BY <1>b, <2>1, HoleEndIs
  <2> QED BY <1>a, <2>2
<1>c. pages \in [Pool -> TagRow] /\ j \in 0 .. PoolSize
  BY DEF TypeOK, TagRow
<1> USE DEF TypeOK, scan, vars
<1>1. ASSUME NEW n \in Requests, Call(n) PROVE TypeInv'
  BY <1>1 DEF Call
<1>2. CASE TakeHole
  <2>1. HoleStart \in 0 .. PoolSize - 1 /\ HoleEnd \in 0 .. PoolSize
    BY <1>2, <1>a, <1>b DEF TakeHole, Fits
  <2>2. Tagged(pages[p], HoleStart, HoleEnd - HoleStart) \in TagRow
    <3>1. pages[p] \in TagRow /\ HoleStart \in Nat /\ HoleEnd - HoleStart \in Int
      BY <1>c, <2>1
    <3> QED BY <3>1, RowsAreTags
  <2>3. [pool |-> p, first |-> HoleStart, len |-> req] \in Extent
    BY <1>2, <2>1 DEF Extent, TakeHole
  <2>4. pages' \in [Pool -> TagRow]
    <3> HIDE DEF Pool, Page
    <3> QED BY <1>2, <1>c, <2>2 DEF TakeHole
  <2>5. held' \in SUBSET Extent
    BY <1>2, <2>3 DEF TakeHole
  <2>6. /\ i' \in 0 .. PoolSize /\ j' \in 0 .. PoolSize /\ pc' = "idle"
        /\ UNCHANGED <<pool_cnt, mapped, failed, req, p>>
    BY <1>2, <2>1 DEF TakeHole
  <2> HIDE DEF Pool, Page
  <2> QED BY <2>4, <2>5, <2>6 DEF TagRow
<1>3. CASE HoleTooShort
  <2>1. HoleStart \in 0 .. PoolSize /\ HoleEnd \in 0 .. PoolSize
    BY <1>3, <1>a, <1>b DEF HoleTooShort, PoolIsFull
  <2> QED BY <1>3, <2>1 DEF HoleTooShort
<1>4. CASE NextPool
  <2>1. mapped' \in SUBSET Pool /\ failed' \in SUBSET Pool
    <3>1. p + 1 \in Pool
      BY <1>4 DEF NextPool
    <3>2. /\ mapped' = mapped \/ mapped' = mapped \cup {p + 1}
          /\ failed' = failed \/ failed' = failed \cup {p + 1}
      BY <1>4 DEF NextPool, MapPool
    <3> HIDE DEF Pool
    <3> QED BY <3>1, <3>2
  <2>2. pool_cnt' \in 1 .. MaxPools /\ p' \in 0 .. pool_cnt' - 1
    BY <1>4 DEF NextPool
  <2> QED BY <1>4, <2>1, <2>2 DEF NextPool
<1>5. CASE NoMemory \/ OutOfPools
  BY <1>5 DEF NoMemory, OutOfPools
<1>6. ASSUME NEW e \in held, Release(e) PROVE TypeInv'
  <2>1. CASE Releasable(e)
    <3> DEFINE q == Min(Matching(e))
    <3>1. q \in Pool /\ Offset(e, q) \in Nat
      <4>1. Matching(e) \subseteq Nat /\ Matching(e) # {}
        <5> HIDE DEF TypeOK
        <5> QED BY <2>1 DEF Matching, Releasable
      <4>2. q \in Matching(e)
        BY <4>1, MinExists
      <4> QED BY <4>2 DEF Matching
    <3>2. Cleared(pages[q], Offset(e, q)) \in TagRow
      <4> HIDE DEF q
      <4> QED BY <1>c, <3>1, RowsAreTags, 0 \in Int
    <3> QED BY <1>6, <2>1, <3>1, <3>2 DEF Release, TagRow
  <2>2. CASE ~Releasable(e)
    BY <1>6, <2>2 DEF Release
  <2> QED BY <2>1, <2>2
<1>7. CASE Destroy
  <2>1. pages' \in [Pool -> TagRow]
    BY <1>7 DEF Destroy, Free0, TagRow
  <2> QED BY <1>7, <2>1 DEF Destroy, TagRow
<1>8. CASE UNCHANGED vars
  BY <1>8
<1> QED BY <1>1, <1>2, <1>3, <1>4, <1>5, <1>6, <1>7, <1>8 DEF Next, Scan

(* Type correctness holds whatever the tags and distances are cut to. *)
THEOREM TypeCorrect == Spec => []TypeOK
<1>1. TypeInv => TypeOK
  BY DEF TypeInv
<1> QED BY <1>1, InitTypeInv, StepTypeInv, PTL DEF Spec

(***************************************************************************)
(* The tags.                                                               *)
(***************************************************************************)

(* The tag of a page near the start of its extent is its number, uncut. *)
LEMMA ModSmall ==
  ASSUME NEW n \in Nat, n + 1 < TagMod
  PROVE  Tag(n) = n + 1
  BY SMTT(30) DEF Tag

(* The extents in use lie inside their pools. *)
LEMMA LiveIs ==
  ASSUME TypeInv, HeldInv, NEW e \in Live
  PROVE  /\ e \in Extent /\ e.pool \in Pool /\ e.first \in Page
         /\ e.first \in Nat /\ e.len \in Nat \ {0} /\ e.first + e.len <= PoolSize
<1>1. CASE e = Header
  BY <1>1 DEF Header, Extent
<1>2. CASE e \in held
  <2>1. e \in Extent
    BY <1>2 DEF TypeInv, TypeOK
  <2>2. e.first + e.len <= PoolSize
    BY <1>2 DEF HeldInv, Sound
  <2> QED BY <2>1, <2>2 DEF Extent
<1> QED BY <1>1, <1>2 DEF Live

(* Tags tell the extents: this is where the scan of ain_pool_free stops. *)
LEMMA RunEndIs ==
  ASSUME Inv, NEW e \in Live
  PROVE  /\ pages[e.pool][e.first] = 1
         /\ RunEnd(pages[e.pool], e.first) = e.first + e.len - 1
<1> DEFINE last == e.first + e.len - 1
           row == pages[e.pool]
           S == {m \in e.first .. PoolSize - 1 : m = PoolSize - 1 \/ row[m] >= row[m + 1]}
<1>1. /\ e.first \in Nat /\ e.len \in Nat \ {0} /\ e.pool \in Pool
      /\ last \in e.first .. PoolSize - 1 /\ last \in Nat
  <2>1. e.first \in Nat /\ e.len \in Nat \ {0} /\ e.pool \in Pool /\ e.first + e.len <= PoolSize
    <3> HIDE DEF Pool, Page
    <3>1. TypeInv /\ HeldInv
      BY DEF Inv
    <3> QED BY <3>1, LiveIs
  <2>2. last \in Nat /\ last >= e.first /\ last <= PoolSize - 1
    BY <2>1, SMTT(30)
  <2> HIDE DEF last
  <2> QED BY <2>1, <2>2
<1>2. ASSUME NEW k \in e.first .. last PROVE row[k] = k - e.first + 1 /\ Covers(e, e.pool, k)
  <2>1. k \in Page /\ Covers(e, e.pool, k)
    BY <1>1 DEF Covers
  <2> QED BY <2>1 DEF Inv, TagInv
<1>3. ASSUME last # PoolSize - 1 PROVE row[last] >= row[last + 1]
  <2> DEFINE n == last + 1
  <2>1. n \in Page /\ n \in Nat /\ ~Covers(e, e.pool, n)
    <3>1. n \in 0 .. PoolSize - 1 /\ n \notin e.first .. last
      <4> HIDE DEF last
      <4> QED BY <1>1, <1>3
    <3> QED BY <3>1 DEF Covers
  <2>2. row[last] \in Nat /\ row[last] >= 1
    <3>1. row[last] = last - e.first + 1
      <4>1. last \in e.first .. last
        BY <1>1
      <4> HIDE DEF last
      <4> QED BY <1>2, <4>1
    <3> QED BY <1>1, <3>1, SMTT(30)
  <2>3. CASE ~InUse(e.pool, n)
    <3>1. row[n] = 0
      <4> HIDE DEF n
      <4> QED BY <1>1, <2>1, <2>3 DEF Inv, FreeInv
    <3> QED BY <2>2, <3>1
  <2>4. CASE InUse(e.pool, n)
    <3> HIDE DEF n
    <3>1. PICK d \in Live : Covers(d, e.pool, n)
      BY <2>4 DEF InUse, Covers
    <3>2. d.first \in Nat /\ d.len \in Nat
      BY LiveIs DEF Inv
    <3>3. ~Covers(d, e.pool, last)
      <4>1. Covers(e, e.pool, last) /\ last \in Page
        BY <1>1, <1>2
      <4>2. d # e
        BY <2>1, <3>1
      <4> HIDE DEF last
      <4> QED BY <1>1, <4>1, <4>2 DEF Inv, Apart
    <3>4. d.first = n
      BY <1>1, <3>1, <3>2, <3>3 DEF Covers, n
    <3>5. row[n] = n - d.first + 1
      BY <2>1, <3>1 DEF Inv, TagInv, Covers
    <3> QED BY <2>1, <2>2, <3>4, <3>5 DEF n
  <2> QED BY <2>3, <2>4
<1>4. last \in S
  BY <1>1, <1>3
<1>5. ASSUME NEW m \in S PROVE last <= m
  <2>1. m \in Nat /\ m >= e.first
    BY <1>1
  <2>2. ASSUME m < last PROVE FALSE
    <3>1. PICK n \in Nat : n = m + 1
      BY <2>1
    <3>2. m \in e.first .. last /\ n \in e.first .. last
      BY <1>1, <2>1, <2>2, <3>1, SMTT(30)
    <3>3. row[m] = m - e.first + 1 /\ row[n] = n - e.first + 1
      <4> HIDE DEF last, row, S
      <4> QED BY <1>2, <3>2
    <3>4. row[m] >= row[n]
      BY <1>1, <2>1, <2>2, <3>1
    <3> HIDE DEF row
    <3> QED BY <1>1, <2>1, <3>1, <3>3, <3>4
  <2> QED BY <1>1, <2>1, <2>2
<1>6. Min(S) = last
  <2>1. S \subseteq Int
    BY <1>1
  <2> HIDE DEF S, last
  <2> QED BY <1>4, <1>5, <2>1, MinIs
<1>7. row[e.first] = 1
  <2>1. row[e.first] = e.first - e.first + 1
    <3>1. e.first \in e.first .. last
      BY <1>1
    <3> HIDE DEF row, last
    <3> QED BY <1>2, <3>1
  <2> QED BY <1>1, <2>1
<1> QED BY <1>6, <1>7 DEF RunEnd

(* A page of an extent in use is not tagged free. *)
LEMMA UsedIsTagged ==
  ASSUME Inv, NEW q \in Pool, NEW k \in Page, InUse(q, k)
  PROVE  pages[q][k] # 0
<1>1. PICK e \in Live : Covers(e, q, k)
  BY DEF InUse, Covers
<1>2. e.first \in Nat /\ TypeInv /\ HeldInv
  BY LiveIs DEF Inv
<1>3. pages[q][k] = k - e.first + 1
  BY <1>1 DEF Inv, TagInv, Covers
<1>4. k >= e.first /\ k \in Nat
  BY <1>1, <1>2 DEF Covers
<1> QED BY <1>2, <1>3, <1>4

(* An extent that was given out is found again: in its own pool, in no other. *)
LEMMA HeldIsReleasable ==
  ASSUME Inv, DistancesFit, OneFailure, NEW e \in held
  PROVE  Matching(e) = {e.pool} /\ Offset(e, e.pool) = e.first /\ Releasable(e)
<1>1. e \in Live
  BY DEF Live, Inv, HeldInv
<1>2. e \in Extent /\ e.pool \in Pool /\ e.first \in Page /\ e.first \in Nat /\ e.pool < pool_cnt
  <2>1. TypeInv /\ HeldInv
    BY DEF Inv
  <2> HIDE DEF Pool, Page
  <2> QED BY <1>1, <2>1, LiveIs DEF HeldInv
<1>3. \A q \in Pool : Address(q) \in Starts /\ (Address(q) = Address(e.pool) <=> q = e.pool)
  <2> SUFFICES ASSUME NEW q \in Pool
               PROVE  Address(q) \in Starts /\ (Address(q) = Address(e.pool) <=> q = e.pool)
    OBVIOUS
  <2>1. Base[q] # MAP_FAILED /\ Base[e.pool] # MAP_FAILED
    BY <1>2 DEF MAP_FAILED
  <2>2. Base[q] = Base[e.pool] <=> q = e.pool
    BY <1>2 DEF DistancesFit
  <2>3. q \in failed /\ e.pool \in failed => q = e.pool
    BY DEF OneFailure
  <2> HIDE DEF Pool, Page
  <2> QED BY <1>2, <2>1, <2>2, <2>3 DEF Address, Starts
<1>4. Offset(e, e.pool) = e.first
  BY <1>2, <1>3 DEF DistancesFit, Offset
<1>5. \A q \in Pool : q # e.pool => Offset(e, q) \notin Page
  BY <1>2, <1>3 DEF DistancesFit, Offset
<1>6. 0 .. pool_cnt - 1 \subseteq Pool /\ e.pool \in 0 .. pool_cnt - 1
  <2>1. pool_cnt \in 1 .. MaxPools
    BY DEF Inv, TypeInv, TypeOK
  <2>2. e.pool \in Nat
    BY <1>2
  <2> QED BY <1>2, <2>1, <2>2
<1>7. Matching(e) = {e.pool}
  <2> HIDE DEF Page, Pool
  <2> QED BY <1>2, <1>4, <1>5, <1>6 DEF Matching
<1>8. Min({e.pool}) = e.pool
  BY <1>2, e.pool \in Int, MinOfOne
<1>9. pages[e.pool][e.first] = 1
  BY <1>1, RunEndIs
<1> QED BY <1>4, <1>7, <1>8, <1>9 DEF Releasable

(***************************************************************************)
(* What the two operations do to pages and extents.                        *)
(***************************************************************************)

(* An allocation gives out one more extent, in free pages of one pool, tags
   them 1, 2, 3, ... and changes no other tag. *)
LEMMA TakeHoleIs ==
  ASSUME Inv, TagsFit, TakeHole
  PROVE  LET e == [pool |-> p, first |-> HoleStart, len |-> req]
         IN  /\ e \in Extent /\ Sound(e) /\ p < pool_cnt
             /\ held' = held \cup {e} /\ Live' = Live \cup {e}
             /\ \A k \in Page : Covers(e, p, k) => ~InUse(p, k)
             /\ pages' = [pages EXCEPT ![p] = [k \in Page |->
                   IF Covers(e, p, k) THEN k - e.first + 1 ELSE pages[p][k]]]
<1> DEFINE e == [pool |-> p, first |-> HoleStart, len |-> req]
<1>1. /\ HoleStart \in Nat /\ HoleStart < PoolSize /\ req \in 1 .. PoolSize
      /\ req < TagMod /\ p \in Pool /\ p < pool_cnt
  <2>1. TypeOK /\ req \in Requests
    BY DEF Inv, TypeInv, TakeHole
  <2>2. HoleStart \in i .. PoolSize /\ i \in Nat
    BY <2>1, HoleStartIs DEF TypeOK
  <2>3. HoleStart < PoolSize
    BY DEF TakeHole, Fits
  <2>4. p \in Pool /\ p < pool_cnt
    BY <2>1 DEF TypeOK
  <2> QED BY <2>1, <2>2, <2>3, <2>4 DEF TagsFit
<1>2. /\ HoleEnd - HoleStart = req /\ HoleEnd <= PoolSize /\ HoleEnd \in Nat
      /\ \A k \in HoleStart .. HoleEnd - 1 : pages[p][k] = 0
  <2>1. TypeOK
    BY DEF Inv, TypeInv
  <2>2. /\ HoleEnd \in HoleStart + 1 .. PoolSize /\ HoleEnd - HoleStart <= req
        /\ \A k \in HoleStart .. HoleEnd - 1 : pages[p][k] = 0
    BY <1>1, <2>1, HoleEndIs
  <2>3. HoleEnd - HoleStart >= req
    BY DEF TakeHole, Fits
  <2> QED BY <1>1, <2>2, <2>3
<1>3. \A k \in Page : Covers(e, p, k) <=> k \in HoleStart .. HoleEnd - 1
  BY <1>1, <1>2 DEF Covers
<1>4. ASSUME NEW k \in Page, Covers(e, p, k) PROVE ~InUse(p, k)
  <2>1. pages[p][k] = 0
    BY <1>2, <1>3, <1>4
  <2> QED BY <1>1, <2>1, UsedIsTagged
<1>5. Tagged(pages[p], HoleStart, HoleEnd - HoleStart)
        = [k \in Page |-> IF Covers(e, p, k) THEN k - e.first + 1 ELSE pages[p][k]]
  <2>1. ASSUME NEW k \in Page
        PROVE  (IF k \in HoleStart .. HoleStart + req - 1 THEN Tag(k - HoleStart) ELSE pages[p][k])
               = (IF Covers(e, p, k) THEN k - e.first + 1 ELSE pages[p][k])
    <3>1. CASE Covers(e, p, k)
      <4>1. k - HoleStart \in Nat /\ k - HoleStart + 1 < TagMod
        BY <1>1, <1>2, <1>3, <3>1
      <4>2. Tag(k - HoleStart) = k - HoleStart + 1
        BY <4>1, ModSmall
      <4> QED BY <1>1, <1>2, <1>3, <3>1, <4>2, SMTT(30)
    <3>2. CASE ~Covers(e, p, k)
      BY <1>1, <1>2, <1>3, <3>2
    <3> QED BY <3>1, <3>2
  <2> HIDE DEF Page, e
  <2> QED BY <1>2, <2>1 DEF Tagged
<1>6. e \in Extent /\ Sound(e)
  BY <1>1, <1>2 DEF Extent, Sound
<1>7. held' = held \cup {e} /\ Live' = Live \cup {e}
  BY DEF TakeHole, Live, Header
<1> HIDE DEF e
<1> QED BY <1>1, <1>4, <1>5, <1>6, <1>7 DEF TakeHole, e

(* A free takes back one extent, clears its tags and no others. *)
LEMMA ReleaseIs ==
  ASSUME Inv, DistancesFit, OneFailure, NEW e \in held, Release(e)
  PROVE  /\ held' = held \ {e} /\ Live' = Live \ {e} /\ pc' = pc
         /\ pages' = [pages EXCEPT ![e.pool] = [k \in Page |->
               IF Covers(e, e.pool, k) THEN 0 ELSE pages[e.pool][k]]]
<1>1. Matching(e) = {e.pool} /\ Offset(e, e.pool) = e.first /\ Releasable(e)
  BY HeldIsReleasable
<1>2. pc = "idle" /\ held' = held \ {e} /\ pc' = pc
  BY <1>1 DEF Release
<1>3. e # Header /\ e \in Live
  BY <1>2 DEF Inv, HeldInv, Live
<1>4. Live' = Live \ {e}
  BY <1>2, <1>3 DEF Live, Header
<1>5. e.pool \in Pool
  <2> HIDE DEF Pool, Page
  <2> QED BY <1>3, LiveIs DEF Inv
<1>6. Min(Matching(e)) = e.pool
  BY <1>1, <1>5, e.pool \in Int, MinOfOne
<1>7. Cleared(pages[e.pool], e.first)
        = [k \in Page |-> IF Covers(e, e.pool, k) THEN 0 ELSE pages[e.pool][k]]
  BY <1>3, RunEndIs DEF Cleared, Covers
<1> QED BY <1>1, <1>2, <1>4, <1>6, <1>7 DEF Release

(***************************************************************************)
(* The invariant holds.                                                    *)
(***************************************************************************)

LEMMA InitInv == TagsFit /\ Init => Inv
<1> SUFFICES ASSUME TagsFit, Init PROVE Inv
  OBVIOUS
<1>1. TypeInv
  BY InitTypeInv
<1>2. held = {} /\ pc = "idle" /\ Live = {Header}
  BY DEF Init, Live
<1>3. HeldInv /\ Apart
  BY <1>2 DEF HeldInv, Apart
<1>4. ASSUME NEW k \in Page
      PROVE  pages[0][k] = (IF k \in 0 .. HdrPages - 1 THEN k + 1 ELSE 0)
  <2>1. pages[0] = Tagged(Free0, 0, HdrPages)
    BY DEF Init
  <2>2. k \in 0 .. HdrPages - 1 => Tag(k - 0) = k + 1
    BY ModSmall DEF TagsFit
  <2> QED BY <2>1, <2>2 DEF Tagged, Free0
<1>5. ASSUME NEW q \in Pool, q # 0, NEW k \in Page PROVE pages[q][k] = 0
  BY <1>5 DEF Init, Free0
<1>6. TagInv
  BY <1>2, <1>4 DEF TagInv, Covers, Header
<1>7. FreeInv
  BY <1>2, <1>4, <1>5 DEF FreeInv, InUse, Header
<1> QED BY <1>1, <1>3, <1>6, <1>7 DEF Inv

(* Steps that neither give out nor take back an extent. *)
LEMMA QuietStep ==
  ASSUME Inv, TypeInv', held' = held, pages' = pages, pc # "destroyed",
         pc' # "destroyed", pool_cnt' >= pool_cnt
  PROVE  Inv'
<1>1. Live' = Live
  BY DEF Live, Header
<1>2. HeldInv'
  <2>1. \A e \in held : e.pool < pool_cnt'
    <3> SUFFICES ASSUME NEW e \in held PROVE e.pool < pool_cnt'
      OBVIOUS
    <3>1. e.pool \in Nat /\ pool_cnt \in Nat /\ pool_cnt' \in Nat
      BY DEF Inv, TypeInv, TypeOK, Extent
    <3>2. e.pool < pool_cnt
      BY DEF Inv, HeldInv
    <3> QED BY <3>1, <3>2
  <2> QED BY <2>1 DEF Inv, HeldInv, Sound, Header
<1>3. Apart' /\ TagInv' /\ FreeInv'
  BY <1>1 DEF Inv, Apart, TagInv, FreeInv, Covers, InUse
<1> QED BY <1>2, <1>3 DEF Inv

(* Giving out an extent preserves the invariant. *)
LEMMA TakeHoleInv ==
  ASSUME Inv, TypeInv', TagsFit, TakeHole
  PROVE  Inv'
<1> DEFINE e == [pool |-> p, first |-> HoleStart, len |-> req]
<1>1. /\ e \in Extent /\ Sound(e) /\ e.pool = p /\ p \in Pool /\ p < pool_cnt
      /\ held' = held \cup {e} /\ Live' = Live \cup {e}
      /\ \A k \in Page : Covers(e, p, k) => ~InUse(p, k)
      /\ pages' = [pages EXCEPT ![p] = [k \in Page |->
            IF Covers(e, p, k) THEN k - e.first + 1 ELSE pages[p][k]]]
  <2>1. e \in Extent => p \in Pool
    BY DEF Extent
  <2> QED BY <2>1, TakeHoleIs
<1>2. pc' = "idle" /\ pool_cnt' = pool_cnt /\ pages \in [Pool -> TagRow]
  BY DEF TakeHole, Inv, TypeInv, TypeOK, TagRow
<1> HIDE DEF e
<1> HIDE DEF Pool, Page
<1>3. \A q \in Pool, k \in Page :
        pages'[q][k] = IF Covers(e, q, k) THEN k - e.first + 1 ELSE pages[q][k]
  BY <1>1, <1>2 DEF Covers, TagRow
<1>4. \A q \in Pool, k \in Page, d \in Live : Covers(e, q, k) => ~Covers(d, q, k)
  BY <1>1 DEF Covers, InUse
<1>5. \A d \in Live : d.pool \in Pool
  BY LiveIs DEF Inv
<1>6. HeldInv'
  <2>1. e # Header
    <3>1. Covers(Header, 0, 0) /\ 0 \in Pool /\ 0 \in Page
      BY DEF Covers, Header, Pool, Page
    <3>2. Header \in Live
      BY DEF Live, TakeHole
    <3> QED BY <1>4, <3>1, <3>2
  <2> QED BY <1>1, <1>2, <2>1 DEF Inv, HeldInv, Sound, Header
<1>7. Apart'
  BY <1>1, <1>4 DEF Inv, Apart, Covers
<1>8. TagInv'
  <2> SUFFICES ASSUME NEW d \in Live', NEW k \in Page, Covers(d, d.pool, k)
               PROVE  pages'[d.pool][k] = k - d.first + 1
    BY DEF TagInv, Covers
  <2>1. CASE d = e
    BY <1>1, <1>3, <2>1
  <2>2. CASE d \in Live
    BY <1>3, <1>4, <1>5, <2>2 DEF Inv, TagInv
  <2> QED BY <1>1, <2>1, <2>2
<1>9. FreeInv'
  <2> SUFFICES ASSUME NEW q \in Pool, NEW k \in Page, ~(InUse(q, k)')
               PROVE  pages'[q][k] = 0
    BY DEF FreeInv
  <2>1. ~InUse(q, k) /\ ~Covers(e, q, k)
    BY <1>1 DEF InUse, Covers
  <2> QED BY <1>3, <2>1 DEF Inv, FreeInv
<1> QED BY <1>6, <1>7, <1>8, <1>9 DEF Inv

(* So does taking one back. *)
LEMMA ReleaseInv ==
  ASSUME Inv, TypeInv', DistancesFit, OneFailure, NEW e \in held, Release(e)
  PROVE  Inv'
<1>1. /\ held' = held \ {e} /\ Live' = Live \ {e} /\ pc' = pc
      /\ pages' = [pages EXCEPT ![e.pool] = [k \in Page |->
            IF Covers(e, e.pool, k) THEN 0 ELSE pages[e.pool][k]]]
  BY ReleaseIs
<1>2. pool_cnt' = pool_cnt /\ pages \in [Pool -> TagRow] /\ e \in Live
  BY DEF Release, Inv, TypeInv, TypeOK, TagRow, Live
<1> HIDE DEF Pool, Page
<1>3. \A d \in Live : d.pool \in Pool
  BY LiveIs DEF Inv
<1>4. \A q \in Pool, k \in Page :
        pages'[q][k] = IF Covers(e, q, k) THEN 0 ELSE pages[q][k]
  BY <1>1, <1>2, <1>3 DEF Covers, TagRow
<1>5. HeldInv'
  BY <1>1, <1>2 DEF Inv, HeldInv, Sound, Header
<1>6. Apart'
  BY <1>1 DEF Inv, Apart, Covers
<1>7. TagInv'
  <2> SUFFICES ASSUME NEW d \in Live', NEW k \in Page, Covers(d, d.pool, k)
               PROVE  pages'[d.pool][k] = k - d.first + 1
    BY DEF TagInv, Covers
  <2>1. d \in Live /\ ~Covers(e, d.pool, k)
    BY <1>1, <1>2, <1>3 DEF Inv, Apart
  <2> QED BY <1>3, <1>4, <2>1 DEF Inv, TagInv
<1>8. FreeInv'
  <2> SUFFICES ASSUME NEW q \in Pool, NEW k \in Page, ~(InUse(q, k)')
               PROVE  pages'[q][k] = 0
    BY DEF FreeInv
  <2>1. Covers(e, q, k) \/ ~InUse(q, k)
    BY <1>1 DEF InUse, Covers
  <2> QED BY <1>4, <2>1 DEF Inv, FreeInv
<1> QED BY <1>5, <1>6, <1>7, <1>8 DEF Inv

(* So does every step, as long as no two pools have failed. *)
LEMMA StepInv ==
  ASSUME TagsFit, DistancesFit, OneFailure, Inv, [Next]_vars
  PROVE  Inv'
<1>1. TypeInv'
  BY StepTypeInv DEF Inv
<1>2. pool_cnt \in Nat
  BY DEF Inv, TypeInv, TypeOK
<1>3. ASSUME NEW n \in Requests, Call(n) PROVE Inv'
  BY <1>1, <1>2, <1>3, QuietStep DEF Call
<1>4. CASE TakeHole
  BY <1>1, <1>4, TakeHoleInv
<1>5. CASE HoleTooShort
  BY <1>1, <1>2, <1>5, QuietStep DEF HoleTooShort
<1>6. CASE NextPool
  BY <1>1, <1>2, <1>6, QuietStep DEF NextPool
<1>7. CASE NoMemory \/ OutOfPools
  BY <1>1, <1>2, <1>7, QuietStep DEF NoMemory, OutOfPools
<1>8. ASSUME NEW e \in held, Release(e) PROVE Inv'
  BY <1>1, <1>8, ReleaseInv
<1>9. CASE Destroy
  <2>1. Live' = {} /\ held' = {} /\ pages' = [q \in Pool |-> Free0]
    BY <1>9 DEF Destroy, Live
  <2>2. HeldInv' /\ Apart' /\ TagInv'
    BY <2>1 DEF HeldInv, Apart, TagInv
  <2>3. FreeInv'
    BY <2>1 DEF FreeInv, Free0
  <2> QED BY <1>1, <2>2, <2>3 DEF Inv
<1>10. CASE UNCHANGED vars
  BY <1>10 DEF vars, scan, Inv, TypeInv, TypeOK, HeldInv, Sound, Apart, TagInv, FreeInv,
               Live, Header, Covers, InUse
<1> QED BY <1>3, <1>4, <1>5, <1>6, <1>7, <1>8, <1>9, <1>10 DEF Next, Scan

(* A pool that could not be mapped stays so. *)
LEMMA FailedStay == [Next]_vars => failed \subseteq failed'
  BY DEF Next, Scan, Call, TakeHole, HoleTooShort, NextPool, MapPool, NoMemory, OutOfPools,
         Release, Destroy, vars

(* As long as tags and distances fit, the invariant holds in every reachable
   state up to the second failed mapping. *)
LEMMA AlwaysInv ==
  ASSUME TagsFit, DistancesFit
  PROVE  Spec => [](OneFailure => Inv)
<1>1. Init => (OneFailure => Inv)
  BY InitInv
<1>2. (OneFailure => Inv) /\ [Next]_vars => (OneFailure => Inv)'
  <2> SUFFICES ASSUME OneFailure => Inv, [Next]_vars, OneFailure'
               PROVE  Inv'
    OBVIOUS
  <2>1. OneFailure
    BY FailedStay DEF OneFailure
  <2> QED BY <2>1, StepInv
<1> QED BY <1>1, <1>2, PTL DEF Spec

(* "pages that are free have 0, occupied pages have 1 or consecutive page no",
   as long as no size asked for reaches the range of a tag and no two pools
   have failed. *)
THEOREM TagsAreRight ==
  ASSUME TagsFit, DistancesFit
  PROVE  Spec => []FreePagesAreTaggedZero
<1>1. (OneFailure => Inv) => FreePagesAreTaggedZero
  BY UsedIsTagged DEF FreePagesAreTaggedZero, Inv, FreeInv
<1> QED BY <1>1, AlwaysInv, PTL

(* Where an extent starts and ends can be read off the tags. *)
THEOREM TagsDelimit ==
  ASSUME TagsFit, DistancesFit
  PROVE  Spec => []TagsTellExtents
<1>1. (OneFailure => Inv) => TagsTellExtents
  BY RunEndIs DEF TagsTellExtents
<1> QED BY <1>1, AlwaysInv, PTL

(* Neither assertion of ain_pool_free fails on a pointer that was given out,
   and it is looked for in its own pool only. *)
THEOREM FreeIsSafe ==
  ASSUME TagsFit, DistancesFit
  PROVE  Spec => []HeldCanBeReleased
<1>1. (OneFailure => Inv) => HeldCanBeReleased
  BY HeldIsReleasable DEF HeldCanBeReleased
<1> QED BY <1>1, AlwaysInv, PTL

(***************************************************************************)
(* The pool implements the abstract allocator: extents in use never share  *)
(* a page, and a free gives back one extent.                               *)
(***************************************************************************)

LEMMA StepRefines ==
  ASSUME TagsFit, DistancesFit, OneFailure, Inv, [Next]_vars
  PROVE  [Alloc!Next]_Live
<1> USE DEF Alloc!Next
<1>1. CASE TakeHole
  <2> DEFINE e == [pool |-> p, first |-> HoleStart, len |-> req]
  <2>1. /\ e \in Extent /\ Sound(e) /\ Live' = Live \cup {e}
        /\ \A k \in Page : Covers(e, p, k) => ~InUse(p, k)
    BY <1>1, TakeHoleIs
  <2>2. Header \in Live /\ req \in Requests
    BY <1>1 DEF TakeHole, Live, Inv, TypeInv
  <2>3. p \in Pool /\ HoleStart \in Page /\ req \in Nat \ {0}
    BY <2>1, <2>2 DEF Extent
  <2>4. HoleStart + req - 1 \in Page
    BY <2>1, <2>3 DEF Sound
  <2>5. ASSUME NEW d \in Live PROVE Alloc!Pages(d) \cap Alloc!Pages(e) = {}
    <3> SUFFICES ASSUME NEW k \in HoleStart .. HoleStart + req - 1, d.pool = p,
                        k \in d.first .. d.first + d.len - 1
                 PROVE  FALSE
      BY DEF Alloc!Pages
    <3>1. k \in Page /\ Covers(e, p, k)
      BY <2>3, <2>4 DEF Covers
    <3> QED BY <2>1, <3>1 DEF InUse
  <2>6. Alloc!Alloc(e)
    BY <2>1, <2>2, <2>4, <2>5 DEF Alloc!Alloc
  <2> QED BY <2>2, <2>3, <2>6
<1>2. ASSUME NEW e \in held, Release(e) PROVE Alloc!Next
  <2>1. Live' = Live \ {e} /\ e \in Live /\ e # Header
    BY <1>2, ReleaseIs DEF Live, Release, Inv, HeldInv
  <2> QED BY <2>1 DEF Alloc!Free
<1>3. CASE Destroy
  BY <1>3 DEF Destroy, Live, Alloc!Destroy
<1>4. ASSUME NEW n \in Requests, Call(n) PROVE UNCHANGED Live
  BY <1>4 DEF Call, Live, Header
<1>5. CASE HoleTooShort
  BY <1>5 DEF HoleTooShort, Live, Header
<1>6. CASE NextPool
  BY <1>6 DEF NextPool, Live, Header
<1>7. CASE NoMemory \/ OutOfPools
  BY <1>7 DEF NoMemory, OutOfPools, Live, Header
<1>8. CASE UNCHANGED vars
  BY <1>8 DEF vars, Live, Header
<1> QED BY <1>1, <1>2, <1>3, <1>4, <1>5, <1>6, <1>7, <1>8 DEF Next, Scan

(* Each operation of the pool is one of the allocator's, or none, up to the
   second failed mapping. *)
THEOREM PoolRefinesAllocator ==
  ASSUME TagsFit, DistancesFit
  PROVE  Spec => ImplementsPageAllocator
<1>1. Init => Alloc!Init
  BY DEF Init, Alloc!Init, Live
<1>2. (OneFailure => Inv) /\ [Next]_vars => [OneFailure => Alloc!Next]_Live
  BY StepRefines
<1> QED BY <1>1, <1>2, AlwaysInv, PTL DEF Spec, ImplementsPageAllocator

(***************************************************************************)
(* Unmapping.                                                              *)
(***************************************************************************)

(* Only pools that were counted are ever mapped. *)
MappedInv ==
  /\ mapped \subseteq 0 .. pool_cnt - 1
  /\ pc = "destroyed" => mapped = {}

(* No step maps a pool without counting it. *)
LEMMA StepMappedInv == TypeOK /\ MappedInv /\ [Next]_vars => MappedInv'
<1> SUFFICES ASSUME TypeOK, MappedInv, [Next]_vars PROVE MappedInv'
  OBVIOUS
<1> USE DEF MappedInv, TypeOK
<1>1. CASE NextPool
  <2>1. pool_cnt \in Nat /\ pc' = "scan"
    BY <1>1 DEF NextPool
  <2>2. CASE p + 1 = pool_cnt
    <3>1. pool_cnt' = pool_cnt + 1
      BY <1>1, <2>2 DEF NextPool
    <3>2. mapped' = mapped \/ mapped' = mapped \cup {pool_cnt}
      BY <1>1, <2>2 DEF NextPool, MapPool
    <3>3. \A q \in mapped' : q \in 0 .. pool_cnt
      <4>1. \A q \in mapped : q \in 0 .. pool_cnt
        BY <2>1
      <4>2. pool_cnt \in 0 .. pool_cnt
        BY <2>1
      <4> QED BY <3>2, <4>1, <4>2
    <3> QED BY <2>1, <3>1, <3>3
  <2>3. CASE p + 1 # pool_cnt
    BY <1>1, <2>1, <2>3 DEF NextPool, MapPool
  <2> QED BY <2>2, <2>3
<1>2. CASE Destroy
  <2>1. mapped' = {}
    BY <1>2 DEF Destroy, Counted
  <2> QED BY <2>1
<1>3. CASE TakeHole \/ HoleTooShort \/ NoMemory \/ OutOfPools
  BY <1>3 DEF TakeHole, HoleTooShort, NoMemory, OutOfPools
<1>4. ASSUME NEW n \in Requests, Call(n) PROVE MappedInv'
  BY <1>4 DEF Call
<1>5. ASSUME NEW e \in held, Release(e) PROVE MappedInv'
  BY <1>5 DEF Release
<1>6. CASE UNCHANGED vars
  BY <1>6 DEF vars
<1> QED BY <1>1, <1>2, <1>3, <1>4, <1>5, <1>6 DEF Next, Scan

(* Destroying the pool leaves nothing mapped, even if some mapping failed. *)
THEOREM DestroyGivesAllBack == Spec => []NothingStaysMapped
<1>1. Init => MappedInv
  BY DEF Init, MappedInv
<1>2. MappedInv => NothingStaysMapped
  BY DEF MappedInv, NothingStaysMapped
<1> QED BY <1>1, <1>2, TypeCorrect, StepMappedInv, PTL DEF Spec
=============================================================================
