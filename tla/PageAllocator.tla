--------------------------- MODULE PageAllocator ---------------------------
(***************************************************************************)
(* What a page allocator promises its user: an allocation returns an       *)
(* extent of the size asked for that shares no page with any other extent  *)
(* in use, and freeing an extent gives back that one and no other.         *)
(***************************************************************************)
EXTENDS Integers

CONSTANTS
  Pool,        (* pools the extents lie in                                 *)
  Page,        (* page numbers of one pool                                 *)
  Requests,    (* sizes asked for                                          *)
  Header       (* the extent the allocator keeps for itself                *)

VARIABLE live  (* extents in use, the header's among them                  *)

Pages(e) == {<<e.pool, k>> : k \in e.first .. e.first + e.len - 1}

Disjoint(S) == \A d, e \in S : d # e => Pages(d) \cap Pages(e) = {}

Init == live = {Header}

Alloc(e) ==
  /\ Header \in live
  /\ \A d \in live : Pages(d) \cap Pages(e) = {}
  /\ e.first + e.len - 1 \in Page
  /\ live' = live \cup {e}

Free(e) ==
  /\ e \in live \ {Header}
  /\ live' = live \ {e}

(* The allocator goes, with its own extent and all others. *)
Destroy ==
  /\ live # {}
  /\ live' = {}

Next ==
  \/ \E p \in Pool, k \in Page, n \in Requests :
       Alloc([pool |-> p, first |-> k, len |-> n])
  \/ \E e \in live : Free(e)
  \/ Destroy

Spec == Init /\ [][Next]_live
=============================================================================
