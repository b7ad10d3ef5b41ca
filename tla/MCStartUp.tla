----------------------------- MODULE MCStartUp -----------------------------
(* Values of StartUp's constants. *)
EXTENDS StartUp

BothSystems == {"windows", "linux"}
FewCpus == 1 .. 4

(* The default; the least that leaves the server a connection; the most whose
   pool has a header of less than 256 pages; the least whose header has 256, so
   that the table is put over its last page; the least whose header has more,
   so that the allocation of the table does not return. *)
BoundaryTotals == {5, 512, MostConnections, 8150, 8182}

(* None, and numbers of one to five digits up to the largest port. *)
WrittenPorts == {<<>>, <<1>>, <<8, 0>>, <<3, 9, 4, 8, 0>>, <<6, 5, 5, 3, 5>>}

(* They are ports as the theorems about the listeners speak of. *)
ASSUME PortsAreWritten ==
  \A p \in WrittenPorts \ {<<>>} : \E port \in 1 .. 2^16 - 1 : WrittenAs(port, p)
=============================================================================
