---------------------------- MODULE MCOsosBridge ----------------------------
(* Requests of up to two pages anywhere on three pages, so that a run can   *)
(* have a head, a whole page and a tail, and one of no blocks.              *)
EXTENDS OsosBridge

MCRequests ==
  {r \in [op : {"read", "write"}, lba : 0 .. 2, count : 0 .. Buffer, ver : Versions,
          whole : {TRUE}] :
     r.lba + r.count <= 2 * Pages}
=============================================================================
