---------------------------- MODULE MCSharedFlash ----------------------------
(* Requests of up to two pages on three pages, even and odd, so that a run  *)
(* can have a head, a whole page and a tail, and one of no blocks.          *)
EXTENDS SharedFlash

MCRequests ==
  {r \in [op : {"read", "write"}, lba : 0 .. 1, count : 0 .. Buffer, ver : Versions,
          whole : {TRUE}] :
     r.lba + r.count <= 2 * Pages}
=============================================================================
