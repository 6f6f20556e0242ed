---------------------------- MODULE MCEfiBlockIo ----------------------------
(* Requests of up to two pages anywhere on three pages, so that a run can   *)
(* have a head, a whole page and a tail; one with a ragged byte count.      *)
EXTENDS EfiBlockIo

MCRequests ==
  {r \in [op : {"read", "write"}, lba : 0 .. 3, count : 0 .. Buffer, ver : Versions,
          whole : BOOLEAN] :
     r.lba + r.count <= 2 * Pages /\ (r.whole \/ (r.count = 1 /\ r.lba = 1))}
=============================================================================
