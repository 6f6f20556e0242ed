---------------------------- MODULE StorageDomain ----------------------------
(***************************************************************************)
(* What the storage modules talk about: 4 KiB blocks, 8 KiB flash pages of *)
(* two blocks each, and requests for runs of blocks.                       *)
(*                                                                         *)
(* The contents of a block say which block they were written for, so data  *)
(* that ends up in the wrong half, page or place of a buffer shows.        *)
(***************************************************************************)
EXTENDS Integers

CONSTANTS
  Pages,      \* 8 KiB pages the FTL exports
  Buffer,     \* blocks in the memory at the caller's buffer and behind it
  Versions,   \* contents a request may write
  Requests    \* the requests callers make

Blocks == 0 .. 2 * Pages - 1
Slots == 0 .. Buffer - 1

(* Erased flash reads as 0xFF; Junk is the outcome of a broken transfer.    *)
Erased == [addr |-> -1, ver |-> "ff"]
Junk == [addr |-> -1, ver |-> "junk"]
Value == [addr : Blocks, ver : Versions] \cup {Erased, Junk}

(* whole: the byte count is a whole number of blocks.                       *)
Request == [op : {"read", "write"}, lba : Nat, count : Nat, ver : Versions, whole : BOOLEAN]

ASSUME StorageAssumption ==
  /\ Pages \in Nat /\ Buffer \in Nat
  /\ Requests \subseteq Request
  /\ \A r \in Requests : r.lba + r.count <= 2 * Pages /\ r.count <= Buffer

(* The blocks a request is for, and the data a write supplies.              *)
Target(r) == r.lba .. (r.lba + r.count - 1)
Payload(r) ==
  [i \in Slots |-> IF r.op = "write" /\ i < r.count
                     THEN [addr |-> r.lba + i, ver |-> r.ver] ELSE Erased]
=============================================================================
