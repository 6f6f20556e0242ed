------------------------------- MODULE MCUsbMs -------------------------------
(* UsbMs for the operations of cfw 16gb, the same with --no-repartition on  *)
(* a safe table, and of restore, full and plain.                            *)
EXTENDS UsbMs

Programs ==
  {<<"information", "capacity", "table", "repartition", "read", "update", "verify", "eject">>,
   <<"information", "capacity", "read", "update", "verify", "eject">>,
   <<"information", "repartition", "update", "update", "finalize">>,
   <<"information", "update", "eject">>}
=============================================================================
