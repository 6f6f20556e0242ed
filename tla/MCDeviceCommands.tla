-------------------------- MODULE MCDeviceCommands --------------------------
(* Every command; restore plain, full, of an older release and of one that  *)
(* does not exist; files of every kind image.Read tells apart.              *)
EXTENDS DeviceCommands

Owned ==
  {[name |-> "restore", full |-> f, version |-> v, file |-> "unsigned"] :
     f \in BOOLEAN, v \in {"current", "older"}}
  \cup {[name |-> "restore", full |-> TRUE, version |-> v, file |-> "unsigned"] : v \in {"list", "bogus"}}
  \cup {[name |-> n, full |-> FALSE, version |-> "current", file |-> f] :
          n \in {"cfwrun", "run"}, f \in {"signed", "unsigned", "bad", "missing"}}
  \cup {[name |-> n, full |-> FALSE, version |-> "current", file |-> "unsigned"] :
          n \in {"superdiags", "haxdfu"}}
=============================================================================
