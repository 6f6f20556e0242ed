--------------------------- MODULE MCPayloadCache ---------------------------
(* The three payloads of cfw 16gb, the firmware in its two parts.           *)
EXTENDS PayloadCache

MCParts == <<"osos", "aupd">>
=============================================================================
