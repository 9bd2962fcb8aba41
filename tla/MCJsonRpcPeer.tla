--------------------------- MODULE MCJsonRpcPeer ---------------------------
(* Small instances of JsonRpcPeer.                                         *)
EXTENDS JsonRpcPeer, TLC

=============================================================================
