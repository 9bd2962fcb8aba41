------------------------- MODULE MCOutboundEvents --------------------------
(* Small instances of OutboundEvents.                                      *)
EXTENDS OutboundEvents

=============================================================================
