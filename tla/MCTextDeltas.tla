--------------------------- MODULE MCTextDeltas ----------------------------
(* Small instances of TextDeltas.                                          *)
EXTENDS TextDeltas

=============================================================================
