--------------------------- MODULE MCHealthRunner ---------------------------
(* Three targets, one of each check type, and two slots: the third target  *)
(* has to wait for a slot.                                                 *)
EXTENDS HealthRunner

MCKind == <<"http", "tcp", "dns">>
=============================================================================
