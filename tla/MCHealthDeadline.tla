-------------------------- MODULE MCHealthDeadline --------------------------
(* A target of each check type, and one behind the DNS lookup.             *)
EXTENDS HealthDeadline

MCKind == <<"http", "tcp", "dns", "http">>

(* Only HTTP targets, one slot. *)
MCHttp == <<"http", "http", "http">>
=============================================================================
