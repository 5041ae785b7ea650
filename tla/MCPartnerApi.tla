---- MODULE MCPartnerApi ----
(* One key, one endpoint, two processes. *)
EXTENDS PartnerApi
====
