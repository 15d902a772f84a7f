----------------------------- MODULE MCIcRelay ------------------------------
(* IcRelay on small instances. *)
EXTENDS IcRelay
=============================================================================
