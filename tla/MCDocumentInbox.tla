-------------------------- MODULE MCDocumentInbox --------------------------
(* DocumentInbox on small instances. *)
EXTENDS DocumentInbox, TLC
=============================================================================
