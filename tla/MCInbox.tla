------------------------------ MODULE MCInbox ------------------------------
(* Values of the constants of Inbox for model checking. *)
EXTENDS Inbox
=============================================================================
