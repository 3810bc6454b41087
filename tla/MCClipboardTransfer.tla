-------------------------- MODULE MCClipboardTransfer --------------------------
(* A small instance of ClipboardTransfer for TLC. *)
EXTENDS ClipboardTransfer
=============================================================================
