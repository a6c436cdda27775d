----------------------------- MODULE MCSession ------------------------------
(***************************************************************************)
(* SessionLifecycle needs no model values: its instances differ in what    *)
(* the child and the client may do.                                        *)
(***************************************************************************)
EXTENDS SessionLifecycle
=============================================================================
