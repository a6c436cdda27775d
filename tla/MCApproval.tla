----------------------------- MODULE MCApproval -----------------------------
(***************************************************************************)
(* Small instances of ApprovalServer: two calls and two POSTs, so that two *)
(* tabs can race over one call, or resolve one each.                       *)
(***************************************************************************)
EXTENDS ApprovalServer

CONSTANTS c1, c2, h1, h2

MCCalls == {c1, c2}
OneCall == {c1}
TwoPosts == {h1, h2}
=============================================================================
