---------------------------- MODULE PolicyEngine ----------------------------
(***************************************************************************)
(* The policy engine (internal/policy): the verdict on a tool call by the  *)
(* tool's name.  The two lists come from the configuration and are never   *)
(* mutated once the engine is built, so they are constants here.           *)
(***************************************************************************)
CONSTANTS
  Tools,        \* the tool names a call may carry (never the empty name)
  DenyList,     \* the names on the deny-list
  ApproveList   \* the names on the approval-list

ASSUME ListsAssumption == DenyList \subseteq Tools /\ ApproveList \subseteq Tools

Verdicts == {"Deny", "RequireApproval", "Allow"}

\* The stricter list wins for a name on both; the default is to allow.
Decide(tool) ==
  CASE tool \in DenyList                       -> "Deny"
    [] tool \in ApproveList /\ tool \notin DenyList -> "RequireApproval"
    [] OTHER                                   -> "Allow"

\* With no rule at all the proxy installs no request handler for the policy.
HasRules == DenyList # {} \/ ApproveList # {}
=============================================================================
