------------------------ MODULE MCPermissionEngine -------------------------
(***************************************************************************)
(* Two instances of the Permission Engine.                                 *)
(***************************************************************************)
EXTENDS PermissionEngine, TLC

\* Reply handlers are interchangeable.
SameHandlers == Permutations(Replies)

\* An edit the user may remember and a shell command that must be asked for
\* every time, even when the policy file, edited by hand, has a rule for it.
MixedCalls == {"edit", "shell"}
MixedClass == [c \in MixedCalls |-> IF c = "edit" THEN "write" ELSE "sensitive"]
MixedRules == {"editRule", "shellRule"}
MixedRuleOf == [c \in MixedCalls |-> IF c = "edit" THEN "editRule" ELSE "shellRule"]

\* An edit, a read, and a tool that is not in the registry.
OtherCalls == {"edit", "read", "unknown"}
OtherClass == [c \in OtherCalls |-> IF c = "edit" THEN "write" ELSE c]
OtherRules == {"editRule"}
OtherRuleOf == [c \in OtherCalls |-> IF c = "edit" THEN "editRule" ELSE "noRule"]
=============================================================================
