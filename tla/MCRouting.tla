----------------------------- MODULE MCRouting -----------------------------
(* An instance of Routing: two providers, the first with a free and a paid model. *)
EXTENDS Routing, TLC

CONSTANTS r1, r2
Alike == Permutations({r1, r2})

T(group, quality, speed) == [enabled |-> TRUE, group |-> group, quality |-> quality, speed |-> speed]
ThreeModels == 1..3
Owners == <<"p", "p", "q">>
Traits0 == <<T("free", 3, 3), T("premium", 5, 2), T("free", 2, 4)>>
Choices == {
  [profile |-> "free", prefs |-> <<>>, direct |-> "free"],
  [profile |-> "cost", prefs |-> (1 :> T("standard", 4, 3)), direct |-> "balanced"]}
Prompts == {[difficulty |-> 2, careful |-> FALSE, tools |-> TRUE, exact |-> TRUE]}
=============================================================================
