--------------------------- MODULE RoutingProofs ---------------------------
(***************************************************************************)
(* Proofs about Routing for any models, providers, settings, analyses and  *)
(* runs.                                                                   *)
(***************************************************************************)
EXTENDS Routing, FiniteSetTheorems, WellFoundedInduction, TLAPS

-----------------------------------------------------------------------------
(* The inductive invariants.                                               *)

GroupNames == {Groups[i] : i \in 1..5}
Analysis == [difficulty : 0..4, careful : BOOLEAN, tools : BOOLEAN, exact : BOOLEAN]
Preferences == {<<>>} \cup {c.prefs : c \in Settings}
Offers == {<<>>} \cup UNION {[S -> GroupNames] : S \in SUBSET Models}
RunState == [at : {"idle", "choose", "asking", "turn", "failing", "ended", "failed"},
             router : {"laya", "direct"}, profile : Profiles, prefs : Preferences,
             analysis : Analysis, route : Models \cup {0}, group : GroupNames,
             offered : Offers, fallbacks : 0..MaxFallbacks, left : Keys \cup {<<>>}]

\* The keys that cool a model of a group (candidateCooldown).
IsKeyOf(key, m, group) ==
  \/ key = <<"provider", Provider[m]>>
  \/ key = <<"free", Provider[m]>> /\ group = "free"
  \/ key = <<"model", m>>

\* A run that takes a turn has a route; while it falls back, its route still cools.
RunFits(r) ==
  /\ run[r].at \in {"turn", "failing"} => run[r].route \in Models
  /\ run[r].at = "failing" =>
       /\ run[r].fallbacks < MaxFallbacks
       /\ run[r].left \in Keys /\ cooldown[run[r].left] > 0
       /\ IsKeyOf(run[r].left, run[r].route, run[r].group)

\* A failure cools its key for at least the ticks it has left, unless a later
\* failure of the same key cut that short.
Failure == [model : Models, group : GroupNames, key : Keys, left : 1..2]
Cooled(f) == cooldown[f.key] >= f.left \/ f.key \in shortened
FailedFits(r) ==
  \A f \in failed[r] : f \in Failure /\ IsKeyOf(f.key, f.model, f.group) /\ Cooled(f)

TypeInv ==
  /\ settings \in Settings /\ up \subseteq Providers
  /\ cooldown \in [Keys -> 0..2] /\ shortened \subseteq Keys
  /\ run \in [Runs -> RunState] /\ DOMAIN failed = Runs
RunInv == \A r \in Runs : RunFits(r)
FailedInv == \A r \in Runs : FailedFits(r)
Inv == TypeInv /\ RunInv /\ FailedInv

-----------------------------------------------------------------------------
(* The choice among candidates: where there is one, the best is one.       *)

\* A set of numbers that is not empty has a least one.
LEMMA Least ==
  ASSUME NEW T \in SUBSET Nat, T # {}
  PROVE  \E n \in T : \A k \in T : n <= k
<1> DEFINE R == {ss \in Nat \X Nat : ss[1] < ss[2]}
<1>1. IsWellFoundedOn(R, Nat)
  BY NatLessThanWellFounded DEF OpToRel
<1>2. PICK n \in T : \A k \in T : ~(<<k, n>> \in R)
  <2> HIDE DEF R
  <2> QED BY <1>1, WFMin
<1>3. \A k \in T : ~(k < n)
  BY <1>2
<1> QED BY <1>3

LEMMA FiveGroups == GroupNames = {"free", "included", "budget", "standard", "premium"}
<1>1. 1..5 = {1, 2, 3, 4, 5}
  OBVIOUS
<1>2. /\ Groups[1] = "free" /\ Groups[2] = "included" /\ Groups[3] = "budget"
      /\ Groups[4] = "standard" /\ Groups[5] = "premium"
  BY DEF Groups
<1> QED BY <1>1, <1>2 DEF GroupNames

LEMMA RankIsSmall == \A group \in GroupNames : GroupRank(group) \in 1..5
BY DEF GroupNames, GroupRank

Small == -9..9

LEMMA TargetIsSmall == \A a \in Analysis : TargetQuality(a) \in 0..6
<1> TAKE a \in Analysis
<1> DEFINE byDifficulty == <<2, 3, 3, 4, 5>>[a.difficulty + 1]
           atLeast == IF a.careful THEN 4 ELSE IF a.tools THEN 3 ELSE 2
<1>1. a.difficulty \in {0, 1, 2, 3, 4}
  BY DEF Analysis
<1>2. byDifficulty \in 0..5
  BY <1>1
<1>3. atLeast \in 0..5
  OBVIOUS
<1> HIDE DEF byDifficulty, atLeast
<1>4. (IF byDifficulty > atLeast THEN byDifficulty ELSE atLeast) \in 0..5
  BY <1>2, <1>3
<1>5. TargetQuality(a) = LET target == IF byDifficulty > atLeast THEN byDifficulty ELSE atLeast
                         IN IF a.exact /\ a.difficulty >= 2 /\ target < 5 THEN target + 1 ELSE target
  BY DEF TargetQuality, byDifficulty, atLeast
<1> QED BY <1>4, <1>5

LEMMA MeritIsSmall ==
  ASSUME NEW profile \in Profiles, NEW target \in 0..6, NEW t \in Trait
  PROVE  \E a, b, c \in Small : Merit(profile, target, t) = <<a, b, c>>
<1>1. /\ t.quality \in 1..5 /\ t.speed \in 1..5 /\ t.group \in GroupNames
  BY DEF Trait, GroupNames
<1>2. GroupRank(t.group) \in 1..5
  BY <1>1, RankIsSmall
<1>3. /\ -t.quality \in Small /\ -t.speed \in Small /\ GroupRank(t.group) \in Small
      /\ Distance(t.quality, target) \in Small
  BY <1>1, <1>2 DEF Small, Distance
<1> QED BY <1>3 DEF Merit, Profiles

\* Merits in their order, as numbers.
Code(x) == (x[1] + 9) * 400 + (x[2] + 9) * 20 + (x[3] + 9)

LEMMA CodeCompares ==
  ASSUME NEW a \in Small, NEW b \in Small, NEW c \in Small,
         NEW p \in Small, NEW q \in Small, NEW r \in Small
  PROVE  LET m == (a + 9) * 400 + (b + 9) * 20 + (c + 9)
             n == (p + 9) * 400 + (q + 9) * 20 + (r + 9)
         IN /\ m \in Nat
            /\ m < n => a < p \/ (a = p /\ b < q) \/ (a = p /\ b = q /\ c < r)
            /\ m = n => a = p /\ b = q /\ c = r
BY DEF Small

LEMMA CodeOrders ==
  ASSUME NEW x \in Small \X Small \X Small, NEW y \in Small \X Small \X Small
  PROVE  /\ Code(x) \in Nat
         /\ Code(x) < Code(y) => Before(x, y)
         /\ Code(x) = Code(y) => x = y
<1>1. /\ x = <<x[1], x[2], x[3]>> /\ x[1] \in Small /\ x[2] \in Small /\ x[3] \in Small
      /\ y = <<y[1], y[2], y[3]>> /\ y[1] \in Small /\ y[2] \in Small /\ y[3] \in Small
  OBVIOUS
<1>2. ASSUME x[1] < y[1] PROVE Before(x, y)
  <2>1. \A j \in 1..1 - 1 : x[j] = y[j]
    OBVIOUS
  <2> QED BY <1>2, <2>1 DEF Before
<1>3. ASSUME x[1] = y[1], x[2] < y[2] PROVE Before(x, y)
  <2>1. \A j \in 1..2 - 1 : x[j] = y[j]
    BY <1>3
  <2> QED BY <1>3, <2>1 DEF Before
<1>4. ASSUME x[1] = y[1], x[2] = y[2], x[3] < y[3] PROVE Before(x, y)
  <2>1. \A j \in 1..3 - 1 : x[j] = y[j]
    BY <1>4
  <2> QED BY <1>4, <2>1 DEF Before
<1>5. /\ Code(x) \in Nat
      /\ Code(x) < Code(y) => \/ x[1] < y[1]
                              \/ x[1] = y[1] /\ x[2] < y[2]
                              \/ x[1] = y[1] /\ x[2] = y[2] /\ x[3] < y[3]
      /\ Code(x) = Code(y) => x[1] = y[1] /\ x[2] = y[2] /\ x[3] = y[3]
  BY <1>1, CodeCompares DEF Code
<1> QED BY <1>1, <1>2, <1>3, <1>4, <1>5

LEMMA BestIsThere ==
  ASSUME NEW profile \in Profiles, NEW target \in 0..6, NEW traits,
         NEW S \in SUBSET Models, S # {}, \A m \in Models : traits[m] \in Trait
  PROVE  Best(profile, target, traits, S) \in S
<1> DEFINE Q == Qualified(target, traits, S)
           merit(m) == Merit(profile, target, traits[m])
           IsBest(m) == \A n \in Q \ {m} : Before(merit(m), merit(n)) \/ (merit(m) = merit(n) /\ m < n)
<1>1. Models \subseteq Nat
  BY ModelsAreNumbered, FS_CardinalityType
<1>2. Q \subseteq S
  BY DEF Qualified
<1>3. Q # {}
  <2> DEFINE T == {5 - traits[m].quality : m \in S}
  <2>1. \A m \in S : traits[m].quality \in 1..5
    BY DEF Trait
  <2>2. T \in SUBSET Nat /\ T # {}
    BY <2>1
  <2>3. PICK n \in T : \A k \in T : n <= k
    <3> HIDE DEF T
    <3> QED BY <2>2, Least
  <2>4. PICK m \in S : n = 5 - traits[m].quality
    BY <2>3
  <2>5. ASSUME NEW l \in S PROVE traits[l].quality <= traits[m].quality
    <3>1. n <= 5 - traits[l].quality
      BY <2>3
    <3> QED BY <2>1, <2>4, <3>1
  <2> QED BY <2>5 DEF Qualified
<1>4. \A m \in Q : merit(m) \in Small \X Small \X Small
  <2> TAKE m \in Q
  <2>1. traits[m] \in Trait
    BY <1>2
  <2>2. PICK a, b, c \in Small : merit(m) = <<a, b, c>>
    BY <2>1, MeritIsSmall
  <2> QED BY <2>2
<1> HIDE DEF Q, merit
<1>5. \E m \in Q : IsBest(m)
  <2> DEFINE T == {Code(merit(m)) : m \in Q}
  <2>1. T \in SUBSET Nat /\ T # {}
    BY <1>3, <1>4, CodeOrders
  <2>2. PICK c \in T : \A k \in T : c <= k
    <3> HIDE DEF T
    <3> QED BY <2>1, Least
  <2> DEFINE U == {m \in Q : Code(merit(m)) = c}
  <2>3. U \in SUBSET Nat /\ U # {}
    BY <1>1, <1>2, <2>2
  <2>4. PICK m \in U : \A n \in U : m <= n
    <3> HIDE DEF U
    <3> QED BY <2>3, Least
  <2>5. ASSUME NEW n \in Q \ {m}
        PROVE  Before(merit(m), merit(n)) \/ (merit(m) = merit(n) /\ m < n)
    <3>1. m \in Q /\ Code(merit(m)) = c /\ c <= Code(merit(n))
      BY <2>2, <2>4
    <3>2. Code(merit(m)) \in Nat /\ Code(merit(n)) \in Nat
      BY <1>4, <3>1, CodeOrders
    <3>3. CASE Code(merit(m)) < Code(merit(n))
      BY <1>4, <3>1, <3>3, CodeOrders
    <3>4. CASE Code(merit(m)) = Code(merit(n))
      <4>1. n \in U
        BY <3>1, <3>4
      <4>2. m < n
        BY <1>1, <1>2, <2>4, <4>1
      <4> QED BY <1>4, <3>1, <3>4, <4>2, CodeOrders
    <3> QED BY <3>1, <3>2, <3>3, <3>4
  <2> QED BY <2>4, <2>5
<1>6. Best(profile, target, traits, S) = CHOOSE m \in Q : IsBest(m)
  BY DEF Best, Q, merit
<1> HIDE DEF IsBest
<1> QED BY <1>2, <1>5, <1>6

-----------------------------------------------------------------------------
(* The candidates of a run.                                                *)

LEMMA OverIsTyped ==
  ASSUME NEW prefs \in Preferences, NEW traits, \A m \in Models : traits[m] \in Trait
  PROVE  \A m \in Models : Over(prefs, traits)[m] \in Trait
<1>1. CASE prefs = <<>>
  <2>1. DOMAIN prefs = {}
    BY <1>1
  <2> QED BY <2>1 DEF Over
<1>2. CASE \E c \in Settings : prefs = c.prefs
  BY <1>2, SettingsAreNormal DEF Over
<1> QED BY <1>1, <1>2 DEF Preferences

LEMMA TraitsAreTyped ==
  ASSUME TypeInv, NEW r \in Runs
  PROVE  \A m \in Models : Traits[m] \in Trait /\ TraitsFor(r)[m] \in Trait
<1>1. settings.prefs \in Preferences /\ run[r].prefs \in Preferences
  BY DEF TypeInv, Preferences, RunState
<1>2. \A m \in Models : Traits[m] \in Trait
  BY <1>1, ModelsAreNumbered, OverIsTyped DEF Traits
<1>3. \A m \in Models : Over(run[r].prefs, Traits)[m] \in Trait
  BY <1>1, <1>2, OverIsTyped
<1> QED BY <1>2, <1>3 DEF TraitsFor

LEMMA ChosenIsEligible ==
  ASSUME TypeInv, NEW r \in Runs, Eligible(r) # {}
  PROVE  Chosen(r) \in Eligible(r)
<1>1. run[r].profile \in Profiles /\ TargetQuality(run[r].analysis) \in 0..6
  BY TargetIsSmall DEF TypeInv, RunState, Analysis
<1>2. Eligible(r) \in SUBSET Models
  BY DEF Eligible
<1>3. \A m \in Models : TraitsFor(r)[m] \in Trait
  BY TraitsAreTyped
<1> DEFINE E == Eligible(r)
           T == TraitsFor(r)
           q == TargetQuality(run[r].analysis)
           p == run[r].profile
<1>4. Chosen(r) = Best(p, q, T, E)
  BY DEF Chosen
<1>5. p \in Profiles /\ q \in 0..6 /\ E \in SUBSET Models /\ E # {} /\ \A m \in Models : T[m] \in Trait
  BY <1>1, <1>2, <1>3
<1> HIDE DEF E, T, q, p
<1>6. Best(p, q, T, E) \in E
  BY <1>5, BestIsThere
<1> QED BY <1>4, <1>6 DEF E

LEMMA GroupsAreTyped ==
  ASSUME TypeInv, NEW r \in Runs
  PROVE  GroupsOf(r) \in [Eligible(r) -> GroupNames] /\ GroupsOf(r) \in Offers
<1>1. \A m \in Eligible(r) : TraitsFor(r)[m].group \in GroupNames
  BY TraitsAreTyped DEF Eligible, Trait, GroupNames
<1>2. GroupsOf(r) \in [Eligible(r) -> GroupNames]
  BY <1>1 DEF GroupsOf
<1>3. Eligible(r) \in SUBSET Models
  BY DEF Eligible
<1> QED BY <1>2, <1>3 DEF Offers

-----------------------------------------------------------------------------
(* The states a run goes to.                                               *)

LEMMA IdleIsTyped == Idle \in RunState /\ Idle.at = "idle"
<1>1. Idle.analysis \in Analysis
  BY DEF Idle, Analysis
<1>2. 0 \in 0..MaxFallbacks
  BY FallbacksAreBounded
<1>3. /\ "free" \in GroupNames /\ <<>> \in Preferences /\ <<>> \in Offers /\ "balanced" \in Profiles
  BY FiveGroups DEF Preferences, Offers, Profiles
<1> QED BY <1>1, <1>2, <1>3 DEF Idle, RunState

LEMMA EndIsTyped ==
  ASSUME NEW how \in {"ended", "failed"}
  PROVE  [Idle EXCEPT !.at = how] \in RunState /\ [Idle EXCEPT !.at = how].at = how
BY IdleIsTyped DEF RunState

LEMMA TakeIsTyped ==
  ASSUME TypeInv, NEW r \in Runs, NEW m \in Models, NEW groups, groups[m] \in GroupNames
  PROVE  Take(r, m, groups) \in RunState /\ Take(r, m, groups).at = "turn"
         /\ Take(r, m, groups).route = m /\ Take(r, m, groups).fallbacks = run[r].fallbacks
<1>1. run[r] \in RunState /\ <<>> \in Offers
  BY DEF TypeInv, Offers
<1> QED BY <1>1 DEF Take, RunState

LEMMA ReadIsTyped ==
  ASSUME TypeInv, NEW r \in Runs, NEW router \in {"laya", "direct"}
  PROVE  /\ Read(r, router) \in RunState
         /\ Read(r, router).fallbacks = run[r].fallbacks
         /\ Read(r, router).route = run[r].route /\ Read(r, router).group = run[r].group
<1>1. /\ run[r] \in RunState /\ settings.profile \in Profiles /\ settings.direct \in Profiles
      /\ settings.prefs \in Preferences /\ <<>> \in Preferences
  BY SettingsAreNormal DEF TypeInv, Preferences
<1> DEFINE p == IF router = "laya" THEN settings.profile ELSE settings.direct
           f == IF router = "laya" THEN settings.prefs ELSE <<>>
<1>2. p \in Profiles /\ f \in Preferences
  BY <1>1
<1>3. Read(r, router) = [run[r] EXCEPT !.router = router, !.profile = p, !.prefs = f]
  BY DEF Read
<1> HIDE DEF p, f
<1> QED BY <1>1, <1>2, <1>3 DEF RunState

LEMMA RunBecomes ==
  ASSUME TypeInv, NEW r \in Runs, NEW s \in RunState, Become(r, s)
  PROVE  /\ run' \in [Runs -> RunState] /\ run'[r] = s
         /\ \A q \in Runs : q # r => run'[q] = run[q]
BY DEF TypeInv, Become

\* A step of one run that cools nothing; where the run ends, its failures are forgotten.
LEMMA QuietStep ==
  ASSUME Inv, NEW r \in Runs, NEW s \in RunState, Become(r, s), s.at # "failing",
         s.at = "turn" => s.route \in Models,
         UNCHANGED <<settings, up, cooldown>>, UNCHANGED history \/ Forget(r)
  PROVE  Inv'
<1> USE DEF Inv
<1>1. /\ run' \in [Runs -> RunState] /\ run'[r] = s
      /\ \A q \in Runs : q # r => run'[q] = run[q]
  BY RunBecomes
<1>2. /\ shortened' = shortened
      /\ DOMAIN failed' = Runs /\ \A q \in Runs : failed'[q] \subseteq failed[q]
  BY DEF history, Forget, TypeInv
<1>3. TypeInv'
  BY <1>1, <1>2 DEF TypeInv
<1>4. RunInv'
  BY <1>1 DEF RunInv, RunFits
<1>5. FailedInv'
  BY <1>2 DEF FailedInv, FailedFits, Cooled
<1> QED BY <1>3, <1>4, <1>5

LEMMA EndStep ==
  ASSUME Inv, NEW r \in Runs, NEW how \in {"ended", "failed"}, End(r, how),
         UNCHANGED <<settings, up, cooldown>>, UNCHANGED history \/ Forget(r)
  PROVE  Inv'
<1> DEFINE s == [Idle EXCEPT !.at = how]
<1>1. s \in RunState /\ s.at = how /\ Become(r, s)
  BY EndIsTyped DEF End
<1> HIDE DEF s
<1> QED BY <1>1, QuietStep

LEMMA AskStep ==
  ASSUME Inv, NEW r \in Runs, NEW router \in {"laya", "direct"}, Ask(r, router)
  PROVE  Inv'
<1>1. UNCHANGED <<settings, up, cooldown, history>>
  BY DEF Ask
<1>2. CASE End(r, "ended")
  BY <1>1, <1>2, EndStep
<1>3. ASSUME NEW a \in Analyses,
             Become(r, [Read(r, "laya") EXCEPT !.at = "choose", !.analysis = a])
      PROVE  Inv'
  <2> DEFINE s == [Read(r, "laya") EXCEPT !.at = "choose", !.analysis = a]
  <2>1. Read(r, "laya") \in RunState /\ a \in Analysis
    BY ReadIsTyped, AnalysesAreNormal DEF Inv, Analysis
  <2>2. s \in RunState /\ s.at = "choose" /\ Become(r, s)
    BY <1>3, <2>1 DEF RunState
  <2> HIDE DEF s
  <2> QED BY <1>1, <2>2, QuietStep
<1>4. CASE Become(r, [Read(r, "direct") EXCEPT !.at = "choose"])
  <2> DEFINE s == [Read(r, "direct") EXCEPT !.at = "choose"]
  <2>1. Read(r, "direct") \in RunState
    BY ReadIsTyped DEF Inv
  <2>2. s \in RunState /\ s.at = "choose" /\ Become(r, s)
    BY <1>4, <2>1 DEF RunState
  <2> HIDE DEF s
  <2> QED BY <1>1, <2>2, QuietStep
<1> QED BY <1>2, <1>3, <1>4 DEF Ask, AskLaya, AskDirect

LEMMA RouteStep ==
  ASSUME Inv, NEW r \in Runs, Route(r)
  PROVE  Inv'
<1>1. UNCHANGED <<settings, up, cooldown, history>>
  BY DEF Route
<1>2. CASE End(r, "ended")
  BY <1>1, <1>2, EndStep
<1>3. CASE Eligible(r) # {} /\ Become(r, Take(r, Chosen(r), GroupsOf(r)))
  <2> DEFINE m == Chosen(r)
             s == Take(r, m, GroupsOf(r))
  <2>1. m \in Models /\ GroupsOf(r)[m] \in GroupNames
    BY <1>3, ChosenIsEligible, GroupsAreTyped DEF Inv, Eligible
  <2> HIDE DEF m
  <2>2. s \in RunState /\ s.at = "turn" /\ s.route = m
    BY <2>1, TakeIsTyped DEF Inv
  <2>3. Become(r, s)
    BY <1>3 DEF m
  <2> HIDE DEF s
  <2> QED BY <1>1, <2>1, <2>2, <2>3, QuietStep
<1>4. CASE Become(r, [run[r] EXCEPT !.at = "asking", !.offered = GroupsOf(r)])
  <2> DEFINE s == [run[r] EXCEPT !.at = "asking", !.offered = GroupsOf(r)]
  <2>1. run[r] \in RunState /\ GroupsOf(r) \in Offers
    BY GroupsAreTyped DEF Inv, TypeInv
  <2>2. s \in RunState /\ s.at = "asking"
    BY <2>1 DEF RunState
  <2>3. Become(r, s)
    BY <1>4
  <2> HIDE DEF s
  <2> QED BY <1>1, <2>2, <2>3, QuietStep
<1> QED BY <1>2, <1>3, <1>4 DEF Route, RouteLaya, RouteDirect

LEMMA AnswerStep ==
  ASSUME Inv, NEW r \in Runs, Answer(r)
  PROVE  Inv'
<1>1. UNCHANGED <<settings, up, cooldown, history>>
  BY DEF Answer
<1>2. CASE End(r, "ended")
  BY <1>1, <1>2, EndStep
<1>3. ASSUME NEW m \in DOMAIN run[r].offered, NEW a \in Analyses,
             Become(r, [Take(r, m, run[r].offered) EXCEPT !.analysis = a])
      PROVE  Inv'
  <2> DEFINE s == [Take(r, m, run[r].offered) EXCEPT !.analysis = a]
  <2>1. m \in Models /\ run[r].offered[m] \in GroupNames
    <3>1. run[r].offered \in Offers
      BY DEF Inv, TypeInv, RunState
    <3>2. CASE run[r].offered = <<>>
      BY <3>2
    <3>3. CASE \E S \in SUBSET Models : run[r].offered \in [S -> GroupNames]
      BY <3>3
    <3> QED BY <3>1, <3>2, <3>3 DEF Offers
  <2>2. /\ Take(r, m, run[r].offered) \in RunState /\ Take(r, m, run[r].offered).route = m
        /\ a \in Analysis
    BY <2>1, TakeIsTyped, AnalysesAreNormal DEF Inv, Analysis
  <2>3. s \in RunState /\ s.route = m /\ s.at # "failing"
    BY <2>1, <2>2, TakeIsTyped DEF RunState, Inv
  <2>4. Become(r, s)
    BY <1>3
  <2> HIDE DEF s
  <2> QED BY <1>1, <2>1, <2>3, <2>4, QuietStep
<1> QED BY <1>2, <1>3 DEF Answer

LEMMA FallbackStep ==
  ASSUME Inv, NEW r \in Runs, Fallback(r)
  PROVE  Inv'
<1>1. UNCHANGED <<settings, up, cooldown>> /\ run[r].at = "failing"
  BY DEF Fallback
<1>2. CASE (End(r, "ended") \/ End(r, "failed")) /\ Forget(r)
  BY <1>1, <1>2, EndStep
<1>3. CASE /\ Eligible(r) # {} /\ UNCHANGED history
           /\ Become(r, [Take(r, Chosen(r), GroupsOf(r)) EXCEPT !.fallbacks = @ + 1])
  <2> DEFINE m == Chosen(r)
             t == Take(r, m, GroupsOf(r))
             s == [t EXCEPT !.fallbacks = @ + 1]
  <2>1. m \in Models /\ GroupsOf(r)[m] \in GroupNames
    BY <1>3, ChosenIsEligible, GroupsAreTyped DEF Inv, Eligible
  <2>2. Become(r, s)
    BY <1>3
  <2> HIDE DEF m
  <2>3. t \in RunState /\ t.route = m /\ t.fallbacks = run[r].fallbacks /\ t.at = "turn"
    BY <2>1, TakeIsTyped DEF Inv
  <2>4. t.fallbacks + 1 \in 0..MaxFallbacks
    BY <1>1, <2>3, FallbacksAreBounded DEF Inv, TypeInv, RunState, RunInv, RunFits
  <2> HIDE DEF t
  <2>5. s \in RunState /\ s.route = m /\ s.at = "turn"
    BY <2>3, <2>4 DEF RunState
  <2> HIDE DEF s
  <2> QED BY <1>1, <1>3, <2>1, <2>2, <2>5, QuietStep
<1> QED BY <1>2, <1>3 DEF Fallback

\* What a failure cools, and for how long.
LEMMA CooledIsTyped ==
  ASSUME Inv, NEW r \in Runs, run[r].at = "turn", NEW kind \in Kinds, kind # "other"
  PROVE  /\ CooledKey(r, kind) \in Keys /\ Cools(r, kind) \in 1..2
         /\ IsKeyOf(CooledKey(r, kind), run[r].route, run[r].group)
<1>1. run[r].route \in Models
  BY DEF Inv, RunInv, RunFits
<1>2. CooledKey(r, kind) \in Keys
  BY <1>1 DEF CooledKey, Keys, Providers
<1>3. IsKeyOf(CooledKey(r, kind), run[r].route, run[r].group)
  BY DEF CooledKey, IsKeyOf
<1>4. kind \in {"model", "quota", "session", "brief"}
  BY DEF Kinds, Duration
<1>5. /\ Duration["model"] = 2 /\ Duration["quota"] = 2
      /\ Duration["session"] = 1 /\ Duration["brief"] = 1
  BY DEF Duration
<1>6. Cools(r, kind) \in 1..2
  BY <1>4, <1>5 DEF Cools
<1> QED BY <1>2, <1>3, <1>6

\* A failure writes its key over whatever is there: shortened keeps who lost by that.
LEMMA MarkStep ==
  ASSUME Inv, NEW r \in Runs, run[r].at = "turn", run[r].fallbacks # MaxFallbacks,
         NEW kind \in Kinds, kind # "other", Mark(r, kind), UNCHANGED <<settings, up>>
  PROVE  Inv'
<1> USE DEF Inv
<1> DEFINE key == CooledKey(r, kind)
           ticks == Cools(r, kind)
           new == [model |-> run[r].route, group |-> run[r].group, key |-> key, left |-> ticks]
           t == Read(r, run[r].router)
           s == [t EXCEPT !.at = "failing", !.left = key]
<1>1. key \in Keys /\ ticks \in 1..2 /\ IsKeyOf(key, run[r].route, run[r].group)
  BY CooledIsTyped
<1>2. /\ cooldown' = [cooldown EXCEPT ![key] = ticks]
      /\ failed' = [failed EXCEPT ![r] = @ \cup {new}]
      /\ shortened' = IF ticks < cooldown[key] THEN shortened \cup {key} ELSE shortened
      /\ Become(r, s)
  BY DEF Mark
<1>3. run[r] \in RunState /\ run[r].route \in Models
  BY DEF TypeInv, RunInv, RunFits
<1>4. PICK f0 \in Failure :
        /\ failed' = [failed EXCEPT ![r] = @ \cup {f0}]
        /\ f0.key = key /\ f0.left = ticks /\ f0.model = run[r].route /\ f0.group = run[r].group
  <2>1. new \in Failure
    BY <1>1, <1>3 DEF Failure, RunState
  <2>2. new.key = key /\ new.left = ticks /\ new.model = run[r].route /\ new.group = run[r].group
    OBVIOUS
  <2> HIDE DEF new
  <2> QED BY <1>2, <2>1, <2>2
<1> HIDE DEF key, ticks, new
<1>5. s \in RunState /\ s.at = "failing" /\ s.left = key
      /\ s.route = run[r].route /\ s.group = run[r].group /\ s.fallbacks = run[r].fallbacks
  <2>1. /\ t \in RunState /\ t.fallbacks = run[r].fallbacks
        /\ t.route = run[r].route /\ t.group = run[r].group
    BY <1>3, ReadIsTyped DEF RunState
  <2> HIDE DEF t
  <2> QED BY <1>1, <2>1 DEF RunState
<1> HIDE DEF s
<1>6. /\ run' \in [Runs -> RunState] /\ run'[r] = s
      /\ \A q \in Runs : q # r => run'[q] = run[q]
  BY <1>2, <1>5, RunBecomes
<1>7. /\ cooldown' \in [Keys -> 0..2] /\ cooldown'[key] = ticks
      /\ \A k \in Keys : k # key => cooldown'[k] = cooldown[k]
  BY <1>1, <1>2 DEF TypeInv
<1>8. shortened' \subseteq Keys /\ shortened \subseteq shortened'
  BY <1>1, <1>2 DEF TypeInv
<1>9. TypeInv'
  BY <1>4, <1>6, <1>7, <1>8 DEF TypeInv
<1>10. RunInv'
  <2>1. RunFits(r)'
    <3>1. run[r].fallbacks < MaxFallbacks
      BY <1>3, FallbacksAreBounded DEF RunState
    <3> QED BY <1>1, <1>3, <1>5, <1>6, <1>7, <3>1 DEF RunFits
  <2>2. ASSUME NEW q \in Runs, q # r PROVE RunFits(q)'
    <3>1. \A k \in Keys : cooldown[k] > 0 => cooldown'[k] > 0
      BY <1>1, <1>7
    <3> QED BY <1>6, <2>2, <3>1 DEF RunInv, RunFits
  <2> QED BY <2>1, <2>2 DEF RunInv
<1>11. FailedInv'
  <2>1. \A q \in Runs : \A f \in failed'[q] : f \in failed[q] \/ f = f0
    BY <1>4 DEF TypeInv
  <2>2. ASSUME NEW f \in Failure, Cooled(f) PROVE Cooled(f)'
    <3>1. f.key \in Keys /\ f.left \in 1..2
      BY DEF Failure
    <3>2. CASE f.key # key
      BY <1>7, <1>8, <2>2, <3>1, <3>2 DEF Cooled
    <3>3. CASE f.key = key
      <4>1. CASE ticks < cooldown[key]
        BY <1>2, <3>3, <4>1 DEF Cooled
      <4>2. CASE ~(ticks < cooldown[key])
        BY <1>1, <1>7, <1>8, <2>2, <3>1, <3>3, <4>2 DEF Cooled, TypeInv
      <4> QED BY <4>1, <4>2
    <3> QED BY <3>2, <3>3
  <2>3. Cooled(f0)' /\ IsKeyOf(f0.key, f0.model, f0.group)
    BY <1>1, <1>4, <1>7 DEF Cooled
  <2>4. ASSUME NEW q \in Runs, NEW f \in failed'[q]
        PROVE  f \in Failure /\ IsKeyOf(f.key, f.model, f.group) /\ Cooled(f)'
    <3>1. CASE f \in failed[q]
      BY <2>2, <3>1 DEF FailedInv, FailedFits
    <3>2. CASE f = f0
      BY <1>4, <2>3, <3>2
    <3> QED BY <2>1, <3>1, <3>2
  <2> QED BY <2>4 DEF FailedInv, FailedFits
<1> QED BY <1>9, <1>10, <1>11

LEMMA TurnStep ==
  ASSUME Inv, NEW r \in Runs, Turn(r)
  PROVE  Inv'
<1>1. UNCHANGED <<settings, up>> /\ run[r].at = "turn"
  BY DEF Turn
<1>2. CASE End(r, "ended") /\ Forget(r) /\ UNCHANGED cooldown
  BY <1>1, <1>2, EndStep
<1>3. ASSUME NEW kind \in Kinds, kind # "other", run[r].fallbacks # MaxFallbacks, Mark(r, kind)
      PROVE  Inv'
  BY <1>1, <1>3, MarkStep
<1> QED BY <1>2, <1>3 DEF Turn

\* Time passes for the cooldowns and for what the failures have left of them alike.
LEMMA TickStep ==
  ASSUME Inv, Tick
  PROVE  Inv'
<1> USE DEF Inv
<1>1. /\ UNCHANGED <<settings, up, run>> /\ \A r \in Runs : run[r].at # "failing"
      /\ cooldown' = [k \in Keys |-> IF cooldown[k] > 0 THEN cooldown[k] - 1 ELSE 0]
      /\ failed' = [r \in Runs |-> {[f EXCEPT !.left = @ - 1] : f \in {g \in failed[r] : g.left > 1}}]
      /\ shortened' = {k \in shortened : \E r \in Runs : \E f \in failed'[r] : f.key = k}
  BY DEF Tick
<1>2. /\ cooldown' \in [Keys -> 0..2]
      /\ \A k \in Keys : cooldown[k] > 0 => cooldown'[k] = cooldown[k] - 1
  BY <1>1 DEF TypeInv
<1>3. TypeInv'
  BY <1>1, <1>2 DEF TypeInv
<1>4. RunInv'
  BY <1>1 DEF RunInv, RunFits
<1>5. ASSUME NEW r \in Runs, NEW f \in failed'[r]
      PROVE  f \in Failure /\ IsKeyOf(f.key, f.model, f.group) /\ Cooled(f)'
  <2>1. PICK g \in failed[r] : g.left > 1 /\ f = [g EXCEPT !.left = @ - 1]
    BY <1>1
  <2>2. g \in Failure /\ IsKeyOf(g.key, g.model, g.group) /\ Cooled(g)
    BY DEF FailedInv, FailedFits
  <2>3. g.left = 2
    BY <2>1, <2>2 DEF Failure
  <2>4. /\ f \in Failure /\ f.left = 1
        /\ f.key = g.key /\ f.model = g.model /\ f.group = g.group
    BY <2>1, <2>2, <2>3 DEF Failure
  <2>5. CASE g.key \in shortened
    <3>1. f.key \in shortened'
      BY <1>1, <2>4, <2>5
    <3> QED BY <2>2, <2>4, <3>1 DEF Cooled
  <2>6. CASE cooldown[g.key] >= g.left
    <3>1. g.key \in Keys /\ cooldown[g.key] \in 0..2
      BY <2>2 DEF Failure, TypeInv
    <3>2. cooldown'[f.key] >= f.left
      BY <1>2, <2>3, <2>4, <2>6, <3>1
    <3> QED BY <2>2, <2>4, <3>2 DEF Cooled
  <2> QED BY <2>2, <2>5, <2>6 DEF Cooled
<1>6. FailedInv'
  BY <1>5 DEF FailedInv, FailedFits
<1> QED BY <1>3, <1>4, <1>6

LEMMA OtherStep ==
  ASSUME Inv, SaveConfig \/ (\E p \in Providers : ConnectionChanges(p)) \/ UNCHANGED vars
  PROVE  Inv'
<1>1. /\ UNCHANGED <<cooldown, run, failed, shortened>>
      /\ settings' \in Settings /\ up' \subseteq Providers
  BY DEF SaveConfig, ConnectionChanges, history, vars, Inv, TypeInv
<1> QED BY <1>1 DEF Inv, TypeInv, RunInv, RunFits, FailedInv, FailedFits, Cooled

LEMMA InvInit == Init => Inv
<1> SUFFICES ASSUME Init PROVE Inv
  OBVIOUS
<1>1. TypeInv /\ RunInv
  BY IdleIsTyped DEF Init, TypeInv, RunInv, RunFits
<1>2. FailedInv
  BY DEF Init, FailedInv, FailedFits
<1> QED BY <1>1, <1>2 DEF Inv

LEMMA InvStep == Inv /\ [Next]_vars => Inv'
<1> SUFFICES ASSUME Inv, [Next]_vars PROVE Inv'
  OBVIOUS
<1>1. ASSUME NEW r \in Runs,
             \/ \E router \in {"laya", "direct"} : Ask(r, router)
             \/ Route(r) \/ Answer(r) \/ Turn(r) \/ Fallback(r)
      PROVE  Inv'
  BY <1>1, AskStep, RouteStep, AnswerStep, TurnStep, FallbackStep
<1>2. CASE Tick
  BY <1>2, TickStep
<1>3. CASE SaveConfig \/ (\E p \in Providers : ConnectionChanges(p)) \/ UNCHANGED vars
  BY <1>3, OtherStep
<1> QED BY <1>1, <1>2, <1>3 DEF Next

-----------------------------------------------------------------------------
(* The types of the routers hold for any number of models, runs and        *)
(* fallbacks: a run never falls back more often than it may.               *)
THEOREM TypeCorrect == Spec => []TypeOK
<1>1. ASSUME Inv, NEW r \in Runs
      PROVE  /\ run[r] \in RunState
             /\ DOMAIN run[r].offered \subseteq Models
  <2>1. run[r] \in RunState /\ run[r].offered \in Offers
    BY <1>1 DEF Inv, TypeInv, RunState
  <2>2. CASE run[r].offered = <<>>
    BY <2>1, <2>2
  <2>3. CASE \E S \in SUBSET Models : run[r].offered \in [S -> GroupNames]
    BY <2>1, <2>3
  <2> QED BY <2>1, <2>2, <2>3 DEF Offers
<1>2. Inv => TypeOK
  BY <1>1 DEF Inv, TypeInv, TypeOK, RunState
<1> QED BY InvInit, InvStep, <1>2, PTL DEF Spec

\* A run leaves a failure only by Fallback.
LEMMA LeavesByFallback ==
  ASSUME Inv, Next, NEW r \in Runs, run[r].at = "failing", run'[r].at # "failing"
  PROVE  Fallback(r)
<1>1. run[r] \in RunState /\ DOMAIN run = Runs
  BY DEF Inv, TypeInv
<1>2. ASSUME NEW q \in Runs, NEW s, q # r, Become(q, s) PROVE FALSE
  BY <1>1, <1>2 DEF Become
<1>3. ASSUME NEW q \in Runs,
             \/ \E router \in {"laya", "direct"} : Ask(q, router)
             \/ Route(q) \/ Answer(q) \/ Turn(q) \/ Fallback(q)
      PROVE  q = r
  BY <1>2, <1>3 DEF Ask, AskLaya, AskDirect, Route, RouteLaya, RouteDirect, Answer, Turn,
                    Mark, Fallback, End
<1>4. /\ ~ Route(r) /\ ~ Answer(r) /\ ~ Turn(r)
      /\ ~ \E router \in {"laya", "direct"} : Ask(r, router)
  BY DEF Ask, Route, Answer, Turn
<1>5. /\ ~ SaveConfig /\ ~ Tick
      /\ ~ \E p \in Providers : ConnectionChanges(p)
  BY DEF SaveConfig, Tick, ConnectionChanges
<1> QED BY <1>3, <1>4, <1>5 DEF Next

\* A model that may be chosen is cooled by no key, but for its former group.
LEMMA EligibleIsCool ==
  ASSUME TypeInv, NEW r \in Runs, NEW m \in Eligible(r), NEW key \in Keys, NEW group,
         cooldown[key] > 0, IsKeyOf(key, m, group)
  PROVE  Regrouped(m, key, group)
<1>1. ~ Cooling(m, Traits[m].group)
  BY DEF Eligible
<1>2. /\ key # <<"provider", Provider[m]>> /\ key # <<"model", m>>
      /\ key = <<"free", Provider[m]>> => Traits[m].group # "free"
  BY <1>1 DEF Cooling
<1> QED BY <1>2 DEF IsKeyOf, Regrouped

(* A fallback does not return to a model whose failure in this run still   *)
(* cools, whatever other runs, the settings and the time did meanwhile.    *)
THEOREM NeverBackWhileCooling == Spec => NoReturnWhileCooling
<1> DEFINE A == \A r \in Runs : (run[r].at = "failing" /\ run'[r].at = "turn") =>
                  \A f \in failed[r] : f.model = run'[r].route =>
                    f.key \in shortened \/ Regrouped(f.model, f.key, f.group)
<1>1. Inv /\ [Next]_vars => [A]_vars
  <2> SUFFICES ASSUME Inv, Next, NEW r \in Runs, run[r].at = "failing", run'[r].at = "turn",
                      NEW f \in failed[r], f.model = run'[r].route, f.key \notin shortened
               PROVE  Regrouped(f.model, f.key, f.group)
    OBVIOUS
  <2>1. Fallback(r)
    BY LeavesByFallback
  <2>2. /\ run[r] \in RunState /\ DOMAIN run = Runs
        /\ f \in Failure /\ IsKeyOf(f.key, f.model, f.group) /\ Cooled(f)
    BY DEF Inv, TypeInv, FailedInv, FailedFits
  <2>3. ~ End(r, "ended") /\ ~ End(r, "failed")
    BY <2>2, EndIsTyped DEF End, Become
  <2>4. /\ Eligible(r) # {}
        /\ Become(r, [Take(r, Chosen(r), GroupsOf(r)) EXCEPT !.fallbacks = @ + 1])
    BY <2>1, <2>3 DEF Fallback
  <2>5. Chosen(r) \in Eligible(r)
    BY <2>4, ChosenIsEligible DEF Inv
  <2>6. run'[r].route = Chosen(r)
    <3> DEFINE m == Chosen(r)
               t == Take(r, m, GroupsOf(r))
    <3>1. run'[r] = [t EXCEPT !.fallbacks = @ + 1]
      BY <2>2, <2>4 DEF Become
    <3>2. m \in Models /\ GroupsOf(r)[m] \in GroupNames
      BY <2>5, GroupsAreTyped DEF Inv, Eligible
    <3> HIDE DEF m
    <3>3. t \in RunState /\ t.route = m
      BY <3>2, TakeIsTyped DEF Inv
    <3> HIDE DEF t
    <3>4. run'[r].route = m
      BY <3>1, <3>3 DEF RunState
    <3> QED BY <3>4 DEF m
  <2>7. f.key \in Keys /\ cooldown[f.key] > 0
    BY <2>2 DEF Failure, Cooled, Inv, TypeInv
  <2> QED BY <2>2, <2>5, <2>6, <2>7, EligibleIsCool DEF Inv
<1>2. Spec => [][A]_vars
  BY InvInit, InvStep, <1>1, PTL DEF Spec
<1> QED BY <1>2 DEF NoReturnWhileCooling

(* A run gives up a failure that may be routed around only where no other  *)
(* model was left to go to.                                                *)
THEOREM GivesUpLast == Spec => GivesUpOnlyWithoutAlternative
<1> DEFINE A == \A r \in Runs : (run[r].at = "failing" /\ run'[r].at = "failed") =>
                  Eligible(r) \subseteq {run[r].route} \/ Regrouped(run[r].route, run[r].left, run[r].group)
<1>1. Inv /\ [Next]_vars => [A]_vars
  <2> SUFFICES ASSUME Inv, Next, NEW r \in Runs, run[r].at = "failing", run'[r].at = "failed"
               PROVE  \/ Eligible(r) \subseteq {run[r].route}
                      \/ Regrouped(run[r].route, run[r].left, run[r].group)
    OBVIOUS
  <2>1. Fallback(r)
    BY LeavesByFallback
  <2>2. DOMAIN run = Runs /\ ~ End(r, "ended")
    BY EndIsTyped DEF Inv, TypeInv, End, Become
  <2>3. CASE Eligible(r) = {}
    BY <2>3
  <2>4. CASE Eligible(r) # {} /\ Chosen(r) = run[r].route
    <3>1. run[r].route \in Eligible(r)
      BY <2>4, ChosenIsEligible DEF Inv
    <3>2. /\ run[r].left \in Keys /\ cooldown[run[r].left] > 0
          /\ IsKeyOf(run[r].left, run[r].route, run[r].group)
      BY DEF Inv, RunInv, RunFits
    <3> QED BY <3>1, <3>2, EligibleIsCool DEF Inv
  <2>5. CASE Eligible(r) # {} /\ Chosen(r) # run[r].route
    <3> DEFINE m == Chosen(r)
               t == Take(r, m, GroupsOf(r))
    <3>1. run'[r] = [t EXCEPT !.fallbacks = @ + 1]
      BY <2>1, <2>2, <2>5 DEF Fallback, Become
    <3>2. m \in Models /\ GroupsOf(r)[m] \in GroupNames
      BY <2>5, ChosenIsEligible, GroupsAreTyped DEF Inv, Eligible
    <3> HIDE DEF m
    <3>3. t \in RunState /\ t.at = "turn"
      BY <3>2, TakeIsTyped DEF Inv
    <3> HIDE DEF t
    <3> QED BY <3>1, <3>3 DEF RunState
  <2> QED BY <2>3, <2>4, <2>5
<1>2. Spec => [][A]_vars
  BY InvInit, InvStep, <1>1, PTL DEF Spec
<1> QED BY <1>2 DEF GivesUpOnlyWithoutAlternative
=============================================================================
