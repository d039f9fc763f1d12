------------------------------ MODULE Routing ------------------------------
(* The request routers (laya_router.go, jev_direct_router.go,
   native_router_mux.go) as Agent runs use them: a run asks for a model, takes a
   turn with it, and falls back to another one when the turn fails.  The runs
   share the cooldowns of failed models and the settings; a router reads the
   settings twice, once for the profile and once for the candidates, and others
   act in between.  Texts of errors are taken as the kinds they are classified to,
   scores as small numbers, and minutes as ticks. *)
EXTENDS Integers, FiniteSets

CONSTANTS
  Models,          \* the models with tools, 1..n in the order of the candidates' names
  Provider,        \* of each model
  Default,         \* traits of each model no preference is saved for
  Settings,        \* what the user may save: profile, preferences, profile of JEV Direct
  Analyses,        \* what Laya or JEV may say about a prompt
  Runs,
  MaxFallbacks,    \* maxRouteFallbacks, 8 in the code
  MaxSaves, MaxChanges                             \* bounds

Groups == <<"free", "included", "budget", "standard", "premium">>
Profiles == {"balanced", "cost", "quality", "speed", "free"}
Trait == [enabled : BOOLEAN, group : {Groups[i] : i \in 1..5}, quality : 1..5, speed : 1..5]

ASSUME ModelsAreNumbered ==
  /\ IsFiniteSet(Models) /\ Models = 1..Cardinality(Models)
  /\ Default \in [Models -> Trait]
ASSUME SettingsAreNormal == \A c \in Settings :
  /\ {c.profile, c.direct} \subseteq Profiles
  /\ DOMAIN c.prefs \subseteq Models /\ \A m \in DOMAIN c.prefs : c.prefs[m] \in Trait
ASSUME AnalysesAreNormal ==
  Analyses \subseteq [difficulty : 0..4, careful : BOOLEAN, tools : BOOLEAN, exact : BOOLEAN]
ASSUME FallbacksAreBounded == MaxFallbacks \in Nat

VARIABLES settings,     \* laya-router.json, and the profile of the plugin JEV Direct
          up,           \* the providers that are connected and ready
          cooldown,     \* the ticks left of each key's cooldown
          run,          \* what each run does
          failed,       \* history: the classified failures of each run that still cool
          shortened,    \* history: the keys whose cooldown a later failure cut short
          used          \* the bounded counters

vars == <<settings, up, cooldown, run, failed, shortened, used>>
history == <<failed, shortened>>

Providers == {Provider[m] : m \in Models}
Keys == ({"model"} \X Models) \cup ({"provider", "free"} \X Providers)

(* The classes of failures, and how long they cool: 15 and 30 minutes against
   half a minute to two.  "other" is everything else, a cancelled run among it. *)
Duration == [model |-> 2, quota |-> 2, session |-> 1, brief |-> 1]
Kinds == DOMAIN Duration \cup {"other"}

Idle == [at |-> "idle", router |-> "laya", profile |-> "balanced", prefs |-> <<>>,
         analysis |-> [difficulty |-> 0, careful |-> FALSE, tools |-> FALSE, exact |-> FALSE],
         route |-> 0, group |-> "free", offered |-> <<>>, fallbacks |-> 0, left |-> <<>>]

TypeOK ==
  /\ settings \in Settings /\ up \subseteq Providers
  /\ cooldown \in [Keys -> 0..2] /\ shortened \subseteq Keys
  /\ \A r \in Runs :
       /\ run[r].at \in {"idle", "choose", "asking", "turn", "failing", "ended", "failed"}
       /\ run[r].router \in {"laya", "direct"} /\ run[r].profile \in Profiles
       /\ run[r].route \in Models \cup {0} /\ run[r].fallbacks \in 0..MaxFallbacks
       /\ DOMAIN run[r].offered \subseteq Models

Init ==
  /\ settings \in Settings /\ up = Providers
  /\ cooldown = [k \in Keys |-> 0]
  /\ run = [r \in Runs |-> Idle]
  /\ failed = [r \in Runs |-> {}] /\ shortened = {}
  /\ used = [saves |-> 0, changes |-> 0]

-----------------------------------------------------------------------------
(* The choice among candidates (chooseLayaCandidate, layaTargetQuality).
   Difficulty is in 0..4 for the ranges <0.9, <1.5, <1.7, <2.5 and above. *)
TargetQuality(a) ==
  LET byDifficulty == <<2, 3, 3, 4, 5>>[a.difficulty + 1]
      atLeast == IF a.careful THEN 4 ELSE IF a.tools THEN 3 ELSE 2
      target == IF byDifficulty > atLeast THEN byDifficulty ELSE atLeast
  IN IF a.exact /\ a.difficulty >= 2 /\ target < 5 THEN target + 1 ELSE target

Distance(a, b) == IF a < b THEN b - a ELSE a - b
GroupRank(group) == CHOOSE i \in 1..5 : Groups[i] = group

\* What the profile compares first, second and third; the smaller comes first.
Merit(profile, target, t) ==
  CASE profile \in {"quality", "free"} -> <<-t.quality, -t.speed, GroupRank(t.group)>>
    [] profile = "speed" -> <<-t.speed, -t.quality, GroupRank(t.group)>>
    [] profile = "cost" -> <<GroupRank(t.group), -t.quality, -t.speed>>
    [] OTHER -> <<Distance(t.quality, target), GroupRank(t.group), -t.speed>>

Before(x, y) == \E i \in 1..3 : x[i] < y[i] /\ \A j \in 1..i - 1 : x[j] = y[j]

\* Those good enough for the target; without one, the best there are.
Qualified(target, traits, S) ==
  LET enough == {m \in S : traits[m].quality >= target}
  IN IF enough # {} THEN enough
     ELSE {m \in S : \A n \in S : traits[n].quality <= traits[m].quality}

Best(profile, target, traits, S) ==
  LET Q == Qualified(target, traits, S)
      merit(m) == Merit(profile, target, traits[m])
  IN CHOOSE m \in Q : \A n \in Q \ {m} :
       Before(merit(m), merit(n)) \/ (merit(m) = merit(n) /\ m < n)

-----------------------------------------------------------------------------
\* Mutant of Cooling: an exhausted free tier is forgotten.
CoolingMutant(m, group) ==
  cooldown[<<"provider", Provider[m]>>] > 0 \/ cooldown[<<"model", m>>] > 0

\* candidateCooldown: of the provider, of its free models, and of the model.
Cooling(m, group) ==
  \/ cooldown[<<"provider", Provider[m]>>] > 0
  \/ group = "free" /\ cooldown[<<"free", Provider[m]>>] > 0
  \/ cooldown[<<"model", m>>] > 0

(* candidates reads the settings for itself, and applies them before the
   cooldowns; Laya then lays the preferences it read before over them, while JEV
   Direct counts every model as enabled. *)
Over(prefs, traits) == [m \in Models |-> IF m \in DOMAIN prefs THEN prefs[m] ELSE traits[m]]
Traits == Over(settings.prefs, Default)
TraitsFor(r) == IF run[r].router = "laya" THEN Over(run[r].prefs, Traits) ELSE Traits

Eligible(r) ==
  {m \in Models :
     /\ Provider[m] \in up /\ ~Cooling(m, Traits[m].group)
     /\ run[r].router = "laya" => TraitsFor(r)[m].enabled
     /\ run[r].profile = "free" => TraitsFor(r)[m].group = "free"}

Chosen(r) == Best(run[r].profile, TargetQuality(run[r].analysis), TraitsFor(r), Eligible(r))
GroupsOf(r) == [m \in Eligible(r) |-> TraitsFor(r)[m].group]
Take(r, m, groups) == [run[r] EXCEPT !.at = "turn", !.route = m, !.group = groups[m], !.offered = <<>>]
Become(r, state) == run' = [run EXCEPT ![r] = state]
End(r, how) == Become(r, [Idle EXCEPT !.at = how])

\* The settings a router reads first; JEV Direct has a profile but no preferences.
Read(r, router) ==
  [run[r] EXCEPT !.router = router,
     !.profile = IF router = "laya" THEN settings.profile ELSE settings.direct,
     !.prefs = IF router = "laya" THEN settings.prefs ELSE <<>>]

\* Laya reads the settings and asks its MCP server for an analysis, which may take
\* minutes; the plugin may be off, or its answer unusable.
AskLaya(r) ==
  \/ \E a \in Analyses :
       Become(r, [Read(r, "laya") EXCEPT !.at = "choose", !.analysis = a])
  \/ End(r, "ended")

\* JEV Direct reads its plugin and its key, either of which may be missing.
AskDirect(r) == Become(r, [Read(r, "direct") EXCEPT !.at = "choose"]) \/ End(r, "ended")

\* RouteFor: the router that handles the session's model.
Ask(r, router) ==
  /\ run[r].at = "idle"
  /\ IF router = "laya" THEN AskLaya(r) ELSE AskDirect(r)
  /\ UNCHANGED <<settings, up, cooldown, history, used>>

\* The rest of Laya's Route: it chooses at once.
RouteLaya(r) == IF Eligible(r) = {} THEN End(r, "ended") ELSE Become(r, Take(r, Chosen(r), GroupsOf(r)))

\* JEV Direct sends the candidates to TypeSafe.
RouteDirect(r) ==
  IF Eligible(r) = {} THEN End(r, "ended")
  ELSE Become(r, [run[r] EXCEPT !.at = "asking", !.offered = GroupsOf(r)])

Route(r) ==
  /\ run[r].at = "choose"
  /\ IF run[r].router = "laya" THEN RouteLaya(r) ELSE RouteDirect(r)
  /\ UNCHANGED <<settings, up, cooldown, history, used>>

\* evaluate: TypeSafe names one of the candidates it was sent, or the call fails.
Answer(r) ==
  /\ run[r].at = "asking"
  /\ \/ \E m \in DOMAIN run[r].offered, a \in Analyses :
          Become(r, [Take(r, m, run[r].offered) EXCEPT !.analysis = a])
     \/ End(r, "ended")
  /\ UNCHANGED <<settings, up, cooldown, history, used>>

-----------------------------------------------------------------------------
\* Mutant of CooledKey: the free tier is cooled whatever group the route was chosen from.
CooledKeyMutant(r, kind) ==
  CASE kind = "session" -> <<"provider", Provider[run[r].route]>>
    [] kind = "quota" -> <<"free", Provider[run[r].route]>>
    [] OTHER -> <<"model", run[r].route>>

\* The key a failure of the run's route cools.
CooledKey(r, kind) ==
  CASE kind = "session" -> <<"provider", Provider[run[r].route]>>
    [] kind = "quota" /\ run[r].group = "free" -> <<"free", Provider[run[r].route]>>
    [] OTHER -> <<"model", run[r].route>>

\* Outside the free group, a used up free tier is one more rate limit.
Cools(r, kind) == Duration[IF kind = "quota" /\ run[r].group # "free" THEN "brief" ELSE kind]

\* markRouteFailure writes the key, over whatever is there; Fallback then reads the
\* settings again, so that a profile changed since holds for the rest of the run.
Mark(r, kind) ==
  LET key == CooledKey(r, kind)
      ticks == Cools(r, kind)
  IN /\ cooldown' = [cooldown EXCEPT ![key] = ticks]
     /\ failed' = [failed EXCEPT ![r] = @ \cup
          {[model |-> run[r].route, group |-> run[r].group, key |-> key, left |-> ticks]}]
     /\ shortened' = IF ticks < cooldown[key] THEN shortened \cup {key} ELSE shortened
     /\ Become(r, [Read(r, run[r].router) EXCEPT !.at = "failing", !.left = key])

Forget(r) == failed' = [failed EXCEPT ![r] = {}] /\ UNCHANGED shortened

\* Mutant of Turn: the run may go on after the fallbacks it may have.
TurnMutant(r) ==
  /\ run[r].at = "turn"
  /\ \/ End(r, "ended") /\ Forget(r) /\ UNCHANGED cooldown
     \/ \E kind \in Kinds :
          IF kind = "other" \/ run[r].fallbacks > MaxFallbacks
          THEN End(r, "ended") /\ Forget(r) /\ UNCHANGED cooldown
          ELSE Mark(r, kind)
  /\ UNCHANGED <<settings, up, used>>

(* The model turn of runLoop.  A failure that is not classified, or one more than
   the fallbacks a run may have, ends the run and cools nothing. *)
Turn(r) ==
  /\ run[r].at = "turn"
  /\ \/ End(r, "ended") /\ Forget(r) /\ UNCHANGED cooldown
     \/ \E kind \in Kinds :
          IF kind = "other" \/ run[r].fallbacks = MaxFallbacks
          THEN End(r, "ended") /\ Forget(r) /\ UNCHANGED cooldown
          ELSE Mark(r, kind)
  /\ UNCHANGED <<settings, up, used>>

\* The rest of Fallback; both routers use Laya's choice here, with the first analysis.
Fallback(r) ==
  /\ run[r].at = "failing"
  /\ \/ IF Eligible(r) = {} \/ Chosen(r) = run[r].route THEN End(r, "failed") /\ Forget(r)
        ELSE /\ Become(r, [Take(r, Chosen(r), GroupsOf(r)) EXCEPT !.fallbacks = @ + 1])
             /\ UNCHANGED history
     \/ End(r, "ended") /\ Forget(r)      \* settings or registry unreadable, the model does not resolve
  /\ UNCHANGED <<settings, up, cooldown, used>>

-----------------------------------------------------------------------------
\* PUT /local/laya-router, and the settings of the plugin JEV Direct.
SaveConfig ==
  /\ used.saves < MaxSaves /\ used' = [used EXCEPT !.saves = @ + 1]
  /\ settings' \in Settings
  /\ UNCHANGED <<up, cooldown, run, history>>

\* A provider loses its credential or its bridge, or gets it back.
ConnectionChanges(p) ==
  /\ used.changes < MaxChanges /\ used' = [used EXCEPT !.changes = @ + 1]
  /\ up' = IF p \in up THEN up \ {p} ELSE up \cup {p}
  /\ UNCHANGED <<settings, cooldown, run, history>>

\* Time passes in analyses and turns; a fallback is short against any cooldown.
Tick ==
  /\ \E k \in Keys : cooldown[k] > 0
  /\ \A r \in Runs : run[r].at # "failing"
  /\ cooldown' = [k \in Keys |-> IF cooldown[k] > 0 THEN cooldown[k] - 1 ELSE 0]
  /\ failed' = [r \in Runs |-> {[f EXCEPT !.left = @ - 1] : f \in {g \in failed[r] : g.left > 1}}]
  /\ shortened' = {k \in shortened : \E r \in Runs : \E f \in failed'[r] : f.key = k}
  /\ UNCHANGED <<settings, up, run, used>>

Next ==
  \/ \E r \in Runs : \/ \E router \in {"laya", "direct"} : Ask(r, router)
                     \/ Route(r) \/ Answer(r) \/ Turn(r) \/ Fallback(r)
  \/ SaveConfig \/ Tick
  \/ \E p \in Providers : ConnectionChanges(p)

Spec == Init /\ [][Next]_vars

-----------------------------------------------------------------------------
Regrouped(m, key, group) == key[1] = "free" /\ group = "free" /\ Traits[m].group # "free"

(* A fallback never returns to a model that failed in the same run while the
   cooldown of that failure lasts, through whichever key it was cooled, whatever
   other runs did meanwhile and though the settings are read twice ("Failed
   candidates can enter cooldown so repeated retries can move to another viable
   model", docs/releases/v0.6.0.md).  Two exceptions are what the code allows: a
   later failure of the same key that cools for less, since markRouteFailure
   overwrites, and a model that was taken out of the group that is cooled. *)
NoReturnWhileCooling ==
  [][\A r \in Runs : (run[r].at = "failing" /\ run'[r].at = "turn") =>
       \A f \in failed[r] : f.model = run'[r].route =>
         f.key \in shortened \/ Regrouped(f.model, f.key, f.group)]_vars

(* A run gives up after a failure that may be routed around only where no other
   model was left to go to (Fallback), except that the model it leaves was taken
   out of the group that is cooled and is chosen again. *)
GivesUpOnlyWithoutAlternative ==
  [][\A r \in Runs : (run[r].at = "failing" /\ run'[r].at = "failed") =>
       Eligible(r) \subseteq {run[r].route} \/ Regrouped(run[r].route, run[r].left, run[r].group)]_vars
=============================================================================
