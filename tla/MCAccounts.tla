----------------------------- MODULE MCAccounts -----------------------------
EXTENDS Naturals, TLC
CONSTANTS Platforms, MaxFaults, MaxWrites, Logins, Ops, MaxTokens, MaxRestarts,
  MaxServers, NotifyCap, MaxPairings
ASSUME BoundsAssumption ==
  /\ MaxTokens \in Nat \ {0}
  /\ {MaxFaults, MaxWrites, MaxRestarts, MaxServers, NotifyCap, MaxPairings} \subseteq Nat
ASSUME NamesAssumption == "none" \notin Logins \cup Ops

VARIABLES part, platform, keyring, secretFile, masterKey, registry, registryFile, migrating, env,
  login, call, issued, revoked, rotates, aged, mishap, restarts,
  configured, setupFile, listening,
  server, bridge, entry, task, setup, turn, signedIn,
  connected, pairing, queue, waiter, carried, handed, signIn, work

H == INSTANCE HuggingFaceAccount
G == INSTANCE GoogleGeminiAccount
O == INSTANCE OpenRouterAccount
C == INSTANCE CodexAccount
W == INSTANCE ClaudeWebAccount
\* Each adapter on a platform of its own.
Where == [huggingface |-> "linux", gemini |-> "darwin", openrouter |-> "bare", codex |-> "bare",
  claudeweb |-> "bare"]
gemini == <<configured, setupFile, listening>>
accounts == <<login, call, issued, revoked, rotates, aged, mishap, restarts>>
codex == <<server, bridge, entry, task, setup, turn, signedIn>>
claudeWeb == <<connected, pairing, queue, waiter, carried, handed, signIn, work>>
vars == <<part, platform, keyring, secretFile, masterKey, registry, registryFile, migrating, env,
  login, call, issued, revoked, rotates, aged, mishap, restarts, gemini, codex, claudeWeb>>

Init ==
  /\ part \in {"huggingface", "gemini", "openrouter", "codex", "claudeweb"}
  /\ CASE part = "openrouter" -> O!AccountsInit("plain", {0}) /\ rotates = FALSE
       [] part \in {"codex", "claudeweb"} -> H!AccountsInit("account", {0}) /\ rotates = FALSE
       [] part = "gemini" -> H!AccountsInit("account", {0}) /\ rotates = FALSE
       [] OTHER -> H!AccountsInit("account", {1}) /\ rotates = TRUE
  /\ platform = Where[part]
  /\ G!GeminiInit /\ (part # "gemini" => ~configured)
  /\ C!CodexInit /\ setup.found = (part = "codex" /\ registryFile["mine"] = "absent")
  /\ W!ClaudeWebInit
Next ==
  \/ part = "huggingface" /\ H!Next /\ UNCHANGED <<part, gemini, codex, claudeWeb>>
  \/ part = "openrouter" /\ O!Next /\ UNCHANGED <<part, gemini, codex, claudeWeb>>
  \/ part = "openrouter" /\ O!StoreNext /\ UNCHANGED <<part, accounts, gemini, codex, claudeWeb>>
  \/ part = "gemini" /\ G!Next /\ UNCHANGED <<part, codex, claudeWeb>>
  \/ part = "codex" /\ C!Next /\ UNCHANGED <<part, accounts, gemini, claudeWeb>>
  \/ part = "claudeweb" /\ W!Next /\ UNCHANGED <<part, accounts, gemini, codex>>
Spec == Init /\ [][Next]_vars

TypeOK == CASE part = "codex" -> C!CodexTypeOK
            [] part = "claudeweb" -> W!ClaudeWebTypeOK
            [] OTHER -> H!AccountsTypeOK /\ G!GeminiTypeOK
NewestTokenIsKept == part \notin {"codex", "claudeweb"} => H!NewestTokenIsKept
DeadLoginsStayDead == H!DeadLoginsStayDead
NothingIsLeftBehind == G!NoStrayListener /\ C!NoStrayServer /\ W!NoWaiterIsForgotten
AnswersOwnTurn == C!AnswersOwnTurn
Alike == Permutations(Ops)
=============================================================================
