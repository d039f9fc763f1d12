--------------------------- MODULE ProviderStore ----------------------------
(* What TL Studio keeps about model providers on disk: the registry of their
   definitions (runtime_providers.go) and the credential vault (credential_store.go,
   credential_store_unix.go).  The operations here are parts of actions: the
   account adapters and the routes of this module use them.

   The vault writes to the platform's keyring and falls back to encrypted files;
   the keyring may be locked and the disk full for a while (env).  The registry is
   read once and then kept in memory; every change rewrites the whole file. *)
EXTENDS Integers, FiniteSets

CONSTANTS Platforms,     \* where the program may run: darwin, linux (with secret-tool), bare
          MaxFaults, MaxWrites                                  \* bounds

Nothing == [none |-> TRUE]       \* no secret
ApiKey == [key |-> TRUE]         \* a key the user typed
Broken == [broken |-> TRUE]      \* a secret file that cannot be decrypted
Slots == {"account", "api"}
Ids == {"mine", "other"}         \* the provider of the account in question, and another one
(* A provider: absent, managed by its account, the user's own, the user's own
   under the account's name with another base URL, or the JEV router of OpenRouter
   before and after it was marked as managed. *)
Definitions == {"absent", "account", "plain", "foreign", "legacy", "jev"}
NoDefinitions == [i \in Ids |-> "absent"]
Torn == [i \in Ids |-> "torn"]

VARIABLES platform, keyring, secretFile, masterKey,   \* the vault
          registry,       \* the registry in memory: loaded or not, and its definitions
          registryFile,   \* providers.json
          migrating,      \* the definitions a migration under registryMu is about to write
          env             \* whether the keyring is locked and the disk full; the bounded counters

vault == <<platform, keyring, secretFile, masterKey>>
registryVars == <<registry, registryFile, migrating>>
store == <<vault, registryVars, env>>

StoreTypeOK(Secrets) ==
  /\ platform \in Platforms /\ masterKey \in {"none", "good", "short"}
  /\ keyring \in [Slots -> Secrets \cup {ApiKey, Nothing}]
  /\ secretFile \in [Slots -> Secrets \cup {ApiKey, Nothing, Broken}]
  /\ registry \in [loaded : BOOLEAN, defs : [Ids -> Definitions]]
  /\ registryFile \in [Ids -> Definitions] \cup {Torn}
  /\ migrating \in [Ids -> Definitions] \cup {Nothing}
  /\ env \in [locked : BOOLEAN, full : BOOLEAN, faults : 0..MaxFaults, writes : 0..MaxWrites]

-----------------------------------------------------------------------------
(* loadOrCreatePrivateCredentialKey: a key whose write failed stays short, and no
   secret can be encrypted or decrypted from then on. *)
MasterKey(ok) ==
  \/ ok /\ (masterKey = "good" \/ (masterKey = "none" /\ ~env.full)) /\ masterKey' = "good"
  \/ ~ok /\ masterKey = "short" /\ UNCHANGED masterKey
  \/ ~ok /\ masterKey = "none" /\ env.full /\ masterKey' \in {"none", "short"}

\* privateFileCredentialStore.Put: os.WriteFile truncates before it writes.
PutFile(slot, secret, ok) ==
  \/ ok /\ ~env.full /\ MasterKey(TRUE) /\ secretFile' = [secretFile EXCEPT ![slot] = secret]
  \/ ~ok /\ MasterKey(FALSE) /\ UNCHANGED secretFile
  \/ /\ ~ok /\ env.full /\ MasterKey(TRUE)
     /\ \E left \in {secretFile[slot], Broken} : secretFile' = [secretFile EXCEPT ![slot] = left]

Keyring == platform # "bare" /\ ~env.locked

(* unixCredentialStore.Put: what the keyring takes leaves the file; where it does
   not, Linux writes the file and macOS gives up. *)
Put(slot, secret, ok) ==
  /\ UNCHANGED platform
  /\ \/ /\ ok /\ Keyring
        /\ keyring' = [keyring EXCEPT ![slot] = secret]
        /\ secretFile' = [secretFile EXCEPT ![slot] = Nothing]
        /\ UNCHANGED masterKey
     \/ ~ok /\ platform = "darwin" /\ env.locked /\ UNCHANGED <<keyring, secretFile, masterKey>>
     \/ ~Keyring /\ platform # "darwin" /\ PutFile(slot, secret, ok) /\ UNCHANGED keyring

\* privateFileCredentialStore.Get.
GetFile(slot) ==
  IF secretFile[slot] # Nothing /\ masterKey = "short" THEN Broken ELSE secretFile[slot]

\* unixCredentialStore.Get: a keyring without an answer is one without the secret.
Get(slot) == IF Keyring /\ keyring[slot] # Nothing THEN keyring[slot] ELSE GetFile(slot)

(* unixCredentialStore.Delete: Linux does not look at whether secret-tool cleared
   the secret; macOS says so after it removed the file. *)
Delete(slot, ok) ==
  /\ secretFile' = [secretFile EXCEPT ![slot] = Nothing]
  /\ keyring' = IF Keyring THEN [keyring EXCEPT ![slot] = Nothing] ELSE keyring
  /\ ok = ~(platform = "darwin" /\ env.locked)
  /\ UNCHANGED <<platform, masterKey>>

-----------------------------------------------------------------------------
(* loadLocked: the registry counts as loaded before its file is read, so that a
   file that cannot be read is an error once and an empty registry ever after. *)
Readable == registry.loaded \/ registryFile # Torn
Loaded ==
  IF registry.loaded THEN registry
  ELSE [loaded |-> TRUE, defs |-> IF Readable THEN registryFile ELSE NoDefinitions]

\* persistLocked: a temporary file renamed; where that fails, the file itself is written.
Persist(defs, ok) ==
  \/ ok /\ ~env.full /\ registryFile' = defs
  \/ ~ok /\ env.full /\ registryFile' \in {registryFile, Torn}

\* replace, put and remove: memory changes first, and stays changed where the file does not.
Replace(defs, ok) ==
  \/ ~Readable /\ ~ok /\ registry' = Loaded /\ UNCHANGED registryFile
  \/ Readable /\ registry' = [loaded |-> TRUE, defs |-> defs] /\ Persist(defs, ok)
PutDefinition(id, def, ok) ==
  Replace([Loaded.defs EXCEPT ![id] = def], ok) /\ UNCHANGED migrating
RemoveDefinition(id, ok) ==
  Replace([Loaded.defs EXCEPT ![id] = "absent"], ok) /\ UNCHANGED migrating

\* get: reads the registry if nobody has.
Look == registry' = Loaded /\ UNCHANGED <<registryFile, migrating>>

\* removeManagedProvider and its like: only what the account manages goes, and a failure is not told.
RemoveManaged ==
  IF Readable /\ Loaded.defs["mine"] = "account"
  THEN \E ok \in BOOLEAN : RemoveDefinition("mine", ok)
  ELSE Look

-----------------------------------------------------------------------------
\* migrateManagedProviderMetadata.
Migrated(defs) == [i \in Ids |-> IF defs[i] = "legacy" THEN "jev" ELSE defs[i]]

(* ensureRegistryInitialized, which every route calls first: the snapshot is taken
   under the store's lock and written back under it again, with only registryMu
   held in between: the adapters do not take registryMu. *)
Snapshot ==
  /\ migrating = Nothing /\ registry' = Loaded
  /\ migrating' = IF Readable /\ Migrated(Loaded.defs) # Loaded.defs
                  THEN Migrated(Loaded.defs) ELSE Nothing
  /\ UNCHANGED <<registryFile, vault, env>>
  /\ registryVars' # registryVars
Migrate ==
  /\ migrating # Nothing /\ migrating' = Nothing
  /\ \E ok \in BOOLEAN : Replace(migrating, ok)
  /\ UNCHANGED <<vault, env>>

Settled == migrating = Nothing /\ registry.loaded /\ Migrated(registry.defs) = registry.defs
Write == env.writes < MaxWrites /\ env' = [env EXCEPT !.writes = @ + 1]

\* PUT /local/providers/config/{id}: the definition, then the API key.
PutConfig(def) ==
  /\ Settled /\ Write
  /\ \E ok \in BOOLEAN : /\ PutDefinition("mine", def, ok)
                         /\ IF ok THEN \E done \in BOOLEAN : Put("api", ApiKey, done)
                                  ELSE UNCHANGED vault

\* DELETE .../api-connection: a provider the account manages stays.
DisconnectApi ==
  /\ Settled /\ Write
  /\ \E ok \in BOOLEAN :
       /\ Delete("api", ok)
       /\ IF ok /\ registry.defs["mine"] \in {"plain", "foreign"}
          THEN \E done \in BOOLEAN : RemoveDefinition("mine", done)
          ELSE UNCHANGED registryVars

\* DELETE /local/providers/config/{id}: both credentials, then the definition.
DeleteConfig ==
  /\ Settled /\ Write /\ registry.defs["mine"] # "absent"
  /\ \E ok \in BOOLEAN :
       /\ \/ /\ ok /\ secretFile' = [s \in Slots |-> Nothing]
             /\ keyring' = IF Keyring THEN [s \in Slots |-> Nothing] ELSE keyring
             /\ ~(platform = "darwin" /\ env.locked) /\ UNCHANGED <<platform, masterKey>>
          \/ ~ok /\ Delete("api", FALSE)
       /\ IF ok THEN \E done \in BOOLEAN : RemoveDefinition("mine", done)
                ELSE UNCHANGED registryVars

-----------------------------------------------------------------------------
\* The surroundings: the keyring locks, the disk fills up, and both get over it.
Trouble ==
  /\ env.faults < MaxFaults
  /\ \/ ~env.locked /\ platform # "bare" /\ env' = [env EXCEPT !.locked = TRUE, !.faults = @ + 1]
     \/ ~env.full /\ env' = [env EXCEPT !.full = TRUE, !.faults = @ + 1]
  /\ UNCHANGED <<vault, registryVars>>
Recovery ==
  /\ (env.locked \/ env.full) /\ env' = [env EXCEPT !.locked = FALSE, !.full = FALSE]
  /\ UNCHANGED <<vault, registryVars>>

StoreNext ==
  \/ Snapshot \/ Migrate \/ DisconnectApi \/ DeleteConfig \/ Trouble \/ Recovery
  \/ \E def \in {"plain", "foreign"} : PutConfig(def)
=============================================================================
