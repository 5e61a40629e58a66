---------------------------- MODULE PassphraseCache ----------------------------
(***************************************************************************)
(* The passphrase of one vault and the entry the passphrase cache keeps    *)
(* for its path.  A command loads the vault, obtains a passphrase (the     *)
(* environment, then the cache, then a prompt), unlocks what it loaded and *)
(* only then writes the passphrase to the cache, for a whole time to live  *)
(* again.  Commands overlap; nothing locks the entry.                      *)
(***************************************************************************)
EXTENDS Naturals

CONSTANTS CacheUsers,          \* commands that unlock the vault
          Phrases,             \* passphrases somebody types
          Blank,               \* the empty passphrase
          NoPhrase,            \* no passphrase factor, or no entry
          Ttl                  \* seconds an entry lives, in ticks

ASSUME CacheAssumption == Blank \in Phrases /\ NoPhrase \notin Phrases /\ Ttl \in Nat \ {0}

VARIABLES vaultPhrase,         \* what opens the vault file
          everOpened,          \* history: what ever opened it
          cached,              \* the entry, with the time it has left
          caching,             \* config.toml: is the cache on, can its backend be used here?
          unlocking            \* the commands under way

cacheVars == <<vaultPhrase, everOpened, cached, caching, unlocking>>

NoEntry == [phrase |-> NoPhrase, left |-> 0]
AtRest  == [at |-> "rest", loaded |-> NoPhrase, phrase |-> NoPhrase]

CacheInit ==
  /\ vaultPhrase = NoPhrase
  /\ everOpened = {NoPhrase}
  /\ cached = NoEntry
  /\ caching = [on |-> FALSE, usable |-> TRUE]
  /\ unlocking = [u \in CacheUsers |-> AtRest]

Ended(u) == unlocking' = [unlocking EXCEPT ![u] = AtRest]

-----------------------------------------------------------------------------
(* The user. *)

\* enable-, change- and disable-passphrase take the old passphrase from the
\* command line, the environment or a prompt; the cache has no part in it.
ChangeVaultPhrase(w) ==
  /\ w # vaultPhrase
  /\ vaultPhrase' = w
  /\ everOpened' = everOpened \cup {w}
  /\ UNCHANGED <<cached, caching, unlocking>>

EditConfig ==
  /\ caching' \in [on : BOOLEAN, usable : BOOLEAN] \ {caching}
  /\ UNCHANGED <<vaultPhrase, everOpened, cached, unlocking>>

\* passphrase-cache clear: also when the cache is off.
ClearCache ==
  /\ caching.usable
  /\ cached' = NoEntry
  /\ UNCHANGED <<vaultPhrase, everOpened, caching, unlocking>>

Tick ==
  /\ cached.left > 0
  /\ cached' = [cached EXCEPT !.left = @ - 1]
  /\ UNCHANGED <<vaultPhrase, everOpened, caching, unlocking>>

-----------------------------------------------------------------------------
(* A command that unlocks the vault.  A vault without a passphrase factor   *)
(* asks for none and caches none.                                           *)

LoadVault(u) ==
  /\ unlocking[u] = AtRest
  /\ vaultPhrase # NoPhrase
  /\ unlocking' = [unlocking EXCEPT ![u] = [@ EXCEPT !.at = "obtain", !.loaded = vaultPhrase]]
  /\ UNCHANGED <<vaultPhrase, everOpened, cached, caching>>

Obtained(u, w) == unlocking' = [unlocking EXCEPT ![u] = [@ EXCEPT !.at = "unlock", !.phrase = w]]

\* SSHENV_PASSPHRASE counts unless it is empty.
ObtainFromEnvironment(u) ==
  /\ unlocking[u].at = "obtain"
  /\ \E w \in Phrases \ {Blank} : Obtained(u, w)
  /\ UNCHANGED <<vaultPhrase, everOpened, cached, caching>>

(* Mutant: what came from the cache is written back before it is tried. *)
ObtainAndRenew(u) ==
  /\ unlocking[u].at = "obtain"
  /\ caching.on /\ caching.usable /\ cached.left > 0
  /\ Obtained(u, cached.phrase)
  /\ cached' = [cached EXCEPT !.left = Ttl]
  /\ UNCHANGED <<vaultPhrase, everOpened, caching>>

ObtainFromCache(u) ==
  /\ unlocking[u].at = "obtain"
  /\ caching.on /\ caching.usable /\ cached.left > 0
  /\ Obtained(u, cached.phrase)
  /\ UNCHANGED <<vaultPhrase, everOpened, cached, caching>>

\* An expired entry is removed, if that succeeds, and then ignored.  Without a
\* terminal there is no prompt, and GiveUp.
Prompt(u) ==
  /\ unlocking[u].at = "obtain"
  /\ ~caching.on \/ (caching.usable /\ cached.left = 0)
  /\ \E w \in Phrases : Obtained(u, w)
  /\ cached' \in {cached} \cup (IF caching.on THEN {NoEntry} ELSE {})
  /\ UNCHANGED <<vaultPhrase, everOpened, caching>>

\* No terminal, a backend this platform does not have, no identity; or, once the
\* vault is open, a profile with a passphrase of its own.
GiveUp(u) ==
  /\ unlocking[u].at \in {"obtain", "unlock"}
  /\ Ended(u)
  /\ UNCHANGED <<vaultPhrase, everOpened, cached, caching>>

(* Mutant: what was typed is remembered, whether it opens the vault or not. *)
UnlockWithAny(u) ==
  /\ unlocking[u].at = "unlock"
  /\ unlocking' = [unlocking EXCEPT ![u].at = "cache"]
  /\ UNCHANGED <<vaultPhrase, everOpened, cached, caching>>

Unlock(u) ==
  /\ unlocking[u].at = "unlock"
  /\ IF unlocking[u].phrase = unlocking[u].loaded
       THEN unlocking' = [unlocking EXCEPT ![u].at = "cache"]
       ELSE Ended(u)
  /\ UNCHANGED <<vaultPhrase, everOpened, cached, caching>>

\* cache_vault_passphrase_if_present: a failure is a warning.
CachePhrase(u) ==
  /\ unlocking[u].at = "cache"
  /\ cached' = IF caching.on /\ caching.usable /\ unlocking[u].phrase # Blank
                 THEN [phrase |-> unlocking[u].phrase, left |-> Ttl]
                 ELSE cached
  /\ Ended(u)
  /\ UNCHANGED <<vaultPhrase, everOpened, caching>>

-----------------------------------------------------------------------------
CacheNext ==
  \/ \E w \in Phrases \cup {NoPhrase} : ChangeVaultPhrase(w)
  \/ EditConfig
  \/ ClearCache
  \/ Tick
  \/ \E u \in CacheUsers :
       \/ LoadVault(u)
       \/ ObtainFromEnvironment(u)
       \/ ObtainFromCache(u)
       \/ Prompt(u)
       \/ GiveUp(u)
       \/ Unlock(u)
       \/ CachePhrase(u)

CacheSpec == CacheInit /\ [][CacheNext]_cacheVars

\* Time passes; nothing is asked of the user or of any command.
CacheFairness == WF_cacheVars(Tick)

-----------------------------------------------------------------------------
(***************************************************************************)
(* What the cache holds did open the vault at some time: a typing error is *)
(* never remembered, however the commands overlap with each other and with *)
(* a change of the passphrase.                                             *)
(***************************************************************************)
CachedPhraseOpened == cached.phrase \in everOpened

(***************************************************************************)
(* A passphrase that no longer opens the vault does not stay usable in the *)
(* cache, even when commands try it again and again: an unlock that fails  *)
(* does not renew it, so its time runs out (or it opens the vault again).  *)
(* There is no way round it before that: a command that finds an entry     *)
(* never prompts.                                                          *)
(***************************************************************************)
StaleEntryEnds ==
  \A w \in Phrases :
    (cached.phrase = w /\ vaultPhrase # w) ~> (cached.phrase # w \/ cached.left = 0 \/ vaultPhrase = w)
=============================================================================
