---------------------------- MODULE RemoteRequests ----------------------------
(***************************************************************************)
(* A factor that an adapter outside sshenv keeps: the vault holds the      *)
(* metadata of remote factors and the factor key as the adapter wrapped    *)
(* it, and every unlock has the adapter unwrap it for a request file that  *)
(* names the generation of the vault and when it expires.  The request     *)
(* file, its age and the time are inputs of each command.  What else a     *)
(* vault needs to be unlocked is in VaultCodec.                            *)
(***************************************************************************)
EXTENDS Naturals, FiniteSets

CONSTANTS RemoteUsers,      \* processes
          RemoteFactorIds,
          Adapters,         \* what the `command` parameter of a factor runs
          NoAdapter,        \* no such parameter
          MaxRemoteGeneration,
          Times

ASSUME RemoteAssumption ==
  /\ NoAdapter \notin Adapters
  /\ MaxRemoteGeneration \in Nat /\ Times \subseteq Nat

VARIABLES remoteVault,      \* generation, metadata by id, and the factor, if one is enabled
          asking            \* what each process is at

remoteVars == <<remoteVault, asking>>

Backends == {"self-hosted", "cloud-kms", "oidc-approval"}

\* target: the key of a KMS, or a url that starts with http:// or https://
RemoteMetadata == [id : RemoteFactorIds, backend : Backends, adapter : Adapters \cup {NoAdapter},
             target : BOOLEAN]

(***************************************************************************)
(* A request file.  words are the context entries that are there and not   *)
(* blank; a number may be written plainly, with a leading zero, with       *)
(* spaces around it, or not be one.                                        *)
(***************************************************************************)
Written(n, form) == [n |-> n, form |-> form]
Numbers  == {Written(n, form) : n \in 0 .. MaxRemoteGeneration, form \in {"plain", "zero", "spaced"}}
              \cup {Written(0, "none")}
Required(backend) ==
  {"vault-id", "request-id"} \cup
    (CASE backend = "self-hosted"   -> {"client-id"}
       [] backend = "cloud-kms"     -> {"encryption-context"}
       [] backend = "oidc-approval" -> {"subject", "audience"})
Words    == {Required(b) : b \in Backends} \cup {{"vault-id", "request-id"}}
Requests == [factor : RemoteFactorIds, words : Words, generation : Numbers, expires : Times]

\* remote request-template, with what the options leave to it
Template(m, gen, now) ==
  [factor |-> m.id, words |-> Required(m.backend), generation |-> Written(gen, "plain"),
   expires |-> now + 300]

-----------------------------------------------------------------------------
(* The checks.                                                               *)

\* validate_remote_factor_metadata
ValidRemoteMetadata(m) == m.target \/ (m.backend # "cloud-kms" /\ m.adapter # NoAdapter)

\* CommandRemoteFactorBackend::from_metadata
HasBackend(m) == ValidRemoteMetadata(m) /\ m.adapter # NoAdapter

\* validate_remote_factor_request_at: numbers are trimmed before they are parsed.
ValidRequest(m, r, now) ==
  /\ r.factor = m.id
  /\ Required(m.backend) \subseteq r.words
  /\ r.generation.form # "none"
  /\ r.expires > now

(* Mutant: the expectation is compared as a number. *)
ExpectedNumber(r, gen) == r.generation.form # "none" /\ r.generation.n = gen

\* validate_remote_request_expectations: compared as text
ExpectedGeneration(r, gen) == r.generation = Written(gen, "plain")

\* remote validate-request --expected-generation
Validated(m, r, gen, now) == ValidRequest(m, r, now) /\ ExpectedGeneration(r, gen)

(* Mutant: the generation of the request is not compared. *)
NamesAnyGeneration(r, gen) == r.generation.form \in {"plain", "zero"}

\* remote_factor_key: parsed as it stands
NamesGeneration(r, gen) == r.generation.form \in {"plain", "zero"} /\ r.generation.n = gen

\* remote_factor_key, up to where the adapter is run
RequestAccepted(v, r, now) ==
  /\ NamesGeneration(r, v.gen)
  /\ \E m \in v.remotes : m.id = v.factor.id /\ HasBackend(m) /\ ValidRequest(m, r, now)

-----------------------------------------------------------------------------
NoFactor == [id |-> NoAdapter, wrappedBy |-> NoAdapter]

NewVault == [gen |-> 0, remotes |-> {}, factor |-> NoFactor]

\* approved: the generations of the requests an adapter has approved
Asking(at, v) == [at |-> at, loaded |-> v, approved |-> {}]

RemoteInit ==
  /\ remoteVault = NewVault
  /\ asking = [u \in RemoteUsers |-> Asking("rest", NewVault)]

Rests(u) == asking' = [asking EXCEPT ![u] = Asking("rest", NewVault)]

\* A command reads the file.
LoadRemote(u) ==
  /\ asking[u].at = "rest"
  /\ asking' = [asking EXCEPT ![u] = Asking("ask", remoteVault)]
  /\ UNCHANGED remoteVault

NotAsked(u) ==
  /\ asking[u].at = "ask"
  /\ asking[u].loaded.factor = NoFactor
  /\ asking' = [asking EXCEPT ![u].at = "open"]
  /\ UNCHANGED remoteVault

\* unwrap_payload_key: the adapter that wrapped the key approves.
Ask(u, r, now) ==
  LET v == asking[u].loaded
  IN  /\ asking[u].at = "ask"
      /\ v.factor # NoFactor
      /\ RequestAccepted(v, r, now)
      /\ \E m \in v.remotes : m.id = v.factor.id /\ m.adapter = v.factor.wrappedBy
      /\ asking' = [asking EXCEPT ![u].at = "open", ![u].approved = {r.generation.n}]
      /\ UNCHANGED remoteVault

\* The request is refused, the adapter is missing, denies, answers with something else
\* or is another one than wrapped the key; or the command only reads.
EndRemote(u) ==
  /\ asking[u].at # "rest"
  /\ Rests(u)
  /\ UNCHANGED remoteVault

(* Mutant: what is replaced is not compared with what was loaded. *)
OverwritesRemote(u, v) ==
  /\ asking[u].at = "open"
  /\ asking[u].loaded.gen < MaxRemoteGeneration
  /\ remoteVault' = [v EXCEPT !.gen = asking[u].loaded.gen + 1]
  /\ Rests(u)

\* save_vault: the generation goes up, and what is replaced is what was loaded.
SavesRemote(u, v) ==
  /\ asking[u].at = "open"
  /\ asking[u].loaded.gen < MaxRemoteGeneration
  /\ remoteVault = asking[u].loaded
  /\ remoteVault' = [v EXCEPT !.gen = asking[u].loaded.gen + 1]
  /\ Rests(u)

\* Any command that changes something else.
SaveOther(u) == SavesRemote(u, asking[u].loaded)

WithMetadata(v, m) == [v EXCEPT !.remotes = {n \in @ : n.id # m.id} \cup {m}]

ImportMetadata(u, m) ==
  /\ ValidRemoteMetadata(m)
  /\ SavesRemote(u, WithMetadata(asking[u].loaded, m))

RemoveMetadata(u, id) ==
  /\ \E m \in asking[u].loaded.remotes : m.id = id
  /\ SavesRemote(u, [asking[u].loaded EXCEPT !.remotes = {m \in @ : m.id # id}])

\* enable-command wraps a new key; its request may be one of another generation.
EnableAdapter(u, m) ==
  /\ HasBackend(m)
  /\ SavesRemote(u, [WithMetadata(asking[u].loaded, m)
                       EXCEPT !.factor = [id |-> m.id, wrappedBy |-> m.adapter]])
  /\ \E r \in Requests, now \in Times : ValidRequest(m, r, now)

RemoteNext ==
  \E u \in RemoteUsers :
    \/ LoadRemote(u) \/ NotAsked(u) \/ EndRemote(u) \/ SaveOther(u)
    \/ \E id \in RemoteFactorIds : RemoveMetadata(u, id)
    \/ \E r \in Requests, now \in Times : Ask(u, r, now)
    \/ \E m \in RemoteMetadata : ImportMetadata(u, m) \/ EnableAdapter(u, m)

RemoteSpec == RemoteInit /\ [][RemoteNext]_remoteVars

-----------------------------------------------------------------------------
\* An approval is good for one change: what replaces a vault with a remote factor was
\* written by a process whose request named the very generation it replaces.  No
\* request outlives a save, whoever made it, and no approval of a process that was
\* overtaken is used.
OneChangePerApproval ==
  [][remoteVault' # remoteVault /\ remoteVault.factor # NoFactor =>
       \E u \in RemoteUsers :
         /\ asking[u].at = "open" /\ asking'[u].at = "rest"
         /\ remoteVault.gen \in asking[u].approved
    ]_remoteVars

\* What `remote validate-request --expected-generation` calls valid is accepted by an
\* unlock at that time; and so is what `remote request-template` writes.
ValidatedUnlocks ==
  \A m \in remoteVault.remotes : m.id = remoteVault.factor.id /\ HasBackend(m) =>
    \A now \in Times :
      /\ \A r \in Requests :
           Validated(m, r, remoteVault.gen, now) => RequestAccepted(remoteVault, r, now)
      /\ RequestAccepted(remoteVault, Template(m, remoteVault.gen, now), now)
===============================================================================
