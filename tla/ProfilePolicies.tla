--------------------------- MODULE ProfilePolicies ---------------------------
(***************************************************************************)
(* Profile policies: what a vault says each profile needs, the planner     *)
(* that tells what is missing, and the commands that repair it, one        *)
(* profile at a time or all of them.  Each command loads the vault,        *)
(* changes it and saves it in one step (VaultFile!RefinesRegister); keys   *)
(* are VaultCommands'.                                                     *)
(***************************************************************************)
EXTENDS Naturals, FiniteSets, FiniteSetsExt, Functions

CONSTANT PolicyProfiles          \* names of profiles

VARIABLES stored,                \* the vault file
          backend                \* does this build have a device-seal backend?

policyVars == <<stored, backend>>

Kinds   == {"passphrase", "device-seal"}
Presets == {"standard", "recommended", "portable", "team", "paranoid"}

\* How a command gets a passphrase: as an argument, at a prompt, or not at all.
Passphrase == {"given", "asked", "none"}

When(condition, x) == IF condition THEN {x} ELSE {}

\* A vault in memory: the profiles that are unlocked are names, those with an
\* encrypted entry are entries.  In the file a profile is one or the other.
VaultRecords ==
  [version : {1, 2}, keys : BOOLEAN, factors : SUBSET Kinds, shares : BOOLEAN,
   names : SUBSET PolicyProfiles, entries : SUBSET PolicyProfiles,
   policies : UNION {[P -> [preset : Presets, required : SUBSET Kinds, meta : SUBSET Kinds]] :
                       P \in SUBSET PolicyProfiles}]

DefaultPolicy == [preset |-> "standard", required |-> {}, meta |-> {}]
PolicyOf(v, p) == IF p \in DOMAIN v.policies THEN v.policies[p] ELSE DefaultPolicy
WithPolicy(v, p, policy) ==
  [v EXCEPT !.policies = [q \in DOMAIN @ \cup {p} |-> IF q = p THEN policy ELSE @[q]]]

PolicyNames(v) == v.names \cup v.entries \cup DOMAIN v.policies

MetadataUnlocked(d)   == d
FullUnlocked(d)       == [d EXCEPT !.names = @ \cup d.entries]
ProfileUnlocked(d, p) == [d EXCEPT !.names = @ \cup (d.entries \cap {p})]

\* What a save writes: with profile keys every profile is an entry.
Encoded(v) == IF v.keys THEN [v EXCEPT !.entries = @ \cup v.names, !.names = {}] ELSE v

-----------------------------------------------------------------------------
(* The planner. *)

Expected(preset) ==
  When(preset \in {"portable", "paranoid"}, "passphrase")
    \cup When(preset \in {"recommended", "paranoid"} /\ backend, "device-seal")

(* Mutant: a profile exists when it is unlocked. *)
ExistsUnlocked(v, p) == p \in v.names

Exists(v, p) == p \in v.names \cup v.entries

Finding(code, kind) == [code |-> code, kind |-> kind]

Findings(v, p) ==
  IF p \notin DOMAIN v.policies THEN {} ELSE
  LET policy == v.policies[p]
  IN  When(~Exists(v, p), Finding("policy-for-missing-profile", "none"))
      \cup When(~v.keys /\ policy.required \cup policy.meta # {},
                Finding("factors-without-profile-keys", "none"))
      \cup When(v.keys /\ Exists(v, p) /\ p \notin v.entries, Finding("missing-entry", "none"))
      \cup {Finding("unsatisfied", k) : k \in policy.required \ (policy.meta \cup v.factors)}
      \cup When(policy.preset = "team" /\ ~v.shares, Finding("team-without-shares", "none"))
      \cup {Finding("missing-binding", k) : k \in Expected(policy.preset) \ policy.meta}

Bind(k) == IF k = "passphrase" THEN "BindPassphrase" ELSE "BindDeviceSeal"
Binds(actions) == {k \in Kinds : Bind(k) \in actions}

Unrepairable(f) ==
  \/ f.code \in {"policy-for-missing-profile", "team-without-shares"}
  \/ f.kind = "device-seal" /\ ~backend

\* "consistent" is decided on the actions the planner found, before a command
\* adds some of its own.
PlanOf(v, p) ==
  LET found    == Findings(v, p)
      required == When(v.version = 1, "MigrateToV2")
                    \cup When(~v.keys, "EnableProfileKeyMode")
                    \cup When(\E f \in found : f.code = "missing-entry", "RegenerateProfileEntry")
                    \cup {Bind(f.kind) : f \in {g \in found : g.kind # "none" /\ ~Unrepairable(g)}}
      actions  == required \cup When(Binds(required) # {} \/ "RegenerateProfileEntry" \in required,
                                     "RotateProfileKey")
      stuck    == {f \in found : Unrepairable(f)}
  IN  [actions |-> actions, stuck |-> stuck, consistent |-> actions = {} /\ stuck = {}]

Adding(plan, actions) == [plan EXCEPT !.actions = @ \cup actions]

\* What `status` and `check` say of a profile: where each requirement is met,
\* whether a repair is planned, and whether one is advised.
Source(v, p, kind) ==
  CASE kind \in PolicyOf(v, p).meta -> "profile"
    [] kind \in v.factors \ PolicyOf(v, p).meta -> "vault"
    [] OTHER -> "missing"

Hinted(v, p) == \E f \in Findings(v, p) : f.code # "team-without-shares"

Status(v, p) ==
  LET plan == PlanOf(v, p)
  IN  [findings   |-> Findings(v, p),
       plan       |-> plan,
       sources    |-> [k \in PolicyOf(v, p).required |-> Source(v, p, k)],
       repairable |-> plan.stuck = {} /\ plan.actions # {},
       hinted     |-> Hinted(v, p)]

CheckOf(v) == [p \in PolicyNames(v) |-> Status(v, p)]

-----------------------------------------------------------------------------
(* What the steps of a command may leave, as sets: an empty set is an error. *)

Preset(v, p, preset) ==
  IF p \notin v.names THEN {}
  ELSE LET policy == [PolicyOf(v, p) EXCEPT !.preset = preset]
       IN  {WithPolicy(v, p, IF preset = "standard" THEN DefaultPolicy ELSE policy)}

Editable(v, p) == v.version = 2 /\ v.keys /\ p \in v.names

(* Mutant: the factor is required and its metadata is not recorded. *)
ProfileRequiresUnbound(v, p, kind) ==
  When(Editable(v, p), WithPolicy(v, p, [PolicyOf(v, p) EXCEPT !.required = @ \cup {kind}]))

ProfileRequires(v, p, kind) ==
  When(Editable(v, p),
       WithPolicy(v, p, [PolicyOf(v, p) EXCEPT !.required = @ \cup {kind}, !.meta = @ \cup {kind}]))

Migrated(v, resolved) ==
  IF v.version = 2 THEN {v}
  ELSE When(resolved, [v EXCEPT !.version = 2, !.keys = FALSE, !.factors = {}, !.shares = FALSE])

(* Mutant: the non-secret actions run before the migration. *)
WithBaseUnmigrated(v, actions, resolved) ==
  LET keyed == IF "EnableProfileKeyMode" \in actions /\ v.version = 2
               THEN [v EXCEPT !.keys = TRUE] ELSE v
  IN  Migrated(keyed, resolved)

WithBase(v, actions, resolved) ==
  LET moved == IF "MigrateToV2" \in actions THEN Migrated(v, resolved) ELSE {v}
  IN  {[m EXCEPT !.keys = @ \/ ("EnableProfileKeyMode" \in actions /\ m.version = 2)] : m \in moved}

WithPassphrase(v, p, actions, pass) ==
  IF \/ "BindPassphrase" \notin actions
     \/ "passphrase" \in PolicyOf(v, p).meta /\ pass # "given"
  THEN {v}
  ELSE IF pass = "none" THEN {} ELSE ProfileRequires(v, p, "passphrase")

WithDeviceSeal(v, p, actions) ==
  IF \/ "BindDeviceSeal" \notin actions
     \/ "device-seal" \in PolicyOf(v, p).meta
     \/ ~backend
  THEN {v} ELSE ProfileRequires(v, p, "device-seal")

Applied(v, p, actions, pass, resolved) ==
  UNION {UNION {WithDeviceSeal(w, p, actions) : w \in WithPassphrase(u, p, actions, pass)} :
           u \in {b \in WithBase(v, actions, resolved) : Editable(b, p)}}

InputsGiven(plans, pass, resolved, strict) ==
  /\ (\E plan \in plans : "BindPassphrase" \in plan.actions) => pass # "none"
  /\ strict /\ (\E plan \in plans : "MigrateToV2" \in plan.actions) => resolved

-----------------------------------------------------------------------------
(* One profile. *)

ApplyPlan(v, p, preset) ==
  {Adding(PlanOf(w, p), When(preset \in {"standard", "paranoid"}, "RotateProfileKey")) :
     w \in Preset(v, p, preset)}

\* profile_policy_apply: saved when an action changed the vault, or when the
\* plan was not empty.
AfterApply(d, p, preset, pass, resolved, strict) ==
  LET v == ProfileUnlocked(d, p)
      PlannedActions(plan) ==
        plan.actions \cup (IF pass = "given" /\ "passphrase" \in Expected(preset)
                           THEN {"BindPassphrase", "RotateProfileKey"} ELSE {})
      Results(plan) ==
        LET after == UNION {Applied(w, p, PlannedActions(plan), pass, resolved) :
                              w \in Preset(v, p, preset)}
        IN  {IF PlannedActions(plan) = {} /\ plan.consistent THEN d ELSE Encoded(w) : w \in after}
  IN  UNION {Results(plan) :
               plan \in {q \in ApplyPlan(v, p, preset) : InputsGiven({q}, pass, resolved, strict)}}

AfterRepair(d, p, pass, resolved) ==
  LET v    == ProfileUnlocked(d, p)
      plan == PlanOf(v, p)
  IN  IF plan.stuck # {} \/ ~InputsGiven({plan}, pass, resolved, FALSE) THEN {}
      ELSE {Encoded(w) : w \in Applied(v, p, plan.actions, pass, resolved)}

(* Every profile. *)

RepairAllPlans(v)        == [p \in DOMAIN v.policies |-> PlanOf(v, p)]
ApplyAllPlans(v, preset) ==
  IF \E p \in PolicyNames(v) : Preset(v, p, preset) = {} THEN {}
  ELSE {[p \in PolicyNames(v) |-> CHOOSE plan \in ApplyPlan(v, p, preset) : TRUE]}

\* Nothing is asked for when no plan binds a passphrase.
BulkPassphrase(plans, pass) ==
  IF pass = "given" THEN "given"
  ELSE IF \E plan \in Range(plans) : "BindPassphrase" \in plan.actions
       THEN IF pass = "asked" THEN "given" ELSE "none"
       ELSE "none"

AppliedInTurn(v, plans, Step(_, _)) ==
  FoldSet(LAMBDA p, vaults : UNION {Step(w, p) : w \in vaults}, {v}, DOMAIN plans)

AfterApplyAll(d, preset, pass, resolved, strict) ==
  LET v == FullUnlocked(d)
      Results(plans) ==
        LET phrase == BulkPassphrase(plans, pass)
            ActionsFor(p) ==
              plans[p].actions
                \cup (IF preset \in {"portable", "paranoid"} /\ phrase = "given"
                      THEN {"BindPassphrase", "RotateProfileKey"} ELSE {})
            Step(w, p) == UNION {Applied(u, p, ActionsFor(p), phrase, resolved) :
                                   u \in Preset(w, p, preset)}
        IN  IF \/ \E p \in DOMAIN plans : plans[p].stuck # {}
               \/ ~InputsGiven(Range(plans), pass, resolved, strict)
            THEN {}
            ELSE {IF DOMAIN plans = {} THEN d ELSE Encoded(w) : w \in AppliedInTurn(v, plans, Step)}
  IN  IF preset \in {"recommended", "paranoid"} /\ ~backend THEN {}
      ELSE UNION {Results(plans) : plans \in ApplyAllPlans(v, preset)}

AfterRepairAll(d, pass, resolved, strict) ==
  LET v      == FullUnlocked(d)
      plans  == RepairAllPlans(v)
      phrase == BulkPassphrase(plans, pass)
      Step(w, p) == Applied(w, p, plans[p].actions, phrase, resolved)
  IN  IF \/ \E p \in DOMAIN plans : plans[p].stuck # {}
         \/ ~InputsGiven(Range(plans), pass, resolved, strict)
      THEN {}
      ELSE {Encoded(w) : w \in AppliedInTurn(v, plans, Step)}

AfterTeam(d) ==
  LET v == FullUnlocked(d)
      Step(w, p) == Preset(w, p, "team")
  IN  IF v.version = 1 \/ ~v.shares \/ PolicyNames(v) = {} THEN {}
      ELSE {Encoded(w) : w \in AppliedInTurn(v, [p \in PolicyNames(v) |-> p], Step)}

-----------------------------------------------------------------------------
(* The commands. *)

PolicyInit ==
  /\ backend \in BOOLEAN
  /\ stored = [version |-> 1, keys |-> FALSE, factors |-> {}, shares |-> FALSE,
               names |-> {}, entries |-> {}, policies |-> <<>>]

Saves(results) == stored' \in results /\ UNCHANGED backend

AddProfile(p) == Saves({Encoded([ProfileUnlocked(stored, p) EXCEPT !.names = @ \cup {p}])})

\* The last variable is unset: ProfileMap::unset drops the profile, not its
\* policy.  (With profile keys the entry stays: VaultCommands_unset.)
UnsetLast(p) == p \in stored.names /\ Saves({[stored EXCEPT !.names = @ \ {p}]})

RemoveProfile(p) ==
  /\ p \in stored.names \cup stored.entries
  /\ Saves({[stored EXCEPT !.names = @ \ {p}, !.entries = @ \ {p},
                           !.policies = Restrict(@, DOMAIN @ \ {p})]})

MigrateVault == stored.version = 1 /\ Saves(Migrated(stored, TRUE))

ChangeVaultFactor(kind) ==
  /\ stored.version = 2
  /\ \/ /\ kind = "device-seal" => backend
        /\ Saves({[stored EXCEPT !.factors = @ \cup {kind}]})
     \/ Saves({[stored EXCEPT !.factors = @ \ {kind}]})

ImportOrRemoveShares == stored.version = 2 /\ Saves({[stored EXCEPT !.shares = ~@]})

MigrateProfiles ==
  /\ stored.version = 2
  /\ ~stored.keys
  /\ Saves({Encoded([FullUnlocked(stored) EXCEPT !.keys = TRUE])})

SetPreset(p, preset) ==
  LET v == ProfileUnlocked(stored, p)
  IN  /\ stored.version = 2
      /\ p \in v.names
      /\ Saves({Encoded(WithPolicy(v, p, [PolicyOf(v, p) EXCEPT !.preset = preset]))})

RequireForProfile(p, kind) ==
  /\ kind = "device-seal" => backend
  /\ Saves({Encoded(v) : v \in ProfileRequires(ProfileUnlocked(stored, p), p, kind)})

DisableForProfile(p, kind) ==
  LET v == ProfileUnlocked(stored, p)
  IN  /\ Editable(v, p)
      /\ kind \in PolicyOf(v, p).meta \cup PolicyOf(v, p).required
      /\ Saves({Encoded(WithPolicy(v, p, [PolicyOf(v, p) EXCEPT !.meta = @ \ {kind},
                                                               !.required = @ \ {kind}]))})

ClearRequirements(p) ==
  LET v == ProfileUnlocked(stored, p)
  IN  /\ Editable(v, p)
      /\ Saves({Encoded(WithPolicy(v, p, [PolicyOf(v, p) EXCEPT !.meta = {}, !.required = {}]))})

Apply(p, preset) ==
  \E pass \in Passphrase, resolved, strict \in BOOLEAN :
    Saves(AfterApply(stored, p, preset, pass, resolved, strict))

ApplyAll(preset) ==
  \E pass \in Passphrase, resolved, strict \in BOOLEAN :
    Saves(AfterApplyAll(stored, preset, pass, resolved, strict))

Repair(p) ==
  \E pass \in Passphrase, resolved \in BOOLEAN : Saves(AfterRepair(stored, p, pass, resolved))

RepairAll ==
  \E pass \in Passphrase, resolved, strict \in BOOLEAN :
    Saves(AfterRepairAll(stored, pass, resolved, strict))

\* `harden` and `preset` act on the vault, the team preset on the profiles.
Harden(preset) ==
  IF preset = "team" THEN Saves(AfterTeam(stored))
  ELSE /\ preset # "standard"
       /\ preset = "paranoid" => backend
       /\ \E v \in Migrated(FullUnlocked(stored), TRUE) :
            Saves({Encoded([v EXCEPT !.factors = @ \cup Expected(preset)])})

PolicyNext ==
  \/ MigrateVault \/ ImportOrRemoveShares \/ MigrateProfiles \/ RepairAll
  \/ \E kind \in Kinds : ChangeVaultFactor(kind)
  \/ \E preset \in Presets : ApplyAll(preset) \/ Harden(preset)
  \/ \E p \in PolicyProfiles :
       \/ AddProfile(p) \/ UnsetLast(p) \/ RemoveProfile(p) \/ ClearRequirements(p) \/ Repair(p)
       \/ \E kind \in Kinds : RequireForProfile(p, kind) \/ DisableForProfile(p, kind)
       \/ \E preset \in Presets : SetPreset(p, preset) \/ Apply(p, preset)

PolicySpec == PolicyInit /\ [][PolicyNext]_policyVars

-----------------------------------------------------------------------------
\* `profile-policy repair` keeps its plan: what it calls repairable it repairs,
\* given the inputs it asks for, so that a second repair finds nothing to do.
RepairableIsRepaired ==
  \A p \in stored.names \cup stored.entries :
    PlanOf(ProfileUnlocked(stored, p), p).stuck = {}
      => /\ AfterRepair(stored, p, "asked", TRUE) # {}
         /\ \A d \in AfterRepair(stored, p, "asked", TRUE) :
              PlanOf(ProfileUnlocked(d, p), p).consistent

\* `status`, `check` and `repair-all --dry-run` read the metadata only, where
\* nothing says which profiles a repair will have unlocked; what they say is what
\* `repair-all`, which unlocks everything, and a single `repair` will find.
RepairPreviewIsExact ==
  /\ CheckOf(MetadataUnlocked(stored)) = CheckOf(FullUnlocked(stored))
  /\ \A p \in PolicyNames(stored) :
       Status(ProfileUnlocked(stored, p), p) = Status(MetadataUnlocked(stored), p)

\* When `apply-all` succeeds every profile has the preset and all it asks for,
\* whatever one of them had before.
ApplyAllEnforces ==
  \A preset \in Presets, pass \in Passphrase :
    \A d \in AfterApplyAll(stored, preset, pass, TRUE, FALSE) :
      \A p \in PolicyNames(d) :
        PolicyOf(d, p).preset = preset /\ PlanOf(FullUnlocked(d), p).consistent

\* Turning a preset into "concrete profile-specific enforcement": what
\* `profile-policy apply` says it applied is in the file.
ApplyIsKept ==
  \A p \in stored.names \cup stored.entries, preset \in Presets, pass \in Passphrase :
    \A d \in AfterApply(stored, p, preset, pass, TRUE, FALSE) : PolicyOf(d, p).preset = preset
==============================================================================
