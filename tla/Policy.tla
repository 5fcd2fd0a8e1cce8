------------------------------- MODULE Policy -------------------------------
(***************************************************************************)
(* The rules of the policy engine (packages/policy/src/index.ts): which    *)
(* options it accepts at construction and what it decides about a call.    *)
(* The budget is state and lives in ProxyCalls.                            *)
(***************************************************************************)
EXTENDS Integers

CONSTANTS
  None,          \* `undefined`
  NaN,           \* a budget that is not a finite number
  Star,          \* the string '*'
  RolesOf        \* caller identity -> the roles it holds

Tiers == {"low", "medium", "high"}

(***************************************************************************)
(* A `roles` or `tools` field as its author wrote it: the wildcard, an     *)
(* array (of which Star may be an element) or a bare string, whose names   *)
(* are those it has as substrings.                                         *)
(***************************************************************************)
FieldShape == {"wildcard", "array", "string"}

RolesMatch(field, callerRoles) ==
  field.shape = "wildcard" \/ field.names \cap callerRoles # {}

NamesMatch(field, name) == field.shape = "wildcard" \/ name \in field.names

\* Defect: '*' as an element of an array is accepted.
AcceptedField_StarElement(field) == field.shape \in {"wildcard", "array"}

AcceptedField(field) ==
  \/ field.shape = "wildcard"
  \/ field.shape = "array" /\ Star \notin field.names

AcceptedRule(rule) ==
  /\ rule.id # None
  /\ rule.effect \in {"allow", "deny"}
  /\ AcceptedField(rule.roles) /\ AcceptedField(rule.tools)

AcceptedTierRule(rule) == AcceptedField(rule.roles) /\ rule.deniedTiers \subseteq Tiers

\* assertRules, assertSensitivityRules, assertBudget: createPolicyMiddleware throws
\* for any other options.  The budget None is no budget.
Accepted(policy) ==
  /\ \A i \in DOMAIN policy.rules : AcceptedRule(policy.rules[i])
  /\ \A rule \in policy.sensitivityRules : AcceptedTierRule(rule)
  /\ policy.budget # NaN

\* Anything but a known tier counts as 'high', a name without an entry included.
ResolveTier(sensitivity, name) ==
  IF name \in DOMAIN sensitivity /\ sensitivity[name] \in Tiers
  THEN sensitivity[name] ELSE "high"

Deny(reason, ruleId) == [decision |-> "deny", ruleId |-> ruleId, reason |-> reason]
Allow(ruleId) == [decision |-> "allow", ruleId |-> ruleId, reason |-> None]

\* evaluate, without its messages: a PolicyDecision.  A denial or an allowance names the
\* first rule that covers the call.
Evaluate(policy, name, identity) ==
  LET roles == IF identity = None THEN {} ELSE RolesOf[identity]
      Rule(i) == policy.rules[i]
      Covering(effect) ==
        {i \in DOMAIN policy.rules : /\ Rule(i).effect = effect
                                     /\ RolesMatch(Rule(i).roles, roles)
                                     /\ NamesMatch(Rule(i).tools, name)}
      FirstId(S) == Rule(CHOOSE i \in S : \A j \in S : i <= j).id
      needsIdentity ==
        /\ identity = None
        /\ \E i \in DOMAIN policy.rules : /\ Rule(i).effect = "allow"
                                          /\ Rule(i).roles.shape # "wildcard"
                                          /\ NamesMatch(Rule(i).tools, name)
      tierBlocked ==
        \E r \in policy.sensitivityRules :
          /\ RolesMatch(r.roles, roles)
          /\ ResolveTier(policy.sensitivity, name) \in r.deniedTiers
  IN CASE Covering("deny") # {} -> Deny("POLICY_DENIED", FirstId(Covering("deny")))
       [] Covering("deny") = {} /\ Covering("allow") = {} ->
            Deny(IF needsIdentity THEN "IDENTITY_UNRESOLVED" ELSE "POLICY_DENIED", None)
       [] OTHER -> IF tierBlocked THEN Deny("SENSITIVITY_BLOCKED", None)
                   ELSE Allow(FirstId(Covering("allow")))

(***************************************************************************)
(* What the author of a refusing rule meant, however it is written: '*'    *)
(* anywhere stands for everybody or everything, a misspelled effect for    *)
(* the deny it reads as, a misspelled tier for the most sensitive one.     *)
(***************************************************************************)
MeantFor(field, values) ==
  field.shape = "wildcard" \/ Star \in field.names \/ field.names \cap values # {}

MeantToRefuse(policy, name, identity) ==
  LET roles == IF identity = None THEN {} ELSE RolesOf[identity] IN
  \/ \E i \in DOMAIN policy.rules :
       LET r == policy.rules[i] IN
       r.effect # "allow" /\ MeantFor(r.roles, roles) /\ MeantFor(r.tools, {name})
  \/ \E r \in policy.sensitivityRules :
       /\ MeantFor(r.roles, roles)
       /\ LET tier == ResolveTier(policy.sensitivity, name) IN
          tier \in r.deniedTiers \/ (tier = "high" /\ r.deniedTiers \ Tiers # {})

=============================================================================
