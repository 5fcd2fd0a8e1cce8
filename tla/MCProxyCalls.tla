---------------------------- MODULE MCProxyCalls ----------------------------
(***************************************************************************)
(* ProxyCalls for TLC: callers, requests and configurations.               *)
(***************************************************************************)
EXTENDS ProxyCalls, TLC

CONSTANTS user, agent, friend, s1

Symmetry == Permutations(Call)

MCRolesOf == user :> {"operator"} @@ agent :> {"worker"}

\* Backend a is an agent that calls in turn.
KeyA == <<"a">>
MCAgentOf == KeyA :> agent @@ <<>> :> None

A(name) == KeyA \o Separator \o name
Tool == A(<<"t">>)
Wire == A(<<"w", "_", "_", "w">>)
Secret == A(<<"h">>)
Note == <<"l">>
Doc == NamespaceUri(KeyA, <<"/", "d">>)

Ask1(kind, name, identity) ==
  [kind |-> kind, name |-> name, identity |-> identity, session |-> s1, payload |-> NoPayload]

Payload(v, chain) == [object |-> TRUE, v |-> v, array |-> TRUE, chain |-> chain]
By(sub) == [sub |-> sub, type |-> "human"]

ToolCall == Ask1("tool", Tool, user)
Presenting(payload, identity) == [Ask1("tool", Tool, identity) EXCEPT !.payload = payload]

Everything == [shape |-> "wildcard", names |-> {}]
Only(names) == [shape |-> "array", names |-> names]
Rule(id, effect, roles, tools) == [id |-> id, effect |-> effect, roles |-> roles, tools |-> tools]

Rules ==
  << Rule("r1", "allow", Only({"operator"}), Only({Tool, Wire, Note, <<"t">>})),
     Rule("r2", "allow", Only({"worker"}), Only({Tool})),
     Rule("r3", "deny", Everything, Only({Secret})) >>

Options(rules, tierRules, budget) ==
  [rules |-> rules, sensitivityRules |-> tierRules, budget |-> budget,
   sensitivity |-> Tool :> "low" @@ Note :> "low" @@ Wire :> "hihg"]

HighDenied == {[roles |-> Only({"operator"}), deniedTiers |-> {"high"}]}

Mesh ==
  [ mesh |-> TRUE, strip |-> TRUE,
    keys |-> [tools |-> {KeyA}, prompts |-> {KeyA}, resources |-> {KeyA}],
    toolMiddleware |-> <<"consent", "policy", "audit">>,
    promptMiddleware |-> <<"policy", "audit">>, resourceMiddleware |-> <<>>,
    hidden |-> {Secret}, local |-> {Note}, passThrough |-> {Note, Secret},
    hiddenResources |-> {}, passThroughResources |-> {},
    consented |-> {<<user, Tool>>, <<agent, Tool>>},
    policy |-> Options(Rules, HighDenied, 1),
    requests |-> { ToolCall, Ask1("prompt", Tool, user), Ask1("tool", Wire, user),
                   Ask1("tool", Note, user), Ask1("tool", Secret, user),
                   Ask1("tool", <<"t">>, user), Ask1("tool", Tool, None),
                   Ask1("resource", Doc, user),
                   Presenting(Payload(1, <<By(user)>>), user),
                   Presenting(Payload(1, <<By(friend), By(friend)>>), user),
                   Presenting(Payload(1, <<By(friend), By(friend), By(friend)>>), user) } ]

\* The host's own middleware around and between the gates.
Hosted == [Mesh EXCEPT !.toolMiddleware = <<"policy", "host", "audit">>,
                       !.promptMiddleware = <<"policy">>, !.consented = {},
                       !.policy = Options(Rules, {}, 2),
                       !.requests = {ToolCall, Ask1("prompt", Tool, user)}]

\* One backend, not named; nothing is stripped; a tool and a resource are passed through,
\* and a tool that is also local and hidden, which the gates agree to, is not.
Single == [Mesh EXCEPT !.mesh = FALSE, !.strip = FALSE,
                       !.keys = [tools |-> {<<>>}, prompts |-> {<<>>}, resources |-> {<<>>}],
                       !.hidden = {Note}, !.consented = @ \cup {<<user, Note>>},
                       !.passThrough = {Tool, Note}, !.passThroughResources = {Doc},
                       !.requests =
                         { [Presenting(Payload(1, <<>>), None) EXCEPT !.session = None],
                           Presenting(Payload(1, <<By(user)>>), None),
                           Presenting(Payload(2, <<>>), user), ToolCall,
                           Ask1("tool", Note, user), Ask1("resource", Doc, user) }]

ToolLess == [Mesh EXCEPT !.mesh = FALSE, !.hiddenResources = {Secret},
                         !.resourceMiddleware = <<"host">>, !.consented = {<<user, Note>>},
                         !.keys = [tools |-> {}, prompts |-> {}, resources |-> {<<>>}],
                         !.requests = { ToolCall, Ask1("tool", Note, user),
                                        Ask1("resource", Doc, user),
                                        Ask1("resource", Secret, user) }]

\* Options that are refused at construction.
Misspelled(rules, tierRules, budget) ==
  [Mesh EXCEPT !.policy = Options(rules, tierRules, budget), !.requests = {ToolCall}]

MCConfiguration ==
  { Mesh, Hosted, Single, ToolLess,
    Misspelled(Append(Rules, Rule("r4", "deny", Only({Star}), Only({Tool}))), {}, None),
    Misspelled(Append(Rules, Rule("r4", "DENY", Everything, Only({Tool}))), {}, None),
    Misspelled(Append(Rules, Rule(None, "deny", Everything, Only({Tool}))), {}, None),
    Misspelled(Rules, {[roles |-> Everything, deniedTiers |-> {"hihg"}]}, None),
    Misspelled(Rules, {}, NaN) }

=============================================================================
