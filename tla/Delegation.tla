----------------------------- MODULE Delegation -----------------------------
(***************************************************************************)
(* The delegation chain of a call (packages/core/src/delegation.ts,        *)
(* outboundDelegationChain in proxyContext.ts): who called on behalf of    *)
(* whom.  An identity stands for its sub; display name, source and time of *)
(* resolution travel along and decide nothing.                             *)
(***************************************************************************)
EXTENDS Integers, Sequences

CONSTANTS
  None,            \* `undefined`
  MaxChainEntries  \* the parse bound, MAX_CHAIN_ENTRIES

(***************************************************************************)
(* What may stand at params._meta["mcpose/delegation"]: NoPayload, or a    *)
(* value of which `object` says whether it is one, `array` whether its     *)
(* chain is, and whose entries have a sub (None for a missing or empty     *)
(* one) and a type.                                                        *)
(***************************************************************************)
WireVersion == 1
NoPayload == [object |-> FALSE, v |-> 0, array |-> FALSE, chain |-> <<>>]
IdentityTypes == {"human", "agent", "service"}

WellFormed(payload) ==
  /\ payload.object
  /\ payload.v = WireVersion
  /\ payload.array
  /\ Len(payload.chain) <= MaxChainEntries
  /\ \A i \in DOMAIN payload.chain :
       payload.chain[i].sub # None /\ payload.chain[i].type \in IdentityTypes

\* serializeDelegationChain.  Every entry a proxy puts on the wire has a known type.
Serialize(chain) ==
  [object |-> TRUE, v |-> WireVersion, array |-> TRUE,
   chain |-> [i \in DOMAIN chain |-> [sub |-> chain[i], type |-> "agent"]]]

\* readInboundDelegation: the presented chain, oldest first, and whether it is
\* refused.  No chain and an empty one are the same.
ReadInbound(payload) ==
  IF payload = NoPayload THEN [chain |-> <<>>, invalid |-> FALSE]
  ELSE IF WellFormed(payload)
  THEN [chain |-> [i \in DOMAIN payload.chain |-> payload.chain[i].sub],
        invalid |-> FALSE]
  ELSE [chain |-> <<>>, invalid |-> TRUE]

\* detectDelegationLoop: the caller is already in the chain it presents.
Loops(chain, identity) ==
  identity # None /\ \E i \in DOMAIN chain : chain[i] = identity

\* The error a call carries into its pipeline.
DelegationInvalid(payload, identity) ==
  LET inbound == ReadInbound(payload) IN
  inbound.invalid \/ Loops(inbound.chain, identity)

\* Defect: a hop forgets the chain it was handed.
OutboundChain_CallerOnly(chain, identity) ==
  IF identity = None THEN chain ELSE <<identity>>

OutboundChain(chain, identity) ==
  IF identity = None THEN chain ELSE Append(chain, identity)

\* attachDelegationMeta on params whose own payload, after the strip, is `left`.
Attach(left, chain) == IF chain = <<>> THEN left ELSE Serialize(chain)

=============================================================================
