\* Two calls; the second may be one that an agent behind the proxy makes for the first.
CONSTANTS
  c1 = c1
  c2 = c2
  user = user
  agent = agent
  friend = friend
  s1 = s1
  None = None
  Star = Star
  NaN = NaN
  Scheme = Scheme
  Call = {c1, c2}
  Session = {s1}
  RolesOf <- MCRolesOf
  AgentOf <- MCAgentOf
  MaxChainEntries = 3
  Configuration <- MCConfiguration
  Depth = 3
SPECIFICATION Spec
SYMMETRY Symmetry
CHECK_DEADLOCK FALSE
INVARIANTS
  TypeOK
  UpstreamOnce
  Governed
  RefusalsHold
  BudgetExact
  CountersReleased
  ReportsAgree
  DelegationFaithful
