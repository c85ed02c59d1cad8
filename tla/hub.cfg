\* Three callbacks on two states, two checks, an MCP server and its probe.
SPECIFICATION Spec
CONSTANTS
  slack = slack
  github = github
  u1 = u1
  u2 = u2
  f1 = f1
  f2 = f2
  f3 = f3
  t1 = t1
  t2 = t2
  m1 = m1
  b1 = b1
  Nothing = Nothing
  Providers = {slack, github}
  Credentials <- HalfConfigured
  States = {u1, u2}
  Callbacks = {f1, f2, f3}
  ProviderOf <- LastGithub
  Checks = {t1, t2}
  CheckOf <- OneEach
  Servers = {m1}
  Probes = {b1}
  ProbeOf <- OneServer
  TTL = 1
  MaxTime = 2
  MaxRestarts = 1
SYMMETRY Alike
INVARIANTS ExchangeAuthorised ConnectedEarned
