\* Two environments race for a fresh database, two runs each, one dies.
SPECIFICATION Spec
CONSTANTS
  web1 = web1
  web2 = web2
  stage = stage
  production = production
  staging = staging
  NoEnv = NoEnv
  Deployments = {web1, web2, stage}
  EnvOf <- ThreeEnvs
  Last = 2
  MaxRuns = 2
  MaxCrashes = 1
INVARIANTS OneEnvironment DoneMeansCurrent SomeoneFinishes
