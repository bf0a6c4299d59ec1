CONSTANTS
  LogJobs <- MCLogJobs
  ManifestJobs <- MCManifestJobs
  CostJobs <- MCCostJobs
  InfraJobs <- MCInfraJobs
SPECIFICATION Spec
INVARIANTS
  ClustersCoverPatterns
  SpikesAreRare
  SeverityNeverRises
  LevelOnlyHides
  LiveAndLocalAgree
  ImageRulesAgree
  AnomalyBracketed
  PlanPassesIfHarmless
  KilledNeverPasses
