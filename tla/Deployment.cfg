\* Two interruptions, clean runs or runs with --skip; two polls.
CONSTANTS
  Configs <- MCConfigs
  Skips = {0, 2}
  MaxPolls = 2
  MaxMishaps = 2
SPECIFICATION Spec
INVARIANTS
  RegisteredIsUsable
  WiredTogether
  PollsUnderTheirIds
  WarnsWhenDue
PROPERTY DeploymentCompletes
CHECK_DEADLOCK FALSE
