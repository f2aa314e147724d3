SPECIFICATION Spec
CONSTANTS
  Invocations = {1, 2}
  Dirs = {"foo", "bar"}
  Files = {"lib", "main"}
  Profiles = {"release"}
  MaxEdits = 1
  MaxOrigins = 0
  Shared = {"foo", "bar"}
  Exclusive = TRUE
INVARIANT RunTypeOK
INVARIANT SuccessIsOwnBuild
PROPERTY PulledIsOwnBuild
INVARIANT CacheStaysWarm
INVARIANT ExclusiveInv
