SPECIFICATION Spec
CONSTANTS
  Invocations = {1, 2}
  Dirs = {"foo", "bar"}
  Files = {"main"}
  Profiles = {"release"}
  MaxEdits = 1
  MaxOrigins = 1
  Shared = {}
  Exclusive = FALSE
INVARIANT BuildsApart
PROPERTY PullsOnlySuccess
INVARIANT RunInv
INVARIANT CacheStaysWarm
