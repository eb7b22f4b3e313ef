CONSTANTS
  Calls = {c1}
  Hashes = {h1}
  Attempts = 2
  Delay = 1
  Timeout = 1
  ParamTtl = 2
SPECIFICATION Spec
INVARIANT TimeoutsRetried
