\* Three of the options wlroots passes, up to three at once; every request
\* up to twice, as for two outputs.
CONSTANTS
  Options = {":1", "-rootless", "-terminate"}
  MaxOptions = 3
  NotString = NotString
  MaxRequests = 2
SPECIFICATION Spec
INVARIANTS
  RunsXwayland
  FallsBack
