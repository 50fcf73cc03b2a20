\* One worker, no timeout, the release build.
SPECIFICATION Spec
CONSTANTS
  NumWorkers = 1
  HasTimeout = FALSE
  Builds = {"release"}
INVARIANTS BackboneValid
