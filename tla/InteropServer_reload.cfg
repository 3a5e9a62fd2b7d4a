\* Hot reloading resets the sandbox during the first invocation after a failed init.
SPECIFICATION Spec
CONSTANTS
    Calls = {1}
    Slow = {1}
    MaxReloads = 1
    MaxCrashes = 1
    MainAwaits = TRUE
    Overlap = FALSE
    Prompt = TRUE
INVARIANT InitFailureRenamed
CHECK_DEADLOCK FALSE
