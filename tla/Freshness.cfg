SPECIFICATION Spec
CONSTANTS
    Browser = {ann, bob}
    MaxBlock = 2
    MaxRevision = 1
    MaxFailures = 1
PROPERTIES
    PagesFresh
CHECK_DEADLOCK FALSE
