\* A refresh of the bindings while a reload has the entry marked disabled.
SPECIFICATION Spec
CONSTANTS
    Objects = 1
    MaxSaves = 2
    MaxEdits = 1
INVARIANT BoundWhileConfigured
CHECK_DEADLOCK FALSE
