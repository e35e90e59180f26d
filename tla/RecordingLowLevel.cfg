SPECIFICATION Spec
CONSTANT LowLevel = TRUE
INVARIANT EveryResourceRecorded
