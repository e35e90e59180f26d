SPECIFICATION Spec
CHECK_DEADLOCK FALSE
INVARIANTS
    NeedsRecordedFirst NothingDropped GuardsTravel RecordingsLeaveNoTrace
    NoStaleStart AllLoaded
