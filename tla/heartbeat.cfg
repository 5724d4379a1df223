SPECIFICATION FairSpec
CONSTANT MaxMissed = 3
INVARIANTS LostOnlyByMissing
PROPERTIES NothingAfterStop StopReturns SilenceNoticed
\* A loop that has ended, or waits for itself, stops.
CHECK_DEADLOCK FALSE
