\* Every format, twice: with an interleave, at the largest cylinder and head, and
\* without one but with two sectors of the first track marked bad.
CONSTANT Jobs <- MCJobs
SPECIFICATION Spec
INVARIANTS TypeOK SectorsPlaced LayoutsFit RoundTrip StatusTells StaysOnTrack
PROPERTY FollowsSlots
CHECK_DEADLOCK FALSE
