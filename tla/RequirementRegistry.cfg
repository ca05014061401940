SPECIFICATION Spec

INVARIANT TocAgrees
INVARIANT BodyAgrees
INVARIANT RequirementAgrees
INVARIANT EveryRequirementRegistered

\* The reader stops after the last heading.
CHECK_DEADLOCK FALSE
