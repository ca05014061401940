\* The section numbering of the headings tuple.
SPECIFICATION Spec

INVARIANT NumberedUnderParent

CHECK_DEADLOCK FALSE
