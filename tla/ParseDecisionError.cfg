SPECIFICATION Spec
CONSTANT MetadataIsMapping = FALSE
CHECK_DEADLOCK FALSE
INVARIANT ErrorMeansFailure
