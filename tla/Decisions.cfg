SPECIFICATION Spec
CONSTANT MetadataIsMapping = FALSE
CHECK_DEADLOCK FALSE
INVARIANTS StricterRejectsMore GlmAuthority HiddenIsBlocked ReasonsAreTrue
