CONSTANT RequireTls = TRUE
SPECIFICATION FairSpec
INVARIANTS TypeOK ScheduledMeansArmed
PROPERTIES DeleteCompletes
