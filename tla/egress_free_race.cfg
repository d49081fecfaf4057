CONSTANT RequireTls = FALSE
SPECIFICATION FairSpec
INVARIANT FreedUnreachable
