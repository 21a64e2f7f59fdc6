CONSTANT Script <- FullScript
SPECIFICATION FairSpec
INVARIANTS TypeOK NoFalseDone
PROPERTIES LaunchReturns GoroutinesEnd
CHECK_DEADLOCK FALSE
