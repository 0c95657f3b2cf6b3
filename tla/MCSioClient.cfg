CONSTANT MaxImpls = 3
SPECIFICATION FairSpec
INVARIANTS TypeOK NoThreadOutlivesImpl OneReceiverAtATime 
           RegistryExactWithoutPath
PROPERTY DisconnectReturns
CHECK_DEADLOCK FALSE
