SPECIFICATION FairProcessorSpec
CONSTANT MaxPushes = 2
PROPERTY ExitsOnceStopped
CHECK_DEADLOCK FALSE
