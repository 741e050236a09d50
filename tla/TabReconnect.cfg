SPECIFICATION FairTabSpec
CONSTANTS MaxGen = 1 MaxEvents = 2
PROPERTY ResumeReconnects
CHECK_DEADLOCK FALSE
