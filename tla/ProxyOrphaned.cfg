CONSTANT Lines = {"tools/call"}
SPECIFICATION ProxyFairSpec
PROPERTY OrphanExits
CHECK_DEADLOCK FALSE
