CONSTANT Lines = {"initialize", "tools/list", "response"}
SPECIFICATION ProxyFairSpec
INVARIANT ProxyTypeOK
INVARIANT NoReplyLost
PROPERTY ProxyReturns
CHECK_DEADLOCK FALSE
