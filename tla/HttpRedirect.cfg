SPECIFICATION Spec
CONSTANTS
 t1 = t1
 None = None
 Dispatcher = dispatcher
 Queue = queue
 Timer = timer
 Threads = {t1}
 Downloads = {1}
 MaxRequests = 2
 MaxSessions = 1
 MaxFaults = 0
INVARIANT FinalStatus
CHECK_DEADLOCK FALSE
