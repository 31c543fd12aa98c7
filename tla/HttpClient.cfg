SPECIFICATION Spec
CONSTANTS
 t1 = t1
 None = None
 Dispatcher = dispatcher
 Queue = queue
 Timer = timer
 Threads = {t1}
 Downloads = {1, 2}
 MaxRequests = 3
 MaxSessions = 2
 MaxFaults = 1
INVARIANTS IInv AnswersOwn DownloadsSound
PROPERTIES DownloadsEnd
CHECK_DEADLOCK FALSE
