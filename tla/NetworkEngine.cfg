SPECIFICATION Spec
CONSTANTS
 c1 = c1
 c2 = c2
 l1 = l1
 t1 = t1
 t2 = t2
 dispatcher = dispatcher
 nobody = nobody
 Channels = {c1}
 Listeners = {l1}
 Threads = {t1}
 Dispatcher = dispatcher
 NoOne = nobody
 MaxRequests = 2
 MaxCancels = 1
 PipeCapacity = 2
 Limits <- MCLimits
 PromptRetain = TRUE
INVARIANTS IInv
CHECK_DEADLOCK FALSE
PROPERTIES CallsReturn RequestsEnd ImplementsLedger
