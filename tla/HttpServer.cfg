SPECIFICATION Spec
CONSTANTS
 l1 = l1
 c1 = c1
 c2 = c2
 w1 = w1
 w2 = w2
 None = None
 Dispatcher = dispatcher
 Listeners = {l1}
 Connections = {c1, c2}
 Workers = {w1}
 MaxAnnounced = 2
INVARIANTS IInv QuietAfterClose
PROPERTIES ClodeEnds ImplementsProtocol
CHECK_DEADLOCK FALSE
