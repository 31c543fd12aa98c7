SPECIFICATION Spec
CONSTANTS
 u1 = u1
 w1 = w1
 w2 = w2
 None = None
 Uris = {u1}
 Workers = {w1, w2}
 MaxDocuments = 2
 MaxVersion = 2
 MaxRequests = 2
INVARIANTS IInv AnswersMatch
PROPERTIES AnsweredOnce EveryRequestAnswered DiagnosticsSettle
CHECK_DEADLOCK FALSE
