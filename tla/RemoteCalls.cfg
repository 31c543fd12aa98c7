SPECIFICATION Spec
CONSTANTS
 a = a
 b = b
 t1 = t1
 t2 = t2
 None = None
 Ends = {a, b}
 Threads = {t1, t2}
 ThreadEnd <- MCThreadEnd
 Programs <- MCPrograms
INVARIANTS IInv AnswersOwn
PROPERTIES CallsEnd ClosingRuns
CHECK_DEADLOCK FALSE
