CONSTANTS
    t1 = t1
    t2 = t2
    counted = counted
    value = value
    data = data
    marked = marked
    Thread = {t1, t2}
    Obj = {counted, value, data, marked}
    MaxCalls = 3
    Announced = {marked}
    CommandLen = 2
    SockBuf = 1
    MaxFaults = 1
    Programs <- MCPrograms
SPECIFICATION Spec
INVARIANTS
    OwnReply
    AsIfBlocking
    DescriptorsAccounted
PROPERTY ThreadsReturn
