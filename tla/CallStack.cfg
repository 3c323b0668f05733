CONSTANTS
    c1 = c1
    c2 = c2
    c3 = c3
    Call = {c1, c2, c3}
    NoCall = NoCall
    x = x
    y = y
    Obj = {x, y}
    ReadOnly = {}
    Shapes <- StackShapes
    Thread = {t1, t2}
    MaxDepth = 5
    Below <- BelowXY
SPECIFICATION MCSpec
 
PROPERTY ThreadsReturn
CHECK_DEADLOCK FALSE
