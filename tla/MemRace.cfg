SPECIFICATION Spec
CONSTANTS
    Threads = {t1, t2}
    Cells = {c1, c2, c3}
    HeadCell = HeadCell
    Null = Null
    Callers = {"unserialised"}
INVARIANTS
    WellLinked
