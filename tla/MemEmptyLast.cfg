SPECIFICATION FairSpec
CONSTANTS
    Threads = {t1, t2}
    Cells = {c1, c2, c3}
    HeadCell = HeadCell
    Null = Null
    Callers = {"empty last"}
PROPERTIES
    CallsReturn
