\* Two callers of one book: three order ids, positions out of range, the filter.
CONSTANTS
    OrderIds = {a, b, c}
    NoId = NoId
    MaxPosition = 3
    Tickers = {t1}
    Callers = {w1, w2}
    Idle = Idle
    MaxEntries = 3
SPECIFICATION Spec
SYMMETRY IdSymmetry
INVARIANTS TypeOK IndexSound IndexComplete PriorityKept
PROPERTIES FilterHonoured
