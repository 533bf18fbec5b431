CONSTANTS
    Threads = {t1, t2, t3}
    Items = {a, b}
    Nil = Nil
    Size = 2
    IdModulus = 4
    WordModulus = 16
    SerialModulus = 3
SYMMETRY Symmetric
SPECIFICATION Spec
INVARIANTS TypeOK Ownership SizeAccounting ReadyMeansFilled
PROPERTIES ImplementsBag
