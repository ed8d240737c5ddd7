CONSTANTS
    Resources = {r1, r2}
    HeappeIds = {h1, h2}
    IQMJobIds = {j1, j2}
    MaxRows = 3
    Amounts = {0, 2, 3}
    Factors = {1, 2}
SPECIFICATION LedgerSpec
SYMMETRY Symmetry
INVARIANTS
    SummaryIsSum
    TasksAndChargesOneToOne
