\* A marker file that can always be written, queries shorter than the grace.
CONSTANTS
    Readers = {r1, r2}
    Grace = 2
    MaxQuery = 1
    MaxRuns = 3
    MarkerMayFail = FALSE

SPECIFICATION Spec
SYMMETRY ReaderSymmetry

INVARIANTS
    TypeOK
    ServedWhole
    SlotsApart
    MarkerNamesServed
    DrainedBeforeClose

PROPERTY ImplementsStore
