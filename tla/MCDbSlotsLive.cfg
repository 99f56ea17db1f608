\* Promotions end while readers come and go; the marker may fail to be written.
CONSTANTS
    Readers = {r1, r2}
    Grace = 1
    MaxQuery = 1
    MaxRuns = 2
    MarkerMayFail = TRUE

SPECIFICATION FairSpec

PROPERTY PromotionEnds

CHECK_DEADLOCK FALSE
