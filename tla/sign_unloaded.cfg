SPECIFICATION Spec
CONSTANTS
    Word = {w1, w2}
    Address = {w1}
    Zero = w1
    ImageSize = 1
    DtbSize = 1
    Key = {k1}
    Nothing = Nothing
    Junk = Junk
    DiskMayFill = FALSE
INVARIANT NothingCertifiedUnloaded
CHECK_DEADLOCK FALSE
