SPECIFICATION Spec
CONSTANTS
    Word = {w1, w2}
    Address = {w1, w2}
    Zero = w1
    ImageSize = 2
    DtbSize = 1
    Key = {k1}
    Nothing = Nothing
    Junk = Junk
    DiskMayFill = TRUE
INVARIANTS
    TypeOK
    OutputVerifies
    CertifiesWhatWasOpened
CONSTRAINT FewOutputs
CHECK_DEADLOCK FALSE
