SPECIFICATION SubmissionSpec
CONSTANTS
    ana = ana
    first = first
    second = second
    Writers = {ana}
    Submissions = {first, second}
    WriterOf <- MCWriterOf
    Nobody = Nobody
    SubmitMaxAttempts = 1
    MaxSends = 3
    MaxClaims = 1
INVARIANT PendingIsStored
CHECK_DEADLOCK FALSE
