\* One content with two kinds of representation, a history of two entries, one lock and unlock.
CONSTANTS
    Contents = {"a"}
    MaxHistory = 2
    None = None
    MaxEvents = 4
    MaxLocks = 2
SPECIFICATION FairSpec
INVARIANTS TypeOK CurrentIsRetained
PROPERTIES OvertakenIsNotRecorded CapturesEnd OwedIsOffered
