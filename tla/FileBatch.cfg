CONSTANTS
    None = None
    Torn = Torn
    b1 = b1
    b2 = b2
    Batches = {b1, b2}
    notes = notes
    draft = draft
    Paths = {notes, draft}
    Existing = {notes}
    Offers <- MCOffers
    MaxOps = 2
SPECIFICATION FairSpec
INVARIANTS OwnWorkStays AnswerTellsTruth OneThread
PROPERTIES BatchAnswers
CHECK_DEADLOCK FALSE
