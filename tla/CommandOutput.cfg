CONSTANTS
    Callers = {r1, r2}
    OutputCap = 3
    MaxBytes = 3
    MaxChunk = 2
SPECIFICATION Spec
SYMMETRY Symmetry
INVARIANTS CapIsExact DeltasPartitionOutput FinalAnswerIsComplete TakenIsAccounted
