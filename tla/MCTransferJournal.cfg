SPECIFICATION FairSpec
CONSTANTS
    Members = {m1, m2, m3}
    Size = 2
    Resumes = {"cut", "awaited"}
    MaxFaults = 6
INVARIANTS PreparedIsComplete ChunksAreSound
PROPERTIES EndedStaysEnded EndsOrIsHeld
CHECK_DEADLOCK FALSE
