SPECIFICATION Spec
CONSTANTS
    r1 = r1
    r2 = r2
    p1 = p1
    p2 = p2
    Requests = {r1, r2}
    Prompts = {p1, p2}
    NoPrompt = p1
    TTL = 2
    NoRow = NoRow
    MaxClock = 3
    MaxRequests = 3
    MaxChanges = 1
    MaxClears = 1
SYMMETRY MCSymmetry
INVARIANTS
    HitAnswersTheQuestion
    StaleTemplateBounded
    LostOnlyByRace
