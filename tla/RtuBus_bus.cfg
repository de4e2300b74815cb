SPECIFICATION Spec
CONSTANTS
    Units = {1, 2}
    Size = 3
    T15 = 1
    T35 = 3
    Take = 2
    Ring = 4
    AduMax = 6
    Timeout = 9
    Quiet = 9
    Gap = 3
    Settle = 3
    Late = 2
    Prompt = TRUE
    MaxNoise = 1
    None = None
INVARIANTS
    TypeOK
    OncePerRequest
    EveryRequestHeard
    AnswersItsOwn
    GivesUpHarmed
    QuietEndsFrames
