SPECIFICATION Spec
CONSTANTS
    Workers = {w1, w2}
    Redis = Redis
    Keys = {"login"}
    Limit <- LoginOnly
    Window = 4
INVARIANTS
    BurstBounded
PROPERTIES
    KeepsPromise
    LetInAgain
