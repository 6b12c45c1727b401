\* The parsers on every small answer.
CONSTANTS
    Words = {1, 2, 3, 4, 5, 6, 7, 8, 9, 10}
    MemTotal = 8
    MemAvailable = 9
    MemFree = 10
    RealFS = {6}
    Number <- TwoNumbers
    Floats = {3, 4}
    Answers <- SmallAnswers
SPECIFICATION Spec
CHECK_DEADLOCK FALSE
INVARIANTS
    FailsWhenUnreadable
    MemCorrect
    PercentSane
    DisksCorrect
