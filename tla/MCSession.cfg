SPECIFICATION Spec
CONSTANTS
    skill = skill
    Skills <- MCSkills
    Lines <- MCLines
    None = None
    Broken = Broken
    MaxChanges = 1
    MaxCalls = 1
    Payloads <- MCPayloads
    Limit = 3
    HeaderMax = 1
    NotANumber = NotANumber
    MaxSends = 2
    Argvs <- MCArgvs
    Children = {2, 3}
    Foreign = {3}
    CaptureCap = 1
    Room = 1
    MaxPrints = 2
INVARIANT EachAnswered NeverPrompts ReportsTrue
PROPERTY GatesDecide
PROPERTY StopsEnd
PROPERTY RunReturns
CHECK_DEADLOCK FALSE
