SPECIFICATION Spec
CONSTANTS
    Library <- MCLibrary
    Desc <- MCDesc
    Prompts <- MCPrompts
    Sizes <- MCSizes
    UserHooks = {u}
    Programs = {omm, path}
    Cap = 40
    Margin = 2
    Frame = 2
    EntryBase = 3
    DescMin = 2
    Builtins = 6
    MaxSelected = 2
    None = None
    Edited = Edited
    Garbled = Garbled
    Odd = Odd
    MaxRuns = 3
    MaxEdits = 1
    MaxKills = 1
    MaxPrompts = 1
    Slices <- MCSlices
    Keys <- MCKeys
    Values = {1, 2}
    ThemeKey = "theme"
    ThemeValue = 1
    Required = "mode"
    Siblings = {"rules"}
    Servers = {"s1", "s2"}
    Defs = {1, 2}
    Absent = Absent
    Misshapen = Misshapen
    Starts <- MCStarts
    MaxTunes = 0
    MaxChanges = 0
PROPERTY HooksNeverLost
CHECK_DEADLOCK FALSE
