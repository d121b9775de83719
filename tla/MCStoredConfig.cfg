SPECIFICATION Spec
CONSTANTS
    None = None
    Torn = Torn
    Domain = "site"
    MaxRuns = 3
    Mapping <- MCMapping
    Malformed <- MCMalformed
    RegexOf <- MCRegexOf
    UIs <- MCUIs
    Stored <- MCStored
INVARIANT FailuresExplained
INVARIANT RepeatIsQuiet
INVARIANT ServersAgree
PROPERTY BansCoverRules
CHECK_DEADLOCK FALSE
