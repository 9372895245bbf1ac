SPECIFICATION NotifySpec
CONSTANTS
    Builds = {1, 2}
    Nodes = {n1}
    Requests <- MCRequests
    Unreliable = {"testsErrors", "testsSummary"}
    MaxFaults = 1
    MaxFlaky = 2
    MaxIssues = 1
    IssueTries = 2
INVARIANTS ReportsItself DefaultsHold CommentIsComplete NoNotificationThrows
CHECK_DEADLOCK FALSE
