SPECIFICATION Spec
CONSTANTS
    w = w
    r = r
    c = c
    d = d
    q1 = q1
    q2 = q2
    t0 = t0
    t1 = t1
    t2 = t2
    t3 = t3
    t4 = t4
    NoText = NoText
    NoId = NoId
    Executed = Executed
    Continue = Continue
    Done = Done
    Stopped = Stopped
    Notice = Notice
    RepeatLimit = 3
    MaxRequests = 3
    Commands <- MCCommands
    Queries <- MCQueries
    Replies <- MCReplies
    Histories <- MCHistories
    Connected <- MCConnected
CHECK_DEADLOCK FALSE
INVARIANTS
    ToolResultsArePaired
    ResultsFollowTheirCalls
    RequestsAsk
    AnswerIsWhole
    CallsAreTheRelays
