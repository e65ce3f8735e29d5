CONSTANTS
    c1 = c1
    c2 = c2
    f1 = f1
    t1 = t1
    t2 = t2
    p1 = p1
    p2 = p2
    s1 = s1
    s2 = s2
    s3 = s3
    nobody = nobody
    Clients = {c1, c2}
    Publishers = {p1, p2}
    Filters = {f1}
    Names = {t1, t2}
    Match <- FirstMatches
    NewOnly = {c2}
    MaxRetained = 1
    MaxPublish = 2
    MaxRelations = 2
    Subscribers = {s1, s2, s3}
    Order <- SomeOrder
    Version <- SomeVersion
    Nobody = nobody
    TopicFilters <- SomeFilters
    FilterMatch <- SomeMatches
    Requests <- SomeRequests
    Messages <- SomeMessages
    Queries <- SomeQueries
    Limited = TRUE
    MaxSubscriptions = 2
    MaxTopicLevels = 1
    MaxQosAllowed = 1
    MaxCalls = 4
    MaxPublishes = 2
SYMMETRY Symmetry
SPECIFICATION ScenarioSpec
INVARIANTS
    RoutesComplete
    
    CountsAgree
    RetainedReaches
    
PROPERTIES
    ForwardsRight
    LimitKept
CHECK_DEADLOCK FALSE
