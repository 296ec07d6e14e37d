CONSTANTS
    Senders = {s1, s2}
    Groups = {g1}
    s1 = s1
    s2 = s2
    g1 = g1
    RunIds = {r1, r2}
    ReqIds = {q1, q2, q3}
    Texts = {t1}
    NoSender = NoSender
    NoRun = NoRun
    NoId = NoId
    QueueCap = 1
    Sent <- MCSent
SPECIFICATION Spec
INVARIANT ResponsesReachOriginator
CHECK_DEADLOCK FALSE
