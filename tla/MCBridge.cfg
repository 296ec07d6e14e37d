\* The supervisor with the OnDisconnected callback wired: three Openclaw
\* clients (the one Start creates and two reconnects), two retries, two pushes.
CONSTANTS
    MaxClients = 3
    MaxRetries = 2
    MaxMsgs = 2
    NotifiesDisconnect = TRUE
    NoClient = NoClient
    Senders = {"u1", "u2"}
    Groups = {"g1", "g2"}
    RobotId = "rb"
    Whitelist <- MCWhitelist
    Group <- MCGroup
    Inbound <- MCInbound
SPECIFICATION FairSpec
INVARIANT TypeOK
PROPERTY OpenclawRecovers
PROPERTY ReconnectEnds
CHECK_DEADLOCK FALSE
