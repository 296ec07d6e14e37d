\* The program as built: a dropped Openclaw client calls no OnDisconnected.
CONSTANTS
    MaxClients = 2
    MaxRetries = 1
    MaxMsgs = 1
    NotifiesDisconnect = FALSE
    NoClient = NoClient
    Senders = {"u1", "u2"}
    Groups = {"g1", "g2"}
    RobotId = "rb"
    Whitelist <- MCWhitelist
    Group <- MCGroup
    Inbound <- MCInbound
SPECIFICATION FairSpec
PROPERTY OpenclawRecovers
CHECK_DEADLOCK FALSE
