SPECIFICATION Spec
CONSTANTS
    Accounts = {a}
    Boxes = {x, y}
    x = x
    y = y
    m1 = m1
    m2 = m2
    bad = bad
    i1 = i1
    i2 = i2
    Mails = {m1, m2, bad}
    MailId <- MCMailId
    ImapBox <- MCImapBox
    Homes <- MCHomes
    Malformed = {bad}
    Workers = {w}
    Handlers = {h}
    Sends = {s}
    None = none
    MaxUid = 2
    MaxQueue = 1
    MaxFaults = 1
    MaxOps = 2
CHECK_DEADLOCK FALSE
INVARIANTS NoMailIsSkipped IngestedIsTriaged SentMailIsRecorded
PROPERTIES HandledOnce MailIsProcessed
