CONSTANTS
    Texts = {"list", "match rfp"}
    RfpTexts = {"match rfp"}
    Slots = {l1}
    ThreadLimit = 3
    MaxAsks = 2
    MaxActs = 4
    MaxLogs = 1
SPECIFICATION FairPageSpec
INVARIANT ConversationShownUnless
INVARIANT RunLogKeptUnless
PROPERTY PageUnlocks
CHECK_DEADLOCK FALSE
