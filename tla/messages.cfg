SPECIFICATION FairSpec
CONSTANTS
    Senders = {a, b}
    MaxId = 6
    MaxIter = 4
    Cap = 2
    Silent = Silent
INVARIANTS TypeOK MarksEveryUnseen
PROPERTIES ImplementsConversation CallsReturn
