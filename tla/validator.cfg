SPECIFICATION Spec
CONSTANTS
    HeaderSchema <- MCHeader
    TrailerSchema <- MCTrailer
    SortedTypes <- MCTypes
    BodySchema <- MCBody
    Rank <- MCRank
    Version = "FIX"
    Sender = "them"
    Target = "me"
    NumberOf <- MCNumber
    Digits = {"0", "1", "2", "3", "4"}
    Plus = {"+1"}
    Minus = {"-0", "-1"}
    IntMax = 2
    SeqNumMax = 3
    Chars = {"A", "D", "x", "S", "Y", "0", "1", "2", "3", "4"}
    WordBits = 4
    Messages <- MCMessages
INVARIANT TypeOK
INVARIANT VerdictExact
INVARIANT FirstErrorTrue
INVARIANT PassedSeqNum
