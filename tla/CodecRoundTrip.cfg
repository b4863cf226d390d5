CONSTANTS
    None = NoValue
    NoValue = NoValue
    AddrLen <- MCAddrLen
    WordLen <- MCWordLen
    IntLen <- MCIntLen
    LongLen <- MCLongLen
    Messages <- MCMessages
    Results <- MCResults
    Contexts <- MCContexts
SPECIFICATION Spec
CHECK_DEADLOCK FALSE
INVARIANTS
    MessageRoundTrip
    ResultRoundTrip
    ContextParsed
