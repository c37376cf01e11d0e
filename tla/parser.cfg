\* Three kinds of streams, byte by byte and cut anywhere.
SPECIFICATION RSpec
CONSTANTS
    DataBufLen = 3
    EventBufLen = 2
    IdBufLen = 2
    RetryMax = 25
    DigitValue <- DigitSymbols
    Letters = {"a"}
    Inputs <- Streams
INVARIANTS BuffersSafe  NoSilentLoss
