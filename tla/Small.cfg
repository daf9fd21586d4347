INIT MCInit
NEXT MCNext
CONSTANTS
    CR = CR
    LF = LF
    EndCR = EndCR
    EndLF = EndLF
    SP = SP
    NUL = NUL
    Others = {"x"}
    MaxText = 5
    BufSize = 3
    Letters = {"a"}
    BufLen = 7
    MaxCmds = 2
    MaxArg = 3
    Names = {"a", "b"}
    MaxDepth = 4
    MaxTree = 2
    Top = 15
    Reserved = 4
    MinPasv = 3
    MaxPasv = 13
    Retries = 3
INVARIANTS
    ChunksMakeTheText
    RoundTrip
    WholeLinesHeard
    CwdStaysValid
    PortInInterval
