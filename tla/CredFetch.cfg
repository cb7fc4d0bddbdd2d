SPECIFICATION Spec
CONSTANTS
    Streams = {s1, s2}
    ShortPause = 1
    LongPause = 2
    MaxGuesses = 1
    None = None
    Word = 15
    Frames <- MCFrames
    MaxReads = 2
    Requests = {page, c1, c2}
    Callbacks = {c1, c2}
    Typed = Typed
    Empty = Empty
    MaxScanning = 1
INVARIANTS
    OneLateSolve
    TokenMatchesSid
    FirstTokenWins
    ParserAgrees
PROPERTIES
    FetchEnds
    StoppedStreamsReturn
