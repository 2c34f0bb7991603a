\* One command: every environment that varies the names of one setting, every market of two symbols.
SPECIFICATION Spec
CONSTANTS
    Unset = Unset
    Empty = Empty
    Junk = Junk
    Yes = Yes
    NoFile = NoFile
    tok = tok
    chan = chan
    path = path
    topic = topic
    Numbers <- MCNumbers
    Texts <- MCTexts
    Symbols <- MCSymbols
    Inputs <- MCInputs
    MinVol = 10
    MinPrice = 2
    AllowList = {}
    DenyList = {"eth"}
    Threshold = 1
 
INVARIANT CommandsHonest
 
\* A command ends.
CHECK_DEADLOCK FALSE
