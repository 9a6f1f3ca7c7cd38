SPECIFICATION Spec
CONSTANTS
    None = None
    HeadWindow = 6
    StickyMissLimit = 1
    MaxChainLines = 2
    Text <- TextOf
    Sources <- HeadsDef
INVARIANT HeadsKept
