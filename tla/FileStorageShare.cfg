\* What a retry answers with when the first attempt was cut short.
SPECIFICATION Spec
CONSTANTS
    giB = 2
    minBytes = 2
    maxBytes = 6
    Handlers = {h1}
    Names = {n1}
    Services = {u1}
    NoName = NoName
    NoService = NoService
    Zone = "fi-hel1"
    NodeZone = "fi-hel1"
    Requests <- OneGiB
    ExpandRanges <- NoRanges
SYMMETRY Symmetry
INVARIANT ShareIsOpen
