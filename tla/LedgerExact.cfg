SPECIFICATION Spec
SYMMETRY TicketSymmetry
CONSTANTS
    Tickets = {t1, t2, t3}
    Groups = {"g", "h"}
    Sizes = {1, 2}
    Limits = {2, 4}
    Points = {"p"}
    External = FALSE
    FrameRollback = FALSE
    MaxOrdinal = 5
INVARIANTS
    Conserved
    PeaksCover
PROPERTY
    LimitRespected
