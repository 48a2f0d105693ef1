SPECIFICATION Spec
SYMMETRY TicketSymmetry
CONSTANTS
    Tickets = {t1, t2, t3}
    Groups = {"g", "h"}
    Sizes = {1, 2}
    Limits = {4}
    Points = {"p"}
    External = TRUE
    FrameRollback = TRUE
    MaxOrdinal = 5
INVARIANT
    Conserved
