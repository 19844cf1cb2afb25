SPECIFICATION Spec
CONSTANTS
    e1 = e1
    e2 = e2
    d1 = d1
    Events = {e1, e2}
    Documents = {d1}
    Subject <- OneDocument
    Timeout = 1
    Margin = 2
    Lifetimes = {4}
    Faults = {}
SYMMETRY EventSymmetry
INVARIANT DocumentsKeepTheirOrder
