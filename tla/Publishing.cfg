\* A post and a carousel, two publishers, two image gates.
SPECIFICATION Spec
CONSTANTS
    Posts = {p1, p2}
    Carousels = {p2}
    Publishers = {w1, w2}
    Gates = {g1, g2}
    NoPost = NoPost
    MaxEdits = 3
    MaxFaults = 2
SYMMETRY Alike
INVARIANT EveryRepostExplained ApprovedIsGated
