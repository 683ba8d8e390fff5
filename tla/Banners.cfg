\* Two requests at once over three banners.
SPECIFICATION Spec
CONSTANTS
    p1 = p1  p2 = p2
    Proc = {p1, p2}
    MaxBanners = 3
SYMMETRY Symmetry
INVARIANTS IInv AtMostOneActive
PROPERTIES NeverGoesDark
CHECK_DEADLOCK FALSE
