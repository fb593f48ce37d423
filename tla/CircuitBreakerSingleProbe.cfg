SPECIFICATION Spec
CONSTANTS
    Calls = {c1, c2, c3}
    Threshold = 2
    CoolDown = 2
INVARIANT SingleProbe
