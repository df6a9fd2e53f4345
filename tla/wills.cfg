\* One household with two wills, two requests at a time and one that fails half way.
\* A deleted will frees its id, so a household can always draft again.
CONSTANTS
    w1 = w1
    w2 = w2
    r1 = r1
    r2 = r2
    Will = {w1, w2}
    Request = {r1, r2}
    NoWill = NoWill
    MaxFaults = 1
SYMMETRY Symmetric
SPECIFICATION Spec
INVARIANTS TwoActiveOnlyIfOverlapped RevivedOnlyIfTwice LostOnlyIfDisturbed IncompleteOnlyIfEdited
