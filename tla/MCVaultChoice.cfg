\* One process, two values, three surrogates; no shared attributes.
SPECIFICATION Spec
CONSTANTS
    Procs = {p1}
    Entity = {host, person}
    Internal = {}
    Reals = {r1, r2}
    Surrs = {s1, s2, s3}
    NONE = NONE
    CONFLICT = CONFLICT
    UNAVAILABLE = UNAVAILABLE
SYMMETRY Symmetry
PROPERTIES ChoiceTakesEffect
