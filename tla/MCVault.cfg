\* Two processes, two values, three surrogates, two entity types and one
\* shared attribute type.
SPECIFICATION Spec
CONSTANTS
    Procs = {p1, p2}
    Entity = {host, person}
    Internal = {zone}
    Reals = {r1, r2}
    Surrs = {s1, s2, s3}
    NONE = NONE
    CONFLICT = CONFLICT
    UNAVAILABLE = UNAVAILABLE
SYMMETRY Symmetry
INVARIANTS TypeOK SealsOpen AnswerNamesTheValue
PROPERTIES MeaningIsPermanent NeverNameless ImplementsMapping
