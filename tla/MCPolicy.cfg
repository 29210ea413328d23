CONSTANTS
    host = host  password = password
    NONE = NONE  TORN = TORN  REVELER = REVELER  ANONYMISER = ANONYMISER
    Portees <- MCPortees
    Granularites <- MCGranularites
    Cle <- MCCle
    Classe <- MCClasse
    ClassesNonRevelables = {"secret"}
    Forbidden = {"secret"}
    Values = {host, password}
    t1 = t1  t2 = t2  w1 = w1  w2 = w2
    Threads = {t1, t2}
    Writers = {w1, w2}
    InitialLayers <- NoRules
    MaxWrites = 2
SYMMETRY Symmetry
SPECIFICATION Spec
INVARIANTS TypeOK SecretNeverRevealed RevealHasASource
