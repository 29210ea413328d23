SPECIFICATION Spec
CONSTANTS
  Threads = {"t1", "t2"}
  Owner <- MCOwner
  Span <- MCSpan
  DaysPer <- MCDaysPer
  InternalSuffix <- MCInternalSuffix
  Documentation = {"n2"}
  NotRouted = {"n1", "n2"}
  Draw <- MCDrawApart
  DrawNet <- MCDrawNet
  DrawHost <- MCDrawHost
  Spaces <- MCSpaces
  Shifts = 2
  Public <- MCPublic
  Ports = {"443"}
  Extensions = {"md"}
  Racines = {"home", "etc"}
  RacinesHome = {"home"}
  Chemins = "utilisateur_projet"
  Projet <- MCProjet
  Jours = 5
  SidedDates = TRUE
  Values <- MCNamesakes
  Revealable <- MCRevealable
  MaxTries = 4
  MaxCalls = 4
  MaxChanges = 0
  Days = {17}
  Blocking = FALSE
  Sensitive <- MCSensitive
  SecretAtoms = {"hunter2"}
INVARIANT SharedAlways
CHECK_DEADLOCK FALSE
