SPECIFICATION Spec
CONSTANTS
  Threads = {"t1", "t2"}
  Owner <- MCOwner
  Span <- MCSpan
  DaysPer <- MCDaysPer
  InternalSuffix <- MCInternalSuffix
  Documentation = {"n2"}
  NotRouted = {"n1", "n2"}
  Draw <- MCDraw
  DrawNet <- MCDrawNet
  DrawHost <- MCDrawHost
  Spaces <- MCSpaces
  Shifts = 2
  Public <- MCPublic
  Ports = {"443"}
  Extensions = {"md"}
  Racines = {"home", "etc"}
  RacinesHome = {"home"}
  Chemins = "utilisateur_projet"
  Projet <- MCProjet
  Jours = 5
  SidedDates = TRUE
  Values <- MCValues
  Revealable <- MCRevealable
  MaxTries = 4
  MaxCalls = 2
  MaxChanges = 1
  Days = {17, 18}
  Blocking = TRUE
  Sensitive <- MCSensitive
  SecretAtoms = {"hunter2"}
INVARIANTS TypeOK CoMembership NothingRealLeft EveryPieceRestores SecretsStaySecret
PROPERTY SideKept
CHECK_DEADLOCK FALSE
