SPECIFICATION SpecOutgoing
CONSTANTS
  Types = {"CERTIFICATE", "API_KEY", "CREDIT_CARD", "SERVICE", "TOOL", "PORT", "HOSTNAME",
           "LOCATION", "URL", "FILE_PATH", "PERSON", "ADDRESS", "DATE", "INVENTORY"}
  SecretTypes = {"CERTIFICATE", "API_KEY", "CREDIT_CARD"}
  PublicTypes = {"SERVICE", "TOOL", "PORT"}
  Priority <- MCPriority
  Capitals = {"B", "C"}
  Small = {"a", "b", "c", "d", "e", "f", "h", "i", "k", "l", "o", "p", "q", "r"}
  Digits = {"2", "7"}
  DateChars = {"2"}
  Labels <- MCLabels
  AllowExact <- MCAllowExact
  AllowTyped <- MCAllowTyped
  NotCards <- MCNotCards
  Streets <- MCStreets
  MinScore = 5
  Worlds <- MCCutWorlds
  Threshold = 12
  Reach = 3
INVARIANT BothPartsHidden
CHECK_DEADLOCK FALSE
