CONSTANTS
    Destinations <- MCDestinations
    InspectRules <- MCInspect
    TunnelRules <- MCTunnel
    Requests <- MCRequests
    Heads <- MCHeads
    Looks <- MCLooks
    MaxInterim = 1
    Exchanges = 2
    MaxWire = 2
    TunnelUnits = 2
    NONE = NONE
SPECIFICATION Spec
INVARIANTS TypeOK AnswersAreOwn OneLastWord WholeOrNothing EndsAreNamed TunnelDelivers
PROPERTIES EveryExchangeEnds HonestAreServed
CHECK_DEADLOCK FALSE
