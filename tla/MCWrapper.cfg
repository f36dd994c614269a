SPECIFICATION WrapperSpec
CONSTANTS
    Zero = 0
    NoRequest = NoRequest
    NoResponse = NoResponse
    Field <- MCField
    Action <- MCAction
    Score <- MCScore
    Cycles <- MCCycles
INVARIANTS CoreInStep
PROPERTIES PacketsAnswered EveryPacketAnswered
