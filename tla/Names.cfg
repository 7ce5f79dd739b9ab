SPECIFICATION Spec
CONSTANTS
    Flags <- MCFlags
    Default <- MCDefault
    Draws <- MCDraws
    Ports <- MCPorts
    FirstLines <- MCFirstLines
    MoreLines <- MCMoreLines
    MaxLines = 2
    Addresses <- MCAddresses
INVARIANTS
    ParsesAsDocumented
    AskAlike
    NoWrongDestination
    UpstreamIsReached
CHECK_DEADLOCK FALSE
