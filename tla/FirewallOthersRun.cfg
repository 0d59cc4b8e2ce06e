CONSTANTS
    Adapters = {"global", "eth0"}
    Configured <- Own
    HandMade <- WithTunnel
SPECIFICATION Spec
PROPERTIES OthersKeepTheirMeaning
