SPECIFICATION Spec

CONSTANTS
    Ops = {"fetch", "probe"}
    Requests <- MCRequests
    Hosts <- MCHosts
    Below <- MCBelow
    Addresses = {"public", "private"}
    Public = {"public"}
    Ports = {"ssh", "postgres"}
    Protocols = 3
    MaxConcurrency = 1
    MaxRedirects = 2
    MaxBody = 1
    Nothing = Nothing
INVARIANTS
    PinnedToItsOwnHost
    RedirectsStayInScope
    KeyStaysWithItsHost
    StoppedOperationsEnd
