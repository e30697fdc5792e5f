\* One run, and the request its collector relays; two connections at a time,
\* every failure.
CONSTANTS
    Runs = {r1}
    Upstream = upstream
    Slots = {s1, s2}
    TimeOuts = TRUE
    MaxAsks = 2
SPECIFICATION Spec
INVARIANT PolicyFollowsRequests
PROPERTIES
    RelayedInTheEnd
    UpstreamFollows
