SPECIFICATION Spec
CONSTANTS
    near = near
    twin = twin
    far = far
    body = body
    NoUpstream = NoUpstream
    Absent = Absent
    Upstreams <- MCUpstreams
    Bodies <- MCBodies
    Priority <- MCPriority
    MissingPriority <- MCMissingPriority
    Verifies <- MCVerifies
    Accepts <- MCAccepts
    MaxChanges = 1
INVARIANTS
    TypeOK
    Exhausted
    Verdict
    PriorityRespected
PROPERTIES
    ContractSpec
    RaceTerminates
