CONSTANTS
    Protocols <- MCProtocols
    Dags <- MCDags
    Window <- MCWindow
    Retries <- MCRetries
    Ceiling = 1
    MaxItems <- MCMaxItems
    MaxOrphans = 1
SPECIFICATION Spec
INVARIANTS
    GreenMeansDelivered
    CeilingHolds
