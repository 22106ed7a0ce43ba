CONSTANTS
    t1 = t1
    t2 = t2
    Nobody = none
    Contents = {"k", "m"}
    Labels = {"secret"}
    Owners = {"p", "q"}
    Addresses = {"x", "y"}
    Written <- SecretOf
    MaxVersion = 3
    VersionLimit = 2
    BlobLimit = 2
    MaxGrants = 1
    Life = 1
    MaxTime = 1
    Failing = TRUE
    Threads = {t1, t2}
    Peers = {"a", "b", "c"}
    Channels = {"ab", "bc"}
    From <- HopFrom
    To <- HopTo
    Allowed <- HopAllowed
    Bodies = {"k"}
    Unclassified = "unclassified"
    Window = 1
    Setups <- MCSetups
SPECIFICATION MCSpec
SYMMETRY Symmetric
CHECK_DEADLOCK FALSE
INVARIANTS NoLaundering DeliveriesAgree
PROPERTIES ArtifactsAgree
