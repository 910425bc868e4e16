CONSTANTS
    r1 = r1
    r2 = r2
    Replicas = {r1, r2}
    OriginOf <- MCOriginOf
    HostOf <- MCHostOf
    Configurations <- MCConfigurations
    GatewayArgs <- MCGatewayArgs
    InitialDisk <- MCInitialDisk
    SpareFiles <- MCSpareFiles
    WritablePaths <- MCWritablePaths
    MaxChanges = 2
    Requests <- MCRequests
    Null = Null
    Number = Number
    NoTokens = NoTokens
    ExactRowIds = {"exact_row"}
    NoOrigin = NoOrigin
    NoModel = NoModel
    NoReplica = NoReplica
    NoRecord = NoRecord
    NoExchange = NoExchange
    NoConfiguration = NoConfiguration
    NotSet = NotSet
    USIZE_MAX = 16
SPECIFICATION Spec
INVARIANT
    SameIdentitySameTokens
    WhatIsForwardedIsServed
    TokensComeFromTheNamedModel
    EveryResponseIsAttributed
    VerifiedRoutesAnswer
    EnvironmentIsTheLanes
