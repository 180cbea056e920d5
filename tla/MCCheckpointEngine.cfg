SPECIFICATION FairSpec
CONSTANTS
    NumActors = 2
    NumRollouts = 2
    Models <- MCModels
    DeviceBufferSize = 2
    MaxSyncs = 2
PROPERTIES
    ImplementsTransfer
    TransferEnds
