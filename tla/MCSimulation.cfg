SPECIFICATION FairSpec
CONSTANTS
  NCores = 2
  NLps = 2
  Builds <- SomeBuilds
INVARIANTS TypeOK StopSound InitFirst LockDiscipline BoundRestored
PROPERTY Terminates
