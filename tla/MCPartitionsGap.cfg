\* Days, nightly runs and checks, for ever.
SPECIFICATION FairSpec
CONSTANTS
    Workers = {w1}
    Ahead = 1
    Retain = 1
    None = None
    MaxDeaths = 0
PROPERTIES
    PartitionsComeBack
