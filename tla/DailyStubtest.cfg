\* One platform, two shards and three distributions, so that the shares differ in size.
CONSTANTS
    linux = linux
    stdlib = stdlib
    Platform = {linux}
    NumShards = 2
    ShardIndex <- MCShardIndex
    NumDists = 3
    OtherJob = {stdlib}
SPECIFICATION Spec
INVARIANTS
    TypeOK
    QuietMeansTested
    ShardsAreDisjoint
PROPERTIES
    FailureIsReported
CHECK_DEADLOCK FALSE
