SPECIFICATION FairSpec
CONSTANTS
    None = None
    RateUnit = 6
    MinSamples = 3
    MinSpread = 1
    Capacity = 4
    DirectGrace = 1
    Params <- SmallPools
    Queues <- SomeQueues
    Throughput = 2
    Deep = 4
PROPERTY DirectConverges
