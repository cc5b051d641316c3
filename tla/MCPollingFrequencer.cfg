SPECIFICATION FrequencerSpec
CONSTANTS
    Estimates <- MCEstimates
    NoSleep = NoSleep
INVARIANTS FrequencerTypeOK SleepWithinBackoff
