SPECIFICATION FrequencerSpec
CONSTANTS
    Estimates <- MCEstimates
    NoSleep = NoSleep
INVARIANT NeverSleepsOverCeiling
