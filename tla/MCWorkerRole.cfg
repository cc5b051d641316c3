SPECIFICATION FairSpec
CONSTANT MaxFailures = 3
INVARIANTS TypeOK StopOutlastsRun
PROPERTIES StopCompletes ConsumersComeBack
