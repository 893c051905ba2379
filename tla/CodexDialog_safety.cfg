SPECIFICATION FairSpec
CONSTANT MaxDevice = 2
INVARIANTS NothingLeftOpen ToldTruth
PROPERTIES ReplacedOnlyWatched WaitingEnds
