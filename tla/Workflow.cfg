SPECIFICATION LWSpec
CONSTANTS
  Workers = {1, 2}
  Jobs = {"build", "deploy", "call"}
  Instances = {"build1", "build2", "deploy1"}
  Shapes <- MatrixOrCall
  Conclusions = {"success", "failure"}
  MaxRounds = 2
  MaxFaults = 2
INVARIANTS ExclusiveCustody OneConcreteJob ActivatedAfterNeeds ResultsComplete CallsCoverCallees DueExact
PROPERTIES PreemptedStays RunConcludes
CHECK_DEADLOCK FALSE
