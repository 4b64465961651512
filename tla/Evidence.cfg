CONSTANT
  Parts = {"fuzz", "allocation", "generators", "baselines", "payload", "evolution", "audits", "native"}
SPECIFICATION Spec
INVARIANTS
  UniformSample RanksOnce ReportIsTrue SourcesAreFair GeneratedIsSound BaselinesAreFair
  OnePayloadEach RanksMoveAsProved VerdictsAreTrue CountsNeverWrap ConformanceIsTrue
CHECK_DEADLOCK FALSE
