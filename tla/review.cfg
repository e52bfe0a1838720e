SPECIFICATION Spec
CONSTANTS
  ann = ann  ben = ben  cai = cai
  None = None
  Rater = {ann, ben, cai}
  Candidates <- SomeSets
  Shuffle <- Rotation
  Batches <- TrialThenAll
  Fates <- SomeFates
  Tastes <- SomeTastes
  Willing <- AnnAndCai
  RaterLists <- AllOrTwo
INVARIANTS
  PassIsEarned
  GatesAreAsDefined
  ReportsAgree
