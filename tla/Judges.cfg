SPECIFICATION Spec
CONSTANTS
  null = null
  its = its
  word = word
  Null = null
  NumericColumns = {"amount", "customer_id"}
  ExactIntegers = TRUE
  Strip <- MCStrip
  ActiveSpellings = {"active", "ACTIVE"}
  Apostrophes = {its}
  Subjects <- MCSubjects
  Candidates <- MCCandidates
  MaxCandidates = 1
INVARIANTS TypeOK JudgesAgree PathsAgree ComparatorsAgree
CHECK_DEADLOCK FALSE
