SPECIFICATION WorkSpec
CONSTANTS
  Workers = {w1, w2}
  UserCount = 2
  PASS_ARR_LEN = 4
  AnswerOf <- SomeAnswers
  ThreadCounts = {1, 2, 3}
  MaxJoins <- Teams
  UserLists <- SomeLists
  MaxMenu <- Lines
SYMMETRY Alike
INVARIANTS
  WorkTypeOK
  FoundInOrder
  LettersAreShared
  CrashesUninformed
CHECK_DEADLOCK FALSE
