\* A server that compresses its answers.
CONSTANTS
  c1 = c1
  c2 = c2
  c3 = c3
  k1 = k1
  k2 = k2
  Calls = {c1, c2}
  KeyOf <- SameKeyOf
  Hurried = {}
  Answers <- MCAnswers
  MaxRetries = 1
  None = None
  Unreadable = Unreadable
  MaxOpened = 2
SPECIFICATION Spec
PROPERTY AnswersUsed
