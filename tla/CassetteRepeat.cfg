\* A call that needed a retry when it was recorded is made twice in replay.
CONSTANTS
  c1 = c1
  c2 = c2
  c3 = c3
  k1 = k1
  k2 = k2
  Calls = {c1, c2}
  KeyOf <- SameKeyOf
  Hurried = {}
  Answers <- PlainAnswers
  MaxRetries = 1
  None = None
  Unreadable = Unreadable
  MaxOpened = 2
SPECIFICATION Spec
INVARIANT SequenceReplayed
