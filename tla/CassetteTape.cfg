\* A recording and a replay of three calls, two of which make the same request;
\* each session may end, or die, at any point.
CONSTANTS
  c1 = c1
  c2 = c2
  c3 = c3
  k1 = k1
  k2 = k2
  Calls = {c1, c2, c3}
  KeyOf <- MCKeyOf
  Hurried = {c3}
  Answers <- PlainAnswers
  MaxRetries = 1
  None = None
  Unreadable = Unreadable
  MaxOpened = 2
SPECIFICATION Spec
SYMMETRY Symmetry
INVARIANTS TypeOK ReplaysRecording KnownNeverMisses SameEnd
