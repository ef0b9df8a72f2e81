SPECIFICATION MCSpec
CONSTANTS
  Values = {0, 1}
  Default = 0
  Tried = {"ms", "bool"}
  Base = 2
  Msgs = {a, b}
  Messages = {h1, h2}
  Pipes = {p}
  Fields <- MCFields
  Sizes = {0, 3}
  MaxBytes <- MCMaxBytes
  Null = null
SYMMETRY Symmetry
INVARIANTS GetReturnsWhatWasSet SettersHaveTheRightType ContentsAsWritten IntegersReadBack
