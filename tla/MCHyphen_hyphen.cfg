SPECIFICATION FairSpec
CONSTANTS
  Letters = {"a", "b"}
  Other = "2"
  Lines <- SomeLines
  MaxLines = 6
  Texts <- SomeTexts
  MinChars = 1
INVARIANTS
  HTypeOK
  StateWasRead
  Sound
  AsDefined
PROPERTIES
  HyphenationEnds
CHECK_DEADLOCK FALSE
