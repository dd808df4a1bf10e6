SPECIFICATION FairSpec
CONSTANTS
  Texts <- SomeTexts
  Letters = {"a"}
  Boxes <- SomeBoxes
  MinChars = 3
  Break <- EvenBreak
  BoxedRules = {"wide", "one_empty_line"}
INVARIANTS
  TextKept
  LinesFit
  SpacesCounted
  HyphenWithin
PROPERTIES
  AllShown
CHECK_DEADLOCK FALSE
