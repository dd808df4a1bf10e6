SPECIFICATION Spec
CONSTANTS
  Names <- SomeNames
  Space = "space"
  FontFiles <- SomeFontFiles
  Staticligkern <- SomeStaticligkern
  Fontencoding <- SomeNames
  Type3Width <- SomeType3Width
  Type3Kerns <- SomeType3Kerns
  Type3Ligs <- SomeType3Ligs
  MaxAdds = 1
  Chars <- SomeChars
  Inputenc <- SomeInputenc
  Ligdischar = "|"
  Texts <- SomeTexts
  Lengths <- SomeLengths
  Charspacings = {0, 4}
  Wordspacings = {2}
  Positions = {985}
  Unit = 10
  MaxX = 1000
INVARIANTS
  PenKnown
  MeasuredAsShown
  GlyphsStandForText
  NoPairMissed
CHECK_DEADLOCK FALSE
