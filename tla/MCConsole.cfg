SPECIFICATION Spec
CONSTANTS
  Glyph = 2
  Width = 7
  Height = 7
  Pitch = 9
  Tab = 2
  Chars = {"a", " "}
  Space = " "
  Font <- MCFont
INVARIANTS TypeOK GlyphFits MarginBlank
PROPERTIES ImplementsTerminal
