SPECIFICATION Spec
CONSTANTS
  Rows = 2
  Cols = 4
  Tab = 2
  Chars = {"c", "e", " ", ">"}
  Space = " "
  LineSize = 6
  Keys = {"c", "e", " ", "tab", "backspace", "newline"}
  Words <- MCWords
  CommandOf <- MCCommandOf
  Notice <- MCNotice
  Drift = 8
INVARIANTS TypeOK PromptKept LineShown NothingHidden WordsApart
CHECK_DEADLOCK FALSE
