\* All lines of up to six characters, all texts of up to seven; a word of four
\* is too long for the tokenizer's buffer.
SPECIFICATION Spec
CONSTANTS
  WordMax = 5
  Upper = {"G"}
  LineMax = 6
  TextMax = 7
  LineChars <- SomeLineChars
  TextChars <- SomeTextChars
INVARIANTS TokensOK ArgsOK RequestOK
CHECK_DEADLOCK FALSE
