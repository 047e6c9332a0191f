SPECIFICATION Spec
CONSTANTS
  Runes = {"a", "s", "."}
  WordRunes = {"a", "s"}
  Width <- MCWidth
  Stem <- MCStem
  StopWords <- MCStopWords
  maxPhraseLen = 5
  MaxRunes = 4
INVARIANTS
  AnswerIsExact
  QuotesAreFound
