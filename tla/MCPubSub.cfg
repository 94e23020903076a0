SPECIFICATION Spec
CONSTANTS
  news = news
  newsStar = newsStar
  star = star
  f1 = f1
  f2 = f2
  Channels = {news}
  Patterns = {newsStar, star}
  Callbacks = {f1, f2}
  Matches <- MCMatches
  MaxId = 4
INVARIANTS
  TypeOK
  BooksBalance
  PatternsFiled
  NobodyToldTwice
PROPERTIES
  QuietAfterPunsubscribe
  UndisturbedAreTold
