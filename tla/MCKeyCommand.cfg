CONSTANTS
  p = p
  q = q
  lock = lock
  unlock = unlock
  start = start
  query = query
  Messages = {lock, unlock, start, query}
  Phones = {p, q}
  Phone <- PhoneOf
  Id <- IdOf
  Total <- TotalOf
  Command <- CommandOf
  Unknown = {start}
  MaxSendings <- SendingsOf
  None = None
SPECIFICATION KeySpec
INVARIANT KeyTypeOK
INVARIANT WholeMessages
INVARIANT AnswerTruthful
PROPERTY OncePerSending
