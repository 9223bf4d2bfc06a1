SPECIFICATION Spec
CONSTANTS
  usdt = usdt
  btc = btc
  w1 = w1
  w2 = w2
  x = x
  y = y
  padded = padded
  blank = blank
  Empty = Empty
  None = None
  Workers = {w1, w2}
  Assets = {usdt, btc}
  Texts = {x, y, padded, blank, Empty}
  Trimmed <- Trim
  MaxFailures = 1
PROPERTY EntryReplaces
CHECK_DEADLOCK FALSE
