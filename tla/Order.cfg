SPECIFICATION OrderSpec
CONSTANTS
  None = None
  Jobs = {d1, x1}
  Exports = {x1}
  StickerJobs = {l1}
  Workers = {w1, w2}
  MaxAttempts = 3
  MaxStalls = 1
  MaxFaults = 2
  Images = {i1, i2}
  Polls = {p1, p2}
  Calls = {c1, c2}
  TotalSteps = 2
  MaxPhotos = 4
  MaxScans = 1
  Sides = {1, 2}
  Photos = {ph1}
  Quads = {q0, q1}
  Fields = {"vin"}
  Texts = {t1}
  Limit = 2
  Window = 1
  MaxPicks = 2
  MaxAsks = 1
  MaxClock = 2
INVARIANTS
  RecordIsTrue
  RepeatedMailsExplained
  NoStickerForgotten
  ParcelsExplained
  SidesExplained
PROPERTIES
  OrderedIsDelivered
  NobodyLeftWaiting
CHECK_DEADLOCK FALSE
