SPECIFICATION FairSpec
CONSTANTS
  None = None
  Quotes = {q1}
  Requests = {r1, r2}
  RequestQuote <- RequestsOfOneQuote
  Brokers = {}
  Jobs = {s1, s2}
  SucceededEvents = {s1, s2}
  FailedEvents = {}
  QuoteOf <- EventsOfOneQuote
  WithAddress = {q1}
  Workers = {w1, w2}
  MaxAttempts = 2
  MaxStalls = 1
  MaxFaults = 1
INVARIANT DocumentsOncePerPolicy
PROPERTIES
  DocumentsEventuallyOrdered
  DeliveredIsSettled
CHECK_DEADLOCK FALSE
