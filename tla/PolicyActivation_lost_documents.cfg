SPECIFICATION FairSpec
CONSTANTS
  None = None
  Quotes = {q1}
  Requests = {r1}
  RequestQuote <- RequestsOfOneQuote
  Brokers = {}
  Jobs = {s1}
  SucceededEvents = {s1}
  FailedEvents = {}
  QuoteOf <- EventsOfOneQuote
  WithAddress = {q1}
  Workers = {w1, w2}
  MaxAttempts = 2
  MaxStalls = 1
  MaxFaults = 1
PROPERTIES
  ChargedGetsDocuments
CHECK_DEADLOCK FALSE
