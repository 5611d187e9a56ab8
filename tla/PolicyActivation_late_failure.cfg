SPECIFICATION Spec
CONSTANTS
  None = None
  Quotes = {q1}
  Requests = {r1}
  RequestQuote <- RequestsOfOneQuote
  Brokers = {}
  Jobs = {s1, f1}
  SucceededEvents = {s1}
  FailedEvents = {f1}
  QuoteOf <- EventsOfOneQuote
  WithAddress = {q1}
  Workers = {w1, w2}
  MaxAttempts = 2
  MaxStalls = 1
  MaxFaults = 0
INVARIANT
  FailedPaymentHasNoActivePolicy
CHECK_DEADLOCK FALSE
