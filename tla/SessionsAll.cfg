SPECIFICATION Spec
CONSTANTS
  None = None
  a = a
  b = b
  c = c
  h1 = h1
  h2 = h2
  q1 = q1
  q2 = q2
  Ips = {a, b, c}
  Srcs = {h1, h2}
  Requests = {q1, q2}
  NumWorkers = 2
  MaxWorkers = 3
  MaxRetry = 1
  MaxPortRetry = 2
  MaxBanRetries = 1
  MaxApi = 1
  Worlds <- MCWorlds
INVARIANTS TypeOK PoolAgreement PoolSound ReservationsAnswered Refreshed RotatedApart
PROPERTY RequestsEnd
CHECK_DEADLOCK FALSE
