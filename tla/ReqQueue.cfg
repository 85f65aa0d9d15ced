CONSTANTS
  c1 = c1
  c2 = c2
  c3 = c3
  Clients = {c1, c2, c3}
  shm_num_items = 2
  MaxReqs = 2
  MaxKills = 1
SPECIFICATION FairSpec
INVARIANTS TypeOK ProducerMutex TokensConserved RingHoldsWaiting
PROPERTIES FifoSpec EverySendReceived
\* requests are bounded, so the server ends up waiting for the next one
CHECK_DEADLOCK FALSE
