SPECIFICATION TransportsSpec
CONSTANTS
  MaxRetries = 2
  MaxNonce = 4
INVARIANTS TypeOK OneOutcome OnePeer PeersStay
  ServedAsSent AnswerIsWhole
PROPERTIES AttemptSettles RequestSettles
\* A session, a dialog and a request come to an end.
CHECK_DEADLOCK FALSE
