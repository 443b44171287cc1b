SPECIFICATION FairSpec
CONSTANTS
  api = api
  ssm = ssm
  dev = dev
  q1 = q1
  q2 = q2
  m1 = m1
  m2 = m2
  peer = peer
  Services = {api, ssm, dev}
  Calls = {q1, q2, m1, peer}
  Queries = {q1, q2}
  Home <- MCHome
  Sender <- MCSender
  Recipient <- MCRecipient
  Event <- MCEvent
CHECK_DEADLOCK FALSE
INVARIANTS
  InOrder
  Accounted
  AnswerResolves
PROPERTIES
  
  StopTogether
