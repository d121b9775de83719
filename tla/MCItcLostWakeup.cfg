CONSTANTS
  s1 = s1
  s2 = s2
  r1 = r1
  r2 = r2
  q1 = q1
  q2 = q2
  b1 = b1
  b2 = b2
  b3 = b3
  None = None
  Sentinel = Sentinel
  Queue = {q1}
  WORD = 4
  Sender = {s1}
  Receiver = {r1}
  Buffer = {b1, b2}
  MaxDepth = 3
SPECIFICATION FairSpec
PROPERTY SentIsReceived
