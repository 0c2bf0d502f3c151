SPECIFICATION Spec
CONSTANTS
  n1 = n1
  n2 = n2
  s1 = s1
  s2 = s2
  t1 = t1
  t2 = t2
  m1 = m1
  m2 = m2
  Nodes = {n1, n2}
  Sockets = {s1, s2}
  Topics = {t1, t2}
  Msgs = {m1, m2}
  nodeOf <- MCNodeOf
  pats <- MCPats
  matching <- MCMatching
  topicOf <- MCTopicOf
  nodeFrom <- MCNodeFrom
  nodeTo <- MCNodeTo
  MaxReplays = 1
INVARIANTS OncePerRecord
PROPERTIES Reaches
