CONSTANTS
  n1 = n1
  n2 = n2
  n3 = n3
  x = x
  Node = {n1, n2, n3, x}
  Connection <- Line
  NetworkOf <- Networks
  Tx = {t1}
  Miner = {n1}
  MaxHeight = 2
  MaxFailures = 1
SPECIFICATION FairGossipSpec
INVARIANTS
  NetworksStayApart
PROPERTIES
  TransactionsSpread
  ChainsConverge
CHECK_DEADLOCK FALSE
