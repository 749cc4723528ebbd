SPECIFICATION LifetimeFairSpec
CONSTANTS
  t1 = t1
  t2 = t2
  t3 = t3
  Threads = {t1, t2, t3}
  Jobs <- Contended
  Bytes = {0, 97, 130, 172, 173, 226}
  MaxNodes = 9
INVARIANTS TypeOK WriteLockExclusive InsertedStaysFound OccurrencesExact LiteralIdsDense EveryNodeOwnedOnce LeafOnlyUnderNul HeapIsTrie CountIsChildren LifetimeInv FreedExactlyOnce
PROPERTIES SlotWrittenOnce ImplementsLiteralIndex AllInserted
