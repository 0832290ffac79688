SPECIFICATION FairSpec
CONSTANTS
  Tasks = {t1, t2, t3}
  Readers = {r1}
  TTL = 2
  MaxVersion = 2
INVARIANTS IInv
PROPERTIES RollbackOnlyWhenOvertaken CacheConverges
