SPECIFICATION Spec
CONSTANTS
  base = base
  sub = sub
  leaf = leaf
  Type = {base, sub, leaf}
  Above <- Superclasses
  Wrapper = {w1, w2}
  Thread = {t1, t2}
  Programs <- Considered
  MaxLife = 2
  NULL = NULL
SYMMETRY Symmetric
INVARIANT TypeOK WrapperIsCurrent MappingIsCurrent ExactClassWins
PROPERTY RegisterKeepsOthers CacheIsIdentityMap
CHECK_DEADLOCK FALSE
