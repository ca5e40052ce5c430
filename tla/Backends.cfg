CONSTANTS
  Ids = {1, 2, 3}
  Lanes = {main, side}
  Main = main
  Texts = {t}
  None = None
  MaxNext = 5
  MaxForks = 1
  MaxRaces = 1
  Limits = {1}
SPECIFICATION Spec
INVARIANTS RefusalsAgree ContentsAgree CacheIsFresh QueriesAgree ForkIsSound
CHECK_DEADLOCK FALSE
