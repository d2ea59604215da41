SPECIFICATION FairSpec
CONSTANTS
  up = up
  upagain = upagain
  descr = descr
  name = name
  mine = mine
  mid = mid
  deep = deep
  big = big
  Handler = {up, upagain, descr, name, mine, mid, deep, big}
  Arcs <- MCArcs
  Uptime = up
  SystemGroup <- MCGroup
  MaxCallbacks = 4
  Asked <- MCAsked
  Repetitions = {3}
INVARIANTS
  TypeOK
  NextIsLexical
  BulkIsRepeatedGetNext
PROPERTIES
  WalkTurnsOnlyAtTwins
  WalkCoversTheMib
  EveryWalkEnds
