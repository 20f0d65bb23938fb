SPECIFICATION Spec
CONSTANTS
  Oa = oa
  Nad = nad
  Macon = macon
  elm = elm
  alm = alm
  oak = oak
  letters = letters
  Absent = Absent
  Words = {elm, alm, oak}
  Points <- SomePoints
  Queries <- SomeQueries
  Score <- Scores
  Sound <- Sounds
  MaxDistance = 3
  MaxInt = 50
  Limit = 3
  Threshold = 65
  TieGap = 5
  TigerRows <- SomeTiger
  Counties = {21, 99, Absent}
INVARIANTS TypeOK ExactRowWins NearestHouseWins OtherPlacesAreMarked NoMatchIsTrue NoBetterCandidate
CHECK_DEADLOCK FALSE
