SPECIFICATION FairSpec
CONSTANTS
  MaxStarts = 2
  oa = oa
  Oa = oa
  Macon = macon
  Nad = nad
  Parcels = parcels
  Gis = gis
  street = street
  avenue = avenue
  Words = {street, avenue}
  CensusWords = {avenue}
  NoWord = NoWord
  NoId = NoId
  NoPoint = NoPoint
  Items <- SomeItems
  OldFiles <- OneOldItem
  Tiger = tiger
  nominatim = nominatim
  Probed = {nominatim}
  AskOrder <- ShortOrder
  BatchSize = 2
  MaxRows = 2
  TigerStates = {TRUE, FALSE}
  None = None
INVARIANTS TypeOK DictionaryCoversLoads
PROPERTIES DictionaryNeverEmptied WantOfWordsIsExplained EveryProcessEnds
CHECK_DEADLOCK FALSE
