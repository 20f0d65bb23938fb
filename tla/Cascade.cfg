SPECIFICATION Spec
CONSTANTS
  census = census
  tiger = tiger
  ga = ga
  d3 = d3
  Address = a1
  Remote = {census}
  Local = {tiger}
  Fuzzy = {fuzzy}
  Admin = admin_override
  Gis = bibb_county_gis
  NoProvider = NoProvider
  Places = {here, there}
  NoPlace = NoPlace
  Absent = Absent
  Trust <- SomeTrust
  FuzzyTrust = {30, 70}
  States = {ga, ca}
  NoState = NoState
  ZipStates <- SomeZips
SYMMETRY PlaceSymmetry
INVARIANTS TypeOK ReplyIsHonest
PROPERTIES OneGeocoding OfficialIsEarned
