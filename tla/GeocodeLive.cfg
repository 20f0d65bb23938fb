SPECIFICATION FairSpec
CONSTANTS
  Addresses = {a1}
  Requests = {r1, r2}
  census = census
  nominatim = nominatim
  Remote = {census, nominatim}
  RemoteOrder <- TwoRemotes
  Local = {tiger}
  Fuzzy = {fuzzy}
  Admin = admin_override
  Gis = bibb_county_gis
  NoProvider = NoProvider
  Ops <- GeocodeVsAdmin
PROPERTIES EveryRequestEnds
