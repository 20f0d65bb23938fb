SPECIFICATION Spec
CONSTANTS
  Addresses = {a1}
  Requests = {r1, r2}
  census = census
  nominatim = nominatim
  Remote = {census}
  RemoteOrder <- OneRemote
  Local = {tiger}
  Fuzzy = {fuzzy}
  Admin = admin_override
  Gis = bibb_county_gis
  NoProvider = NoProvider
  Ops <- GeocodeAndRefresh
SYMMETRY RequestSymmetry
INVARIANTS RefreshAsksProviders
