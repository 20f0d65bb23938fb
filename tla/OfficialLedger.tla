--------------------------- MODULE OfficialLedger ---------------------------
(***************************************************************************)
(* What the geocoding tables promise about one address, whatever the       *)
(* requests that write them interleave to: every change a reader of the    *)
(* database can see is one whole geocoding, one whole admin decision or    *)
(* one whole GIS import of a single address.  GeocodeRequests implements   *)
(* this specification.                                                     *)
(***************************************************************************)
CONSTANTS
  Addresses,      \* canonical address hashes
  Remote,         \* providers with is_local = FALSE
  Local,          \* providers with is_local = TRUE
  Fuzzy,          \* the provider names "fuzzy_<source>"
  Admin,          \* the provider name "admin_override"
  Gis,            \* the provider name "bibb_county_gis"
  NoProvider,     \* the address has no official_geocoding row
  Paths           \* the geocoding paths in use, of "cascade" and "legacy"

VARIABLES
  address,   \* address[a]: the addresses row of a exists
  rows,      \* rows[a][p]: the geocoding_results row of (a, p)
  official,  \* official[a]: the provider of the row official_geocoding names
  override   \* override[a]: the admin_overrides row of a exists

Geocoders == Remote \cup Local \cup Fuzzy
Provider  == Geocoders \cup {Admin, Gis}

(* Only rows of a that belong to providers in S change, and none vanishes. *)
Gains(a, S) ==
  /\ \A b \in Addresses \ {a} : rows'[b] = rows[b]
  /\ \A p \in Provider :
       rows'[a][p] # rows[a][p] => p \in S /\ rows'[a][p] # "absent"

Init ==
  /\ address  \in [Addresses -> BOOLEAN]
  /\ rows     = [a \in Addresses |-> [p \in Provider |-> "absent"]]
  /\ official = [a \in Addresses |-> NoProvider]
  /\ override = [a \in Addresses |-> FALSE]

(* The cascade makes a match official. The legacy path makes any row       *)
(* official, and only for an address that has no official row.             *)
Electable(a, p) ==
  \/ "cascade" \in Paths /\ rows'[a][p] = "MATCH"
  \/ "legacy" \in Paths /\ rows'[a][p] # "absent" /\ official[a] = NoProvider

(* A geocoding records what the providers answered and may elect one of    *)
(* the rows the address then has.                                          *)
Geocode(a) ==
  /\ address' = [address EXCEPT ![a] = TRUE]
  /\ Gains(a, Geocoders)
  /\ \/ official' = official
     \/ \E p \in Geocoders : /\ Electable(a, p)
                             /\ official' = [official EXCEPT ![a] = p]
  /\ UNCHANGED override

(* An admin names one of the rows the address already has. *)
Select(a) ==
  /\ address[a]
  /\ \E p \in Provider : /\ rows[a][p] # "absent"
                         /\ official' = [official EXCEPT ![a] = p]
  /\ UNCHANGED <<address, rows, override>>

(* An admin gives coordinates: the synthetic row, the override record and  *)
(* the official pointer appear together.                                   *)
Override(a) ==
  /\ address[a]
  /\ Gains(a, {Admin})
  /\ rows'[a][Admin] = "MATCH"
  /\ official' = [official EXCEPT ![a] = Admin]
  /\ override' = [override EXCEPT ![a] = TRUE]
  /\ UNCHANGED address

(* A GIS import becomes official exactly when nothing else was. *)
Import(a) ==
  /\ address' = [address EXCEPT ![a] = TRUE]
  /\ Gains(a, {Gis})
  /\ rows'[a][Gis] = "MATCH"
  /\ official' = [official EXCEPT ![a] = IF @ = NoProvider THEN Gis ELSE @]
  /\ UNCHANGED override

Next == \E a \in Addresses : Geocode(a) \/ Select(a) \/ Override(a) \/ Import(a)

vars == <<address, rows, official, override>>

Spec == Init /\ [][Next]_vars
=============================================================================
