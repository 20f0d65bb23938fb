----------------------------- MODULE LocalLookup ----------------------------
(***************************************************************************)
(* The providers that answer from the staging tables (OpenAddresses, NAD,  *)
(* Macon-Bibb), Tiger, and the FuzzyMatcher the cascade asks after them.   *)
(*                                                                         *)
(* One lookup runs while loads change the tables: each of its statements   *)
(* sees what is committed when it starts.  A row is what the statements    *)
(* compare and what decides the confidence of the answer; a ZIP code is a  *)
(* sequence of digits, a confidence or a score a number of hundredths.     *)
(***************************************************************************)
EXTENDS Integers, Sequences, FiniteSets

CONSTANTS
  Oa, Nad, Macon,  \* the staging tables
  Points,          \* rows they may hold
  Queries,         \* parsed input addresses: [number, street, suffix, zip]
  Absent,          \* a part the parser did not find
  Words,           \* street names
  Score,           \* Score[w]: word_similarity of the asked street and w
  Sound,           \* Sound[w]: 2 if dmetaphone agrees, plus 1 if dmetaphone_alt does
  MaxDistance,     \* FUZZY_MAX_DISTANCE
  MaxInt,          \* the largest value of PostgreSQL's integer
  Limit,           \* LIMIT of the fuzzy query
  Threshold, TieGap, \* FUZZY_SIMILARITY_THRESHOLD, FUZZY_TIEBREAK_GAP
  TigerRows,       \* what geocode() may return: [rating, known, county]: whether its
                   \* state is known, and the county it lies in or Absent
  Counties         \* county_fips a caller may give, or Absent

Sources == {Oa, Nad, Macon}
Tasks   == [kind : {"geocode", "validate"}, source : Sources, query : Queries \cup {Absent}]
             \cup [kind : {"fuzzy", "tiger"}, source : {Absent}, query : Queries \cup {Absent}]

ASSUME PointsAreRows ==
  \A r \in Points : /\ DOMAIN r = {"source", "id", "number", "street", "suffix", "zip", "kind"}
                    /\ r.street \in Words
ASSUME AbsentIsNoRow == Absent \notin Points
ASSUME TablesAreFinite == IsFiniteSet(Points)
ASSUME RatingsAreInt == \A r \in TigerRows : r.rating \in Int
ASSUME ScoresAreHundredths == Score \in [Words -> 0 .. 100] /\ Sound \in [Words -> 0 .. 3]
ASSUME NumbersAreNat ==
  /\ MaxDistance \in Nat /\ MaxInt \in Nat /\ Limit \in Nat \ {0}
  /\ Threshold \in 0 .. 99 /\ TieGap \in Nat

VARIABLES
  points,  \* committed rows
  task,    \* what is asked of whom
  pc,      \* the statement the lookup is at
  cands,   \* candidates of the fuzzy query
  answer,  \* its answer
  always,  \* history: rows that were there all the time
  outage   \* history: a statement failed or the stage timed out

vars == <<points, task, pc, cands, answer, always, outage>>

NoMatch == [row |-> Absent, confidence |-> 0,  fuzzy |-> FALSE]
Failed  == [row |-> Absent, confidence |-> -1, fuzzy |-> FALSE]

Kind  == task.kind
q     == task.query
Table == {r \in points : r.source = task.source}

(* Distinct rows of a table have distinct ids. *)
IsTable(S) == \A r, s \in S : r.source = s.source /\ r.id = s.id => r = s

TypeOK ==
  /\ points \subseteq Points /\ IsTable(points)
  /\ task \in Tasks
  /\ pc \in {"parse", "exact", "nearest", "prefix", "prefix3", "query", "tiebreak", "tiger",
             "done"}
  /\ cands \subseteq Points /\ Cardinality(cands) <= Limit
  /\ answer.row \in Points \cup TigerRows \cup {Absent}
  /\ answer.confidence \in -1 .. 100 /\ answer.fuzzy \in BOOLEAN
  /\ always \subseteq points /\ outage \in BOOLEAN

Init ==
  /\ points \in SUBSET Points /\ IsTable(points)
  /\ task \in Tasks
  /\ pc = "parse"
  /\ cands = {}
  /\ answer = NoMatch
  /\ always = points
  /\ outage = FALSE

-----------------------------------------------------------------------------
(* What the statements compare. *)

StartsWith(z, p) == Len(p) <= Len(z) /\ SubSeq(z, 1, Len(p)) = p
FirstOf(z, n)    == SubSeq(z, 1, IF n <= Len(z) THEN n ELSE Len(z))
Before(z, y)     ==
  \E k \in 1 .. Len(z) : /\ k <= Len(y) => z[k] < y[k]
                         /\ k <= Len(y)
                         /\ \A j \in 1 .. (k - 1) : z[j] = y[j]

(* A suffix is compared when the address has one; a row without matches no *)
(* suffix.                                                                 *)
SameStreet(r) == r.street = q.street /\ (q.suffix = Absent \/ r.suffix = q.suffix)
Exact(r)      == r.number = q.number /\ SameStreet(r) /\ r.zip = q.zip
IsNumeric(n)  == n \in Nat
OnBlock(r)    == SameStreet(r) /\ r.zip = q.zip /\ IsNumeric(r.number)
Distance(r)   == IF r.number >= q.number THEN r.number - q.number ELSE q.number - r.number
Prefixed(r, n) == /\ r.number = q.number
                  /\ SameStreet(r)
                  /\ StartsWith(r.zip, FirstOf(q.zip, n))

OaConfidence(k) ==
  CASE k = "rooftop" -> 100 [] k = "parcel" -> 80 [] k = "interpolation" -> 50
    [] k = "centroid" -> 40 [] OTHER -> 10
NadConfidence(k) ==
  CASE k \in {"Structure - Rooftop", "Structure - Entrance"} -> 100
    [] k \in {"Site", "Property Access"} -> 80 [] k = "Parcel - Other" -> 60
    [] k = "Linear Geocode" -> 50 [] k = "Parcel - Centroid" -> 40 [] OTHER -> 10
MaconConfidence(k) ==
  CASE k \in {"PARCEL", "SITE"} -> 80 [] k = "STRUCTURE" -> 100 [] OTHER -> 10
ConfidenceOf(r) ==
  CASE r.source = Oa  -> OaConfidence(r.kind)
    [] r.source = Nad -> NadConfidence(r.kind)
    [] OTHER          -> MaconConfidence(r.kind)

Goto(l) ==
  /\ pc' = l
  /\ UNCHANGED <<points, task, cands, answer, always, outage>>

Reply(a) ==
  /\ answer' = a
  /\ pc' = "done"
  /\ UNCHANGED <<points, task, cands, always, outage>>

(* A validation's answer is certain; a row that is not the first           *)
(* statement's is worth half.                                              *)
Found(r, fuzzy) ==
  Reply([row        |-> r,
         confidence |-> IF Kind = "validate" THEN 100
                        ELSE IF fuzzy THEN ConfidenceOf(r) \div 2 ELSE ConfidenceOf(r),
         fuzzy      |-> fuzzy])

-----------------------------------------------------------------------------
(* geocode and validate of a staging table. *)

ParseAddress ==
  /\ pc = "parse"
  /\ CASE Kind = "tiger"             -> Goto("tiger")
       [] Kind = "fuzzy"             -> Goto("query")
       [] Kind \in {"geocode", "validate"} ->
            IF q = Absent \/ q.zip = Absent THEN Reply(NoMatch) ELSE Goto("exact")

(* Mutant: four digits pass for a whole ZIP. *)
ToPrefixBelowFour == IF Len(q.zip) < 4 THEN Goto("prefix") ELSE Reply(NoMatch)

(* The ZIP of the address is truncated, or nothing matches. *)
ToPrefix == IF Len(q.zip) < 5 THEN Goto("prefix") ELSE Reply(NoMatch)

(* Mutant: the newest row instead of the oldest. *)
FindNewest ==
  LET hits == {r \in Table : Exact(r)} IN
    /\ pc = "exact"
    /\ IF hits # {}
       THEN \E r \in hits : (\A s \in hits : r.id >= s.id) /\ Found(r, FALSE)
       ELSE IF Kind = "validate" THEN ToPrefix ELSE Goto("nearest")

FindMatch ==
  LET hits == {r \in Table : Exact(r)} IN
    /\ pc = "exact"
    /\ IF hits # {}
       THEN \E r \in hits : (\A s \in hits : r.id <= s.id) /\ Found(r, FALSE)
       ELSE IF Kind = "validate" THEN ToPrefix ELSE Goto("nearest")

(* Mutant: any row near enough. *)
FindAnyNear ==
  LET block == {r \in Table : OnBlock(r)} IN
    /\ pc = "nearest"
    /\ IF IsNumeric(q.number) /\ \E r \in block : Distance(r) <= MaxDistance
       THEN \E r \in block : Distance(r) <= MaxDistance /\ Found(r, TRUE)
       ELSE ToPrefix

(* The nearest house number of the block, unless even that one is too far. *)
(* A number beyond PostgreSQL's integers, asked for or stored in the       *)
(* block, is an error.                                                     *)
FindFuzzyMatch ==
  LET block   == {r \in Table : OnBlock(r)}
      nearest == {r \in block : \A s \in block : Distance(r) <= Distance(s)} IN
    /\ pc = "nearest"
    /\ IF ~IsNumeric(q.number)
       THEN ToPrefix
       ELSE IF q.number > MaxInt \/ \E r \in block : r.number > MaxInt
       THEN Reply(Failed)
       ELSE IF \A r \in block : Distance(r) > MaxDistance
       THEN ToPrefix
       ELSE \E r \in nearest : Found(r, TRUE)

(* Mutant: a row found by its ZIP prefix is not marked as fuzzy. *)
FindPrefixUnmarked(l, n) ==
  LET hits == {r \in Table : Prefixed(r, n)} IN
    /\ pc = l
    /\ IF hits # {}
       THEN \E r \in hits : (\A s \in hits : ~Before(s.zip, r.zip)) /\ Found(r, FALSE)
       ELSE IF l = "prefix" /\ Len(q.zip) >= 3 THEN Goto("prefix3") ELSE Reply(NoMatch)

(* A truncated ZIP: its first four digits, then its first three; the       *)
(* lowest ZIP first.                                                       *)
FindByPrefix(l, n) ==
  LET hits == {r \in Table : Prefixed(r, n)} IN
    /\ pc = l
    /\ IF hits # {}
       THEN \E r \in hits :
              /\ \A s \in hits : ~Before(s.zip, r.zip)
              /\ Found(r, Kind = "geocode")
       ELSE IF l = "prefix" /\ Len(q.zip) >= 3 THEN Goto("prefix3") ELSE Reply(NoMatch)

Lookup == \/ FindMatch \/ FindFuzzyMatch
          \/ FindByPrefix("prefix", 4) \/ FindByPrefix("prefix3", 3)

OaLookup    == task.source = Oa /\ Lookup
NadLookup   == task.source = Nad /\ Lookup
MaconLookup == task.source = Macon /\ Lookup

OaGeocode     == Kind = "geocode" /\ OaLookup
OaValidate    == Kind = "validate" /\ OaLookup
NadGeocode    == Kind = "geocode" /\ NadLookup
NadValidate   == Kind = "validate" /\ NadLookup
MaconGeocode  == Kind = "geocode" /\ MaconLookup
MaconValidate == Kind = "validate" /\ MaconLookup

-----------------------------------------------------------------------------
(* FuzzyMatcher *)

InZip(r)    == q.zip = Absent \/ StartsWith(r.zip, FirstOf(q.zip, 5))
Similar(r)  == Score[r.street] >= Threshold /\ InZip(r)
Highest(S)  == {r \in S : \A s \in S : Score[r.street] >= Score[s.street]}
FuzzyConfidence(r) == 50 + ((Score[r.street] - Threshold) * 25) \div (100 - Threshold)
FuzzyFound(r) == Reply([row |-> r, confidence |-> FuzzyConfidence(r), fuzzy |-> TRUE])

(* The rows of all tables above the threshold, at most Limit of them: rows *)
(* of one street score the same, and the query does not order them.        *)
QueryCandidates ==
  LET hits == {r \in points : Similar(r)} IN
    /\ pc = "query"
    /\ IF q = Absent \/ hits = {}
       THEN Reply(NoMatch)
       ELSE \E c \in SUBSET hits :
              /\ Cardinality(c) = IF Cardinality(hits) < Limit THEN Cardinality(hits)
                                  ELSE Limit
              /\ \A r \in c, s \in hits \ c : Score[r.street] >= Score[s.street]
              /\ cands' = c
              /\ pc' = "tiebreak"
              /\ UNCHANGED <<points, task, answer, always, outage>>

Rank(r)         == <<Sound[r.street], Score[r.street]>>
Outranks(r, s)  ==
  \/ Rank(r)[1] > Rank(s)[1]
  \/ Rank(r)[1] = Rank(s)[1] /\ Rank(r)[2] >= Rank(s)[2]
IsClear(top)    ==
  \A s \in cands \ {top} : Score[top.street] - Score[s.street] > TieGap

(* Mutant: only the sound counts. *)
TiebreakBySound ==
  /\ pc = "tiebreak"
  /\ \E top \in Highest(cands) :
       IF IsClear(top)
       THEN FuzzyFound(top)
       ELSE \E r \in cands : /\ \A s \in cands : Rank(r)[1] >= Rank(s)[1]
                             /\ FuzzyFound(r)

(* A clear leader wins.  Otherwise the candidates are compared by sound,   *)
(* then by score, all of them; by score alone when that query fails.       *)
PickFuzzy ==
  /\ pc = "tiebreak"
  /\ \E top \in Highest(cands) :
       \/ IsClear(top) /\ FuzzyFound(top)
       \/ /\ ~IsClear(top)
          /\ \E r \in cands : (\A s \in cands : Outranks(r, s)) /\ FuzzyFound(r)
       \/ ~IsClear(top) /\ FuzzyFound(top)

-----------------------------------------------------------------------------
(* Tiger's geocode() and the county filter; states and counties do not     *)
(* change.  A row whose state is unknown is not filtered.                  *)

(* Mutant: the rating is not clamped. *)
RatingUnclamped(n) == 100 - n

RatingConfidence(n) == IF n > 100 THEN 0 ELSE IF n < 0 THEN 100 ELSE 100 - n

TigerGeocode(county) ==
  /\ pc = "tiger"
  /\ \/ Reply(NoMatch)
     \/ \E r \in TigerRows :
          IF r.known /\ (r.county = Absent \/ county \notin {Absent, r.county})
          THEN Reply(NoMatch)
          ELSE Reply([row |-> r, confidence |-> RatingConfidence(r.rating), fuzzy |-> FALSE])

(* normalize_address() parses the address, or does not: TIGER's validation *)
(* is worth 0.4 at most, and names no row.                                 *)
TigerValidate ==
  /\ pc = "tiger"
  /\ \E c \in {0, 40} : Reply([row |-> Absent, confidence |-> c, fuzzy |-> FALSE])

-----------------------------------------------------------------------------
(* A statement fails, or the stage's timeout cancels the lookup. *)
Interrupted ==
  /\ pc # "done"
  /\ outage' = TRUE
  /\ answer' = Failed
  /\ pc' = "done"
  /\ UNCHANGED <<points, task, cands, always>>

(* A load commits a row; an upsert replaces the row of its key. *)
LoadCommits(r) ==
  /\ pc # "done"
  /\ points' = {s \in points : s.source # r.source \/ s.id # r.id} \cup {r}
  /\ always' = always \cap points'
  /\ UNCHANGED <<task, pc, cands, answer, outage>>

Proceed ==
  \/ ParseAddress
  \/ OaGeocode \/ OaValidate \/ NadGeocode \/ NadValidate \/ MaconGeocode \/ MaconValidate
  \/ QueryCandidates \/ PickFuzzy
  \/ TigerValidate \/ \E c \in Counties : TigerGeocode(c)

Next == Proceed \/ Interrupted \/ \E r \in Points : LoadCommits(r)

Spec == Init /\ [][Next]_vars

-----------------------------------------------------------------------------
Answered(kinds) == pc = "done" /\ Kind \in kinds /\ ~outage
Steady == {r \in always : r.source = task.source}

(* When the table holds the very address all the time, both providers      *)
(* answer with such a row, the oldest there was, and do not call it fuzzy: *)
(* no load, odd house number or truncated ZIP hides it                     *)
(* (openaddresses.py: _find_oa_match).                                     *)
ExactRowWins ==
  Answered({"geocode", "validate"}) /\ q # Absent /\ q.zip # Absent =>
    \A r \in Steady : Exact(r) =>
      /\ answer.row # Absent /\ Exact(answer.row) /\ answer.row.id <= r.id
      /\ ~answer.fuzzy

(* An answer with another house number is the nearest of the block: no row *)
(* that was there all the time is nearer (_find_oa_fuzzy_match).           *)
NearestHouseWins ==
  Answered({"geocode"}) /\ answer.row # Absent /\ answer.row.number # q.number =>
    /\ Distance(answer.row) <= MaxDistance
    /\ \A r \in Steady : OnBlock(r) => Distance(answer.row) <= Distance(r)

(* A geocoding's answer for another number or ZIP than the address asked   *)
(* for says so, and is worth half (OAGeocodingProvider.geocode).           *)
OtherPlacesAreMarked ==
  Answered({"geocode"}) /\ answer.row # Absent /\ ~Exact(answer.row) =>
    answer.fuzzy /\ 2 * answer.confidence <= ConfidenceOf(answer.row)

(* NO_MATCH is true of the rows that were there all the time: none is the  *)
(* address, none near enough, none in the ZIP area of a truncated ZIP; and *)
(* for the FuzzyMatcher none is similar enough.                            *)
NoMatchIsTrue ==
  /\ Answered({"geocode", "validate"}) /\ answer = NoMatch /\ q # Absent /\ q.zip # Absent =>
       \A r \in Steady :
         /\ ~Exact(r)
         /\ Kind = "geocode" /\ IsNumeric(q.number) /\ OnBlock(r) => Distance(r) > MaxDistance
         /\ Len(q.zip) < 5 => ~Prefixed(r, 4) /\ (Len(q.zip) >= 3 => ~Prefixed(r, 3))
  /\ Answered({"fuzzy"}) /\ answer = NoMatch /\ q # Absent =>
       \A r \in always : ~Similar(r)

(* No row that was there all the time both scores higher and sounds as     *)
(* close as the fuzzy answer (fuzzy.py: find_fuzzy_match).                 *)
NoBetterCandidate ==
  Answered({"fuzzy"}) /\ answer.row # Absent =>
    \A r \in always : Similar(r) /\ Sound[r.street] >= Sound[answer.row.street] =>
      Score[r.street] <= Score[answer.row.street]
=============================================================================
