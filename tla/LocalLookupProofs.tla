-------------------------- MODULE LocalLookupProofs -------------------------
(***************************************************************************)
(* Proofs about LocalLookup, for any tables, addresses, scores and sounds, *)
(* and any loads between the statements of a lookup.                       *)
(***************************************************************************)
EXTENDS LocalLookup, FiniteSetTheorems, TLAPS

TableKinds == {"geocode", "validate"}

(* What a lookup is, by the statement it is at. *)
ShapeInv ==
  /\ points \subseteq Points /\ always \subseteq points /\ cands \subseteq Points
  /\ task \in Tasks
  /\ pc \in {"exact", "nearest", "prefix", "prefix3"} =>
       Kind \in TableKinds /\ q # Absent /\ q.zip # Absent
  /\ pc = "nearest" => Kind = "geocode"
  /\ pc \in {"prefix", "prefix3"} => Len(q.zip) < 5
  /\ pc \in {"query", "tiebreak"} => Kind = "fuzzy"
  /\ pc = "tiger" => Kind = "tiger"

(* What the statements before have made sure of.  Steady rows only become  *)
(* fewer while the lookup runs.                                            *)
SearchInv ==
  /\ pc \in {"nearest", "prefix", "prefix3"} => \A r \in Steady : ~Exact(r)
  /\ pc \in {"prefix", "prefix3"} /\ Kind = "geocode" /\ IsNumeric(q.number) =>
       \A r \in Steady : OnBlock(r) => Distance(r) > MaxDistance
  /\ pc = "prefix3" => \A r \in Steady : ~Prefixed(r, 4)

(* The candidates of the fuzzy query, and how they compare with the rows   *)
(* that it left out.                                                       *)
CandsInv ==
  pc = "tiebreak" =>
    \A r \in always : Similar(r) =>
      r \in cands \/ \A c \in cands : Score[c.street] >= Score[r.street]

IInv == /\ ShapeInv /\ SearchInv /\ CandsInv
        /\ ExactRowWins /\ NearestHouseWins /\ OtherPlacesAreMarked
        /\ NoMatchIsTrue /\ NoBetterCandidate

-----------------------------------------------------------------------------
LEMMA ConfidenceIsNat == \A r : ConfidenceOf(r) \in Nat
BY DEF ConfidenceOf, OaConfidence, NadConfidence, MaconConfidence

LEMMA Initial == Init => IInv
<1>. SUFFICES ASSUME Init PROVE IInv
  OBVIOUS
<1>1. pc = "parse" /\ points \subseteq Points /\ always = points /\ cands = {} /\ task \in Tasks
  BY DEF Init
<1>. QED
  BY <1>1 DEF IInv, ShapeInv, SearchInv, CandsInv, ExactRowWins, NearestHouseWins,
     OtherPlacesAreMarked, NoMatchIsTrue, NoBetterCandidate, Answered

-----------------------------------------------------------------------------
(* A step that goes on to another statement says nothing yet. *)
LEMMA GoingOn ==
  ASSUME IInv, NEW l, Goto(l), l # "done", ShapeInv', SearchInv', l # "tiebreak"
  PROVE  IInv'
<1>1. pc' = l
  BY DEF Goto
<1>. QED
  BY <1>1 DEF IInv, CandsInv, ExactRowWins, NearestHouseWins, OtherPlacesAreMarked,
     NoMatchIsTrue, NoBetterCandidate, Answered

(* An answer ends the lookup; it is right if it has the properties. *)
LEMMA Replying ==
  ASSUME IInv, NEW a, Reply(a),
         ExactRowWins', NearestHouseWins', OtherPlacesAreMarked', NoMatchIsTrue',
         NoBetterCandidate'
  PROVE  IInv'
<1>1. pc' = "done" /\ UNCHANGED <<points, task, cands, always>>
  BY DEF Reply
<1>2. ShapeInv'
  BY <1>1 DEF IInv, ShapeInv, Kind, q
<1>3. SearchInv' /\ CandsInv'
  BY <1>1 DEF SearchInv, CandsInv
<1>. QED BY <1>2, <1>3 DEF IInv

(* So is an answer of a lookup that is none of a staging table or fuzzy. *)
LEMMA ReplyingElse ==
  ASSUME IInv, NEW a, Reply(a), Kind \notin TableKinds \cup {"fuzzy"}
  PROVE  IInv'
<1>1. Kind' \notin {"geocode", "validate"} /\ Kind' # "fuzzy"
  BY DEF Reply, Kind, TableKinds
<1>2. /\ ExactRowWins' /\ NearestHouseWins' /\ OtherPlacesAreMarked'
      /\ NoMatchIsTrue' /\ NoBetterCandidate'
  BY <1>1 DEF ExactRowWins, NearestHouseWins, OtherPlacesAreMarked, NoMatchIsTrue,
     NoBetterCandidate, Answered
<1>. QED BY <1>2, Replying

(* A row that is the answer of a staging table. *)
LEMMA ReplyingRow ==
  ASSUME IInv, NEW r \in points, NEW f \in BOOLEAN, Found(r, f), Kind \in TableKinds,
         \A s \in Steady : Exact(s) => Exact(r) /\ r.id <= s.id /\ ~f,
         Kind = "geocode" /\ ~Exact(r) => f,
         r.number # q.number => /\ Distance(r) <= MaxDistance
                                /\ \A s \in Steady : OnBlock(s) => Distance(r) <= Distance(s)
  PROVE  IInv'
<1>. DEFINE c == IF Kind = "validate" THEN 100
                 ELSE IF f THEN ConfidenceOf(r) \div 2 ELSE ConfidenceOf(r)
<1>1. /\ answer'.row = r /\ answer'.confidence = c /\ answer'.fuzzy = f
      /\ pc' = "done" /\ UNCHANGED <<points, task, cands, always, outage>>
  BY DEF Found, Reply
<1>2. r # Absent /\ answer' # NoMatch
  BY <1>1, AbsentIsNoRow DEF IInv, ShapeInv, NoMatch
<1>3. Steady' = Steady
  BY <1>1 DEF Steady
<1>4. Kind' = Kind /\ q' = q
  BY <1>1 DEF Kind, q
<1>5. ExactRowWins'
  BY <1>1, <1>2, <1>3, <1>4 DEF ExactRowWins, Exact, SameStreet
<1>6. NearestHouseWins'
  BY <1>1, <1>2, <1>3, <1>4 DEF NearestHouseWins, OnBlock, SameStreet, Distance
<1>7. OtherPlacesAreMarked'
  <2>1. ConfidenceOf(r) \in Nat
    BY ConfidenceIsNat
  <2>2. 2 * (ConfidenceOf(r) \div 2) <= ConfidenceOf(r)
    BY <2>1
  <2>3. Kind = "geocode" /\ ~Exact(r) => f /\ c = ConfidenceOf(r) \div 2
    BY DEF TableKinds
  <2>. HIDE DEF c
  <2>4. (Kind = "geocode" /\ ~Exact(r)) => f /\ 2 * c <= ConfidenceOf(r)
    BY <2>2, <2>3
  <2>. QED BY <1>1, <1>4, <2>4 DEF OtherPlacesAreMarked, Answered, Exact, SameStreet
<1>8. NoMatchIsTrue'
  BY <1>1, <1>2, <1>4 DEF NoMatchIsTrue, Answered, TableKinds
<1>9. NoBetterCandidate'
  BY <1>1, <1>4 DEF NoBetterCandidate, Answered, TableKinds
<1>. QED BY <1>1, <1>5, <1>6, <1>7, <1>8, <1>9, Replying DEF Found

(* The answer NO_MATCH of a staging table. *)
LEMMA ReplyingNoMatch ==
  ASSUME IInv, Reply(NoMatch), Kind \in TableKinds,
         q # Absent /\ q.zip # Absent => \A r \in Steady : ~Exact(r),
         NoMatchIsTrue'
  PROVE  IInv'
<1>1. answer' = NoMatch /\ pc' = "done" /\ UNCHANGED <<points, task, cands, always, outage>>
  BY DEF Reply
<1>2. answer'.row = Absent
  BY <1>1 DEF NoMatch
<1>3. Steady' = Steady /\ Kind' = Kind /\ q' = q
  BY <1>1 DEF Steady, Kind, q
<1>4. ExactRowWins'
  BY <1>1, <1>3 DEF ExactRowWins, Exact, SameStreet
<1>5. NearestHouseWins' /\ OtherPlacesAreMarked' /\ NoBetterCandidate'
  BY <1>2 DEF NearestHouseWins, OtherPlacesAreMarked, NoBetterCandidate
<1>. QED BY <1>4, <1>5, Replying

-----------------------------------------------------------------------------
LEMMA ParseAddressKeeps == IInv /\ ParseAddress => IInv'
<1>. SUFFICES ASSUME IInv, ParseAddress PROVE IInv'
  OBVIOUS
<1>1. CASE Kind = "tiger"
  <2>1. Goto("tiger")
    BY <1>1 DEF ParseAddress
  <2>2. ShapeInv' /\ SearchInv'
    BY <1>1, <2>1 DEF IInv, ShapeInv, SearchInv, Goto, Kind, q
  <2>. QED BY <2>1, <2>2, GoingOn
<1>2. CASE Kind = "fuzzy"
  <2>1. Goto("query")
    BY <1>2 DEF ParseAddress
  <2>2. ShapeInv' /\ SearchInv'
    BY <1>2, <2>1 DEF IInv, ShapeInv, SearchInv, Goto, Kind, q
  <2>. QED BY <2>1, <2>2, GoingOn
<1>3. CASE Kind \in TableKinds /\ (q = Absent \/ q.zip = Absent)
  <2>1. Reply(NoMatch)
    BY <1>3 DEF ParseAddress, TableKinds
  <2>2. NoMatchIsTrue'
    BY <1>3, <2>1 DEF NoMatchIsTrue, Answered, Reply, Kind, q, TableKinds
  <2>. QED BY <1>3, <2>1, <2>2, ReplyingNoMatch
<1>4. CASE Kind \in TableKinds /\ ~(q = Absent \/ q.zip = Absent)
  <2>1. Goto("exact")
    BY <1>4 DEF ParseAddress, TableKinds
  <2>2. ShapeInv' /\ SearchInv'
    BY <1>4, <2>1 DEF IInv, ShapeInv, SearchInv, Goto, Kind, q
  <2>. QED BY <2>1, <2>2, GoingOn
<1>5. Kind \in TableKinds \cup {"fuzzy", "tiger"}
  BY DEF IInv, ShapeInv, Tasks, Kind, TableKinds
<1>. QED BY <1>1, <1>2, <1>3, <1>4, <1>5

(* On to the ZIP prefixes, or NO_MATCH for a whole ZIP. *)
LEMMA ToPrefixKeeps ==
  ASSUME IInv, ToPrefix, Kind \in TableKinds, q # Absent, q.zip # Absent,
         \A r \in Steady : ~Exact(r),
         Kind = "geocode" /\ IsNumeric(q.number) =>
           \A r \in Steady : OnBlock(r) => Distance(r) > MaxDistance
  PROVE  IInv'
<1>1. CASE Len(q.zip) < 5
  <2>1. Goto("prefix")
    BY <1>1 DEF ToPrefix
  <2>2. Steady' = Steady /\ Kind' = Kind /\ q' = q
    BY <2>1 DEF Goto, Steady, Kind, q
  <2>3. ShapeInv'
    BY <1>1, <2>1 DEF IInv, ShapeInv, Goto, Kind, q
  <2>4. SearchInv'
    BY <2>1, <2>2 DEF SearchInv, Goto, Exact, SameStreet, OnBlock, Distance
  <2>. QED BY <2>1, <2>3, <2>4, GoingOn
<1>2. CASE ~(Len(q.zip) < 5)
  <2>1. Reply(NoMatch)
    BY <1>2 DEF ToPrefix
  <2>2. Steady' = Steady /\ Kind' = Kind /\ q' = q
    BY <2>1 DEF Reply, Steady, Kind, q
  <2>3. NoMatchIsTrue'
    BY <1>2, <2>2 DEF NoMatchIsTrue, Answered, TableKinds, Exact, SameStreet, OnBlock, Distance
  <2>. QED BY <2>1, <2>3, ReplyingNoMatch
<1>. QED BY <1>1, <1>2

LEMMA SteadyIsInTable == ASSUME IInv PROVE Steady \subseteq Table
BY DEF IInv, ShapeInv, Steady, Table

LEMMA FindMatchKeeps == IInv /\ FindMatch => IInv'
<1>. SUFFICES ASSUME IInv, FindMatch PROVE IInv'
  OBVIOUS
<1>. DEFINE hits == {r \in Table : Exact(r)}
<1>1. pc = "exact" /\ Kind \in TableKinds /\ q # Absent /\ q.zip # Absent
  BY DEF FindMatch, IInv, ShapeInv
<1>2. CASE hits # {}
  <2>1. PICK r \in hits : (\A s \in hits : r.id <= s.id) /\ Found(r, FALSE)
    BY <1>2 DEF FindMatch
  <2>2. r \in points /\ Exact(r) /\ r.number = q.number
    BY DEF Table, Exact
  <2>3. \A s \in Steady : Exact(s) => r.id <= s.id
    BY <2>1, SteadyIsInTable
  <2>. QED BY <1>1, <2>1, <2>2, <2>3, ReplyingRow
<1>3. CASE hits = {}
  <2>1. \A r \in Steady : ~Exact(r)
    BY <1>3, SteadyIsInTable
  <2>2. CASE Kind = "validate"
    <3>1. ToPrefix
      BY <1>3, <2>2 DEF FindMatch
    <3>. QED BY <1>1, <2>1, <2>2, <3>1, ToPrefixKeeps
  <2>3. CASE Kind = "geocode"
    <3>1. Goto("nearest")
      BY <1>3, <2>3 DEF FindMatch
    <3>2. Steady' = Steady /\ Kind' = Kind /\ q' = q
      BY <3>1 DEF Goto, Steady, Kind, q
    <3>3. ShapeInv'
      BY <1>1, <2>3, <3>1 DEF IInv, ShapeInv, Goto, Kind, q
    <3>4. SearchInv'
      BY <2>1, <3>1, <3>2 DEF SearchInv, Goto, Exact, SameStreet
    <3>. QED BY <3>1, <3>3, <3>4, GoingOn
  <2>. QED BY <1>1, <2>2, <2>3 DEF TableKinds
<1>. QED BY <1>2, <1>3

LEMMA FindFuzzyMatchKeeps == IInv /\ FindFuzzyMatch => IInv'
<1>. SUFFICES ASSUME IInv, FindFuzzyMatch PROVE IInv'
  OBVIOUS
<1>. DEFINE block   == {r \in Table : OnBlock(r)}
            nearest == {r \in block : \A s \in block : Distance(r) <= Distance(s)}
<1>1. pc = "nearest" /\ Kind = "geocode" /\ q # Absent /\ q.zip # Absent
  BY DEF FindFuzzyMatch, IInv, ShapeInv
<1>2. \A r \in Steady : ~Exact(r)
  BY <1>1 DEF IInv, SearchInv
<1>3. CASE ~IsNumeric(q.number)
  <2>1. ToPrefix
    BY <1>3 DEF FindFuzzyMatch
  <2>. QED BY <1>1, <1>2, <1>3, <2>1, ToPrefixKeeps DEF TableKinds
<1>4. CASE Reply(Failed)
  <2>1. answer'.row = Absent /\ answer' # NoMatch /\ pc' = "done" /\ Kind' = Kind
    BY <1>4 DEF Reply, Failed, NoMatch, Kind
  <2>2. Steady' = Steady /\ q' = q
    BY <1>4 DEF Reply, Steady, q
  <2>3. ExactRowWins'
    BY <1>2, <2>2 DEF ExactRowWins, Exact, SameStreet
  <2>4. NearestHouseWins' /\ OtherPlacesAreMarked' /\ NoBetterCandidate'
    BY <2>1 DEF NearestHouseWins, OtherPlacesAreMarked, NoBetterCandidate
  <2>5. NoMatchIsTrue'
    BY <2>1 DEF NoMatchIsTrue
  <2>. QED BY <1>4, <2>3, <2>4, <2>5, Replying
<1>5. CASE /\ IsNumeric(q.number)
           /\ \E x \in block : ~(Distance(x) > MaxDistance)
           /\ \E r \in nearest : Found(r, TRUE)
  <2>1. PICK x \in block, r \in nearest : ~(Distance(x) > MaxDistance) /\ Found(r, TRUE)
    BY <1>5
  <2>2. r \in points
    BY DEF Table
  <2>3. Distance(r) <= MaxDistance
    <3>1. Distance(x) \in Int /\ Distance(r) \in Int
      BY <1>5 DEF Distance, OnBlock, IsNumeric
    <3>. QED BY <2>1, <3>1, NumbersAreNat
  <2>4. \A s \in Steady : OnBlock(s) => Distance(r) <= Distance(s)
    BY SteadyIsInTable
  <2>. QED BY <1>1, <1>2, <2>1, <2>2, <2>3, <2>4, ReplyingRow DEF TableKinds
<1>6. CASE IsNumeric(q.number) /\ ToPrefix /\ \A r \in block : Distance(r) > MaxDistance
  <2>1. \A r \in Steady : OnBlock(r) => Distance(r) > MaxDistance
    BY <1>6, SteadyIsInTable
  <2>. QED BY <1>1, <1>2, <1>6, <2>1, ToPrefixKeeps DEF TableKinds
<1>. QED BY <1>3, <1>4, <1>5, <1>6 DEF FindFuzzyMatch

LEMMA FindByPrefixKeeps ==
  ASSUME IInv,
         NEW l \in {"prefix", "prefix3"}, NEW n \in {3, 4},
         l = "prefix" <=> n = 4, FindByPrefix(l, n)
  PROVE  IInv'
<1>. DEFINE hits == {r \in Table : Prefixed(r, n)}
<1>1. pc = l /\ Kind \in TableKinds /\ q # Absent /\ q.zip # Absent /\ Len(q.zip) < 5
  BY DEF FindByPrefix, IInv, ShapeInv
<1>2. \A r \in Steady : ~Exact(r)
  BY <1>1 DEF IInv, SearchInv
<1>3. CASE hits # {}
  <2>1. PICK r \in hits : Found(r, Kind = "geocode")
    BY <1>3 DEF FindByPrefix
  <2>2. r \in points /\ r.number = q.number
    BY DEF Table, Prefixed
  <2>3. CASE Kind = "geocode"
    <3>1. Found(r, TRUE)
      BY <2>1, <2>3
    <3>. QED BY <1>1, <1>2, <2>2, <3>1, ReplyingRow
  <2>4. CASE Kind = "validate"
    <3>1. Found(r, FALSE)
      BY <2>1, <2>4
    <3>. QED BY <1>1, <1>2, <2>2, <2>4, <3>1, ReplyingRow
  <2>. QED BY <1>1, <2>3, <2>4 DEF TableKinds
<1>4. CASE hits = {} /\ l = "prefix" /\ Len(q.zip) >= 3
  <2>1. Goto("prefix3")
    BY <1>4 DEF FindByPrefix
  <2>2. \A r \in Steady : ~Prefixed(r, 4)
    BY <1>4, SteadyIsInTable
  <2>3. Steady' = Steady /\ Kind' = Kind /\ q' = q
    BY <2>1 DEF Goto, Steady, Kind, q
  <2>4. ShapeInv'
    BY <1>1, <2>1 DEF IInv, ShapeInv, Goto, Kind, q
  <2>5. SearchInv'
    BY <1>1, <1>2, <2>1, <2>2, <2>3
    DEF IInv, SearchInv, Goto, Exact, SameStreet, OnBlock, Distance, Prefixed
  <2>. QED BY <2>1, <2>4, <2>5, GoingOn
<1>5. CASE hits = {} /\ ~(l = "prefix" /\ Len(q.zip) >= 3)
  <2>1. Reply(NoMatch)
    BY <1>5 DEF FindByPrefix
  <2>2. Steady' = Steady /\ Kind' = Kind /\ q' = q
    BY <2>1 DEF Reply, Steady, Kind, q
  <2>3. \A r \in Steady : ~Prefixed(r, n)
    BY <1>5, SteadyIsInTable
  <2>4. \A r \in Steady : ~Prefixed(r, 4) /\ (Len(q.zip) >= 3 => ~Prefixed(r, 3))
    BY <1>1, <1>5, <2>3 DEF IInv, SearchInv
  <2>5. Kind = "geocode" /\ IsNumeric(q.number) =>
          \A r \in Steady : OnBlock(r) => Distance(r) > MaxDistance
    BY <1>1 DEF IInv, SearchInv
  <2>6. NoMatchIsTrue'
    BY <1>1, <1>2, <2>2, <2>4, <2>5
    DEF NoMatchIsTrue, Answered, TableKinds, Exact, SameStreet, OnBlock, Distance, Prefixed
  <2>. QED BY <1>1, <1>2, <2>1, <2>6, ReplyingNoMatch
<1>. QED BY <1>3, <1>4, <1>5

-----------------------------------------------------------------------------
(* The answer of the fuzzy matcher. *)
LEMMA ReplyingFuzzy ==
  ASSUME IInv, NEW a, Reply(a), Kind = "fuzzy",
         a = NoMatch => q = Absent \/ \A r \in always : ~Similar(r),
         a.row # Absent => \A r \in always :
           Similar(r) /\ Sound[r.street] >= Sound[a.row.street] =>
             Score[r.street] <= Score[a.row.street]
  PROVE  IInv'
<1>1. answer' = a /\ UNCHANGED <<points, task, cands, always, outage>>
  BY DEF Reply
<1>2. Kind' = Kind /\ q' = q
  BY <1>1 DEF Kind, q
<1>3. ExactRowWins' /\ NearestHouseWins' /\ OtherPlacesAreMarked'
  BY <1>2 DEF ExactRowWins, NearestHouseWins, OtherPlacesAreMarked, Answered
<1>4. NoMatchIsTrue'
  BY <1>1, <1>2 DEF NoMatchIsTrue, Answered, Similar, InZip
<1>5. NoBetterCandidate'
  BY <1>1, <1>2 DEF NoBetterCandidate, Similar, InZip
<1>. QED BY <1>3, <1>4, <1>5, Replying

LEMMA QueryCandidatesKeeps == IInv /\ QueryCandidates => IInv'
<1>. SUFFICES ASSUME IInv, QueryCandidates PROVE IInv'
  OBVIOUS
<1>. DEFINE hits == {r \in points : Similar(r)}
<1>1. pc = "query" /\ Kind = "fuzzy"
  BY DEF QueryCandidates, IInv, ShapeInv
<1>2. CASE Reply(NoMatch) /\ (q = Absent \/ hits = {})
  <2>1. NoMatch.row = Absent
    BY DEF NoMatch
  <2>2. q = Absent \/ \A r \in always : ~Similar(r)
    BY <1>2 DEF IInv, ShapeInv
  <2>. QED BY <1>1, <1>2, <2>1, <2>2, ReplyingFuzzy
<1>3. CASE \E c \in SUBSET hits :
             /\ Cardinality(c) = IF Cardinality(hits) < Limit THEN Cardinality(hits) ELSE Limit
             /\ \A r \in c, s \in hits \ c : Score[r.street] >= Score[s.street]
             /\ cands' = c /\ pc' = "tiebreak" /\ hits # {}
             /\ UNCHANGED <<points, task, answer, always, outage>>
  <2>1. PICK c \in SUBSET hits :
             /\ Cardinality(c) = IF Cardinality(hits) < Limit THEN Cardinality(hits) ELSE Limit
             /\ \A r \in c, s \in hits \ c : Score[r.street] >= Score[s.street]
             /\ cands' = c /\ pc' = "tiebreak" /\ hits # {}
             /\ UNCHANGED <<points, task, answer, always, outage>>
    BY <1>3
  <2>2. Kind' = Kind /\ q' = q
    BY <2>1 DEF Kind, q
  <2>3. ShapeInv'
    BY <1>1, <2>1, <2>2 DEF IInv, ShapeInv
  <2>4. SearchInv'
    BY <2>1 DEF SearchInv
  <2>5. \A r \in always : Similar(r) => r \in hits
    BY DEF IInv, ShapeInv
  <2>6. \A r \in always : Similar(r) =>
          r \in c \/ \A s \in c : Score[s.street] >= Score[r.street]
    BY <2>1, <2>5
  <2>7. CandsInv'
    BY <2>1, <2>2, <2>6 DEF CandsInv, Similar, InZip
  <2>8. /\ ExactRowWins' /\ NearestHouseWins' /\ OtherPlacesAreMarked'
        /\ NoMatchIsTrue' /\ NoBetterCandidate'
    BY <2>1 DEF ExactRowWins, NearestHouseWins, OtherPlacesAreMarked, NoMatchIsTrue,
       NoBetterCandidate, Answered
  <2>. QED BY <2>3, <2>4, <2>7, <2>8 DEF IInv
<1>. QED BY <1>1, <1>2, <1>3 DEF QueryCandidates

(* A candidate that no other both outscores and sounds as close as. *)
LEMMA FuzzyFoundKeeps ==
  ASSUME IInv, pc = "tiebreak", NEW w \in cands, FuzzyFound(w),
         \A s \in cands : Sound[s.street] >= Sound[w.street] =>
           Score[s.street] <= Score[w.street]
  PROVE  IInv'
<1>. DEFINE a == [row |-> w, confidence |-> FuzzyConfidence(w), fuzzy |-> TRUE]
<1>1. Kind = "fuzzy" /\ cands \subseteq Points /\ always \subseteq Points
  BY DEF IInv, ShapeInv
<1>2. Reply(a) /\ a.row = w
  BY DEF FuzzyFound
<1>3. a # NoMatch
  BY <1>1, AbsentIsNoRow DEF NoMatch
<1>4. ASSUME NEW r \in always, Similar(r), Sound[r.street] >= Sound[w.street]
      PROVE  Score[r.street] <= Score[w.street]
  <2>1. r \in cands \/ Score[w.street] >= Score[r.street]
    BY <1>4 DEF IInv, CandsInv
  <2>2. CASE r \in cands
    BY <1>4, <2>2
  <2>3. CASE Score[w.street] >= Score[r.street]
    <3>1. Score[w.street] \in Int /\ Score[r.street] \in Int
      BY <1>1, PointsAreRows, ScoresAreHundredths
    <3>. QED BY <2>3, <3>1
  <2>. QED BY <2>1, <2>2, <2>3
<1>. HIDE DEF a
<1>. QED BY <1>1, <1>2, <1>3, <1>4, ReplyingFuzzy

LEMMA PickFuzzyKeeps == IInv /\ PickFuzzy => IInv'
<1>. SUFFICES ASSUME IInv, PickFuzzy PROVE IInv'
  OBVIOUS
<1>1. pc = "tiebreak"
  BY DEF PickFuzzy
<1>2. \A s \in cands : Score[s.street] \in Int /\ Sound[s.street] \in Int
  <2>1. \A s \in cands : s.street \in Words
    BY PointsAreRows DEF IInv, ShapeInv
  <2>2. \A w \in Words : Score[w] \in Int /\ Sound[w] \in Int
    BY ScoresAreHundredths
  <2>. QED BY <2>1, <2>2
<1>3. CASE \E top \in Highest(cands) : FuzzyFound(top)
  <2>1. PICK top \in Highest(cands) : FuzzyFound(top)
    BY <1>3
  <2>2. top \in cands /\ \A s \in cands : Score[top.street] >= Score[s.street]
    BY DEF Highest
  <2>3. \A s \in cands : Score[s.street] <= Score[top.street]
    BY <1>2, <2>2
  <2>. QED BY <1>1, <2>1, <2>2, <2>3, FuzzyFoundKeeps
<1>4. CASE \E r \in cands : (\A s \in cands : Outranks(r, s)) /\ FuzzyFound(r)
  <2>1. PICK r \in cands : (\A s \in cands : Outranks(r, s)) /\ FuzzyFound(r)
    BY <1>4
  <2>2. ASSUME NEW s \in cands, Sound[s.street] >= Sound[r.street]
        PROVE  Score[s.street] <= Score[r.street]
    <3>1. \/ Sound[r.street] > Sound[s.street]
          \/ Sound[r.street] = Sound[s.street] /\ Score[r.street] >= Score[s.street]
      BY <2>1 DEF Outranks, Rank
    <3>. QED BY <1>2, <2>2, <3>1
  <2>. QED BY <1>1, <2>1, <2>2, FuzzyFoundKeeps
<1>. QED BY <1>3, <1>4 DEF PickFuzzy

-----------------------------------------------------------------------------
LEMMA TigerKeeps ==
  ASSUME IInv, TigerValidate \/ \E c \in Counties : TigerGeocode(c)
  PROVE  IInv'
<1>1. pc = "tiger"
  BY DEF TigerValidate, TigerGeocode
<1>2. Kind \notin TableKinds \cup {"fuzzy"}
  BY <1>1 DEF IInv, ShapeInv, TableKinds
<1>3. \E a : Reply(a)
  BY DEF TigerValidate, TigerGeocode
<1>4. PICK a : Reply(a)
  BY <1>3
<1>. QED BY <1>2, <1>4, ReplyingElse

LEMMA LookupKeeps == IInv /\ Lookup => IInv'
<1>1. FindByPrefix("prefix", 4) /\ IInv => IInv'
  BY FindByPrefixKeeps
<1>2. FindByPrefix("prefix3", 3) /\ IInv => IInv'
  BY FindByPrefixKeeps
<1>. QED BY <1>1, <1>2, FindMatchKeeps, FindFuzzyMatchKeeps DEF Lookup

(* After an outage nothing is said of the answer. *)
LEMMA InterruptedKeeps == IInv /\ Interrupted => IInv'
<1>. SUFFICES ASSUME IInv, Interrupted PROVE IInv'
  OBVIOUS
<1>1. pc' = "done" /\ outage' = TRUE /\ UNCHANGED <<points, task, cands, always>>
  BY DEF Interrupted
<1>2. ShapeInv'
  BY <1>1 DEF IInv, ShapeInv, Kind, q
<1>3. SearchInv' /\ CandsInv'
  BY <1>1 DEF SearchInv, CandsInv
<1>4. /\ ExactRowWins' /\ NearestHouseWins' /\ OtherPlacesAreMarked'
      /\ NoMatchIsTrue' /\ NoBetterCandidate'
  BY <1>1 DEF ExactRowWins, NearestHouseWins, OtherPlacesAreMarked, NoMatchIsTrue,
     NoBetterCandidate, Answered
<1>. QED BY <1>2, <1>3, <1>4 DEF IInv

(* A load can only take rows from those that were there all the time, and  *)
(* the lookup goes on from what it has made sure of.                       *)
LEMMA LoadCommitsKeeps == ASSUME IInv, NEW r \in Points, LoadCommits(r) PROVE IInv'
<1>1. /\ pc # "done" /\ pc' = pc /\ task' = task /\ cands' = cands
      /\ points' \subseteq Points /\ always' \subseteq points' /\ always' \subseteq always
  BY DEF LoadCommits, IInv, ShapeInv
<1>2. Steady' \subseteq Steady /\ Kind' = Kind /\ q' = q
  BY <1>1 DEF Steady, Kind, q
<1>3. ShapeInv'
  BY <1>1, <1>2 DEF IInv, ShapeInv
<1>4. SearchInv'
  BY <1>1, <1>2 DEF IInv, SearchInv, Exact, SameStreet, OnBlock, Distance, Prefixed
<1>5. CandsInv'
  BY <1>1, <1>2 DEF IInv, CandsInv, Similar, InZip
<1>6. /\ ExactRowWins' /\ NearestHouseWins' /\ OtherPlacesAreMarked'
      /\ NoMatchIsTrue' /\ NoBetterCandidate'
  BY <1>1 DEF ExactRowWins, NearestHouseWins, OtherPlacesAreMarked, NoMatchIsTrue,
     NoBetterCandidate, Answered
<1>. QED BY <1>3, <1>4, <1>5, <1>6 DEF IInv

LEMMA StutterKeeps == ASSUME IInv, UNCHANGED vars PROVE IInv'
<1>1. Steady' = Steady /\ Kind' = Kind /\ q' = q
  BY DEF vars, Steady, Kind, q
<1>2. ShapeInv' /\ CandsInv'
  BY <1>1 DEF vars, IInv, ShapeInv, CandsInv, Similar, InZip
<1>3. SearchInv'
  BY <1>1 DEF vars, IInv, SearchInv, Exact, SameStreet, OnBlock, Distance, Prefixed
<1>4. ExactRowWins' /\ NearestHouseWins'
  BY <1>1 DEF vars, IInv, ExactRowWins, NearestHouseWins, Answered, Exact, SameStreet,
     OnBlock, Distance
<1>5. OtherPlacesAreMarked' /\ NoBetterCandidate'
  BY <1>1 DEF vars, IInv, OtherPlacesAreMarked, NoBetterCandidate, Answered, Exact, SameStreet,
     Similar, InZip
<1>6. NoMatchIsTrue'
  BY <1>1 DEF vars, IInv, NoMatchIsTrue, Answered, Exact, SameStreet, OnBlock, Distance,
     Prefixed, Similar, InZip
<1>. QED BY <1>2, <1>3, <1>4, <1>5, <1>6 DEF IInv

LEMMA Inductive == IInv /\ [Next]_vars => IInv'
<1>. SUFFICES ASSUME IInv, [Next]_vars PROVE IInv'
  OBVIOUS
<1>1. CASE OaGeocode \/ OaValidate \/ NadGeocode \/ NadValidate \/ MaconGeocode \/ MaconValidate
  BY <1>1, LookupKeeps DEF OaGeocode, OaValidate, NadGeocode, NadValidate, MaconGeocode,
     MaconValidate, OaLookup, NadLookup, MaconLookup
<1>2. CASE TigerValidate \/ \E c \in Counties : TigerGeocode(c)
  BY <1>2, TigerKeeps
<1>3. CASE \E r \in Points : LoadCommits(r)
  BY <1>3, LoadCommitsKeeps
<1>4. CASE UNCHANGED vars
  BY <1>4, StutterKeeps
<1>. QED BY <1>1, <1>2, <1>3, <1>4, ParseAddressKeeps, QueryCandidatesKeeps, PickFuzzyKeeps,
   InterruptedKeeps DEF Next, Proceed

(* What holds at every statement of a lookup, whatever is loaded meanwhile *)
(* (_find_oa_match, _find_oa_fuzzy_match, find_fuzzy_match).               *)
THEOREM LookupInvariant == Spec => []IInv
BY Initial, Inductive, PTL DEF Spec

-----------------------------------------------------------------------------
(* Types.  The confidence of a fuzzy answer depends on its score being     *)
(* above the threshold.                                                    *)
TypeInv == TypeOK /\ \A r \in cands : Score[r.street] >= Threshold

LEMMA ConfidenceIsHundredths == \A r : ConfidenceOf(r) \in 10 .. 100
BY DEF ConfidenceOf, OaConfidence, NadConfidence, MaconConfidence

(* 0.50 at the threshold, 0.75 for the same word. *)
LEMMA FuzzyConfidenceIsBounded ==
  ASSUME NEW r \in Points, Score[r.street] >= Threshold
  PROVE  FuzzyConfidence(r) \in 50 .. 75
<1>. DEFINE s == Score[r.street]   d == 100 - Threshold   n == (s - Threshold) * 25
<1>1. s \in 0 .. 100 /\ Threshold \in 0 .. 99 /\ s >= Threshold
  <2>1. r.street \in Words
    BY PointsAreRows
  <2>. QED BY <2>1, ScoresAreHundredths, NumbersAreNat
<1>. HIDE DEF s
<1>2. d \in 1 .. 100 /\ s - Threshold \in 0 .. d
  BY <1>1, SMT
<1>3. n \in Nat /\ n <= 25 * d
  BY <1>2
<1>4. n \div d \in 0 .. 25
  <2>. HIDE DEF n, d
  <2>. DEFINE k == n \div d
  <2>1. k \in Int /\ d * k <= n /\ n < d * k + d
    BY <1>2, <1>3, SMT
  <2>. HIDE DEF k
  <2>2. ~(k < 0)
    <3>1. k < 0 => d * k + d <= 0
      BY <1>2, <2>1, SMT
    <3>. QED
      BY <1>2, <1>3, <2>1, <3>1, SMT
  <2>3. ~(k > 25)
    <3>1. k > 25 => d * k >= d * 26
      BY <1>2, <2>1, SMT
    <3>. QED
      BY <1>2, <1>3, <2>1, <3>1, SMT
  <2>. QED
    BY <2>1, <2>2, <2>3 DEF k
<1>5. FuzzyConfidence(r) = 50 + n \div d
  BY DEF FuzzyConfidence, s
<1>. HIDE DEF n, d
<1>. QED BY <1>4, <1>5

LEMMA ReplyingTyped ==
  ASSUME TypeInv, NEW a, Reply(a), a.row \in Points \cup TigerRows \cup {Absent},
         a.confidence \in -1 .. 100, a.fuzzy \in BOOLEAN
  PROVE  TypeInv'
BY DEF TypeInv, TypeOK, Reply, IsTable

LEMMA NoAnswerIsTyped ==
  ASSUME TypeInv, Reply(NoMatch) \/ Reply(Failed)
  PROVE  TypeInv'
<1>1. /\ NoMatch.row = Absent /\ Failed.row = Absent
      /\ NoMatch.confidence = 0 /\ Failed.confidence = -1
  BY DEF NoMatch, Failed
<1>2. NoMatch.fuzzy = FALSE /\ Failed.fuzzy = FALSE
  BY Zenon DEF NoMatch, Failed
<1>3. 0 \in -1 .. 100 /\ -1 \in -1 .. 100
  OBVIOUS
<1>4. \A a \in {NoMatch, Failed} :
        /\ a.row \in Points \cup TigerRows \cup {Absent}
        /\ a.confidence \in -1 .. 100 /\ a.fuzzy \in BOOLEAN
  BY <1>1, <1>2, <1>3, Zenon
<1>. QED BY <1>4, ReplyingTyped

LEMMA GoingOnTyped ==
  ASSUME TypeInv, NEW l \in {"exact", "nearest", "prefix", "prefix3", "query", "tiger"}, Goto(l)
  PROVE  TypeInv'
BY DEF TypeInv, TypeOK, Goto, IsTable

LEMMA ToPrefixTyped == ASSUME TypeInv, ToPrefix PROVE TypeInv'
BY GoingOnTyped, NoAnswerIsTyped DEF ToPrefix

LEMMA FoundTyped ==
  ASSUME TypeInv, NEW r \in points, NEW f \in BOOLEAN, Found(r, f)
  PROVE  TypeInv'
<1>. DEFINE c == IF Kind = "validate" THEN 100
                 ELSE IF f THEN ConfidenceOf(r) \div 2 ELSE ConfidenceOf(r)
            a == [row |-> r, confidence |-> c, fuzzy |-> f]
<1>1. ConfidenceOf(r) \in 10 .. 100
  BY ConfidenceIsHundredths
<1>2. c \in -1 .. 100
  BY <1>1
<1>3. r \in Points
  BY DEF TypeInv, TypeOK
<1>4. Reply(a)
  BY DEF Found
<1>. HIDE DEF c
<1>5. a.row = r /\ a.confidence = c /\ a.fuzzy = f
  OBVIOUS
<1>. HIDE DEF a
<1>. QED BY <1>2, <1>3, <1>4, <1>5, ReplyingTyped

LEMMA LookupTyped == ASSUME TypeInv, Lookup PROVE TypeInv'
<1>1. CASE FindMatch
  <2>1. \/ \E r \in points : Found(r, FALSE)
        \/ ToPrefix \/ Goto("nearest")
    BY <1>1 DEF FindMatch, Table
  <2>. QED BY <2>1, FoundTyped, ToPrefixTyped, GoingOnTyped
<1>2. CASE FindFuzzyMatch
  <2>1. \/ \E r \in points : Found(r, TRUE)
        \/ ToPrefix \/ Reply(Failed)
    BY <1>2 DEF FindFuzzyMatch, Table
  <2>. QED BY <2>1, FoundTyped, ToPrefixTyped, NoAnswerIsTyped
<1>3. ASSUME NEW l, NEW n, FindByPrefix(l, n)
      PROVE  TypeInv'
  <2>1. \/ \E r \in points : Found(r, Kind = "geocode")
        \/ Goto("prefix3") \/ Reply(NoMatch)
    BY <1>3 DEF FindByPrefix, Table
  <2>2. (Kind = "geocode") \in BOOLEAN
    OBVIOUS
  <2>. QED BY <2>1, <2>2, FoundTyped, NoAnswerIsTyped, GoingOnTyped
<1>. QED BY <1>1, <1>2, <1>3 DEF Lookup

(* LIMIT bounds what the query returns, since tables are finite. *)
LEMMA QueryTyped == ASSUME TypeInv, QueryCandidates PROVE TypeInv'
<1>. DEFINE hits == {r \in points : Similar(r)}
<1>1. CASE Reply(NoMatch)
  BY <1>1, NoAnswerIsTyped
<1>2. CASE \E c \in SUBSET hits :
             /\ Cardinality(c) = IF Cardinality(hits) < Limit THEN Cardinality(hits) ELSE Limit
             /\ cands' = c /\ pc' = "tiebreak"
             /\ UNCHANGED <<points, task, answer, always, outage>>
  <2>1. PICK c \in SUBSET hits :
             /\ Cardinality(c) = IF Cardinality(hits) < Limit THEN Cardinality(hits) ELSE Limit
             /\ cands' = c /\ pc' = "tiebreak"
             /\ UNCHANGED <<points, task, answer, always, outage>>
    BY <1>2
  <2>2. hits \subseteq Points
    BY DEF TypeInv, TypeOK
  <2>3. IsFiniteSet(hits)
    BY <2>2, FS_Subset, TablesAreFinite
  <2>4. Cardinality(hits) \in Nat
    BY <2>3, FS_CardinalityType
  <2>5. Cardinality(c) <= Limit
    BY <2>1, <2>4, NumbersAreNat
  <2>6. \A r \in c : Score[r.street] >= Threshold
    BY DEF Similar
  <2>. QED BY <2>1, <2>2, <2>5, <2>6 DEF TypeInv, TypeOK, IsTable
<1>. QED BY <1>1, <1>2 DEF QueryCandidates

LEMMA PickFuzzyTyped == ASSUME TypeInv, PickFuzzy PROVE TypeInv'
<1>1. PICK r \in cands : FuzzyFound(r)
  BY DEF PickFuzzy, Highest
<1>2. r \in Points /\ FuzzyConfidence(r) \in 50 .. 75
  BY FuzzyConfidenceIsBounded DEF TypeInv, TypeOK
<1>. DEFINE a == [row |-> r, confidence |-> FuzzyConfidence(r), fuzzy |-> TRUE]
<1>3. Reply(a)
  BY <1>1 DEF FuzzyFound
<1>4. a.row = r /\ a.confidence = FuzzyConfidence(r) /\ a.fuzzy = TRUE
  OBVIOUS
<1>. HIDE DEF a
<1>5. a.confidence \in -1 .. 100
  BY <1>2, <1>4
<1>. QED BY <1>2, <1>3, <1>4, <1>5, ReplyingTyped

(* A rating is clamped to 0 and 100. *)
LEMMA RatingIsHundredths == \A n \in Int : RatingConfidence(n) \in 0 .. 100
BY DEF RatingConfidence

LEMMA TigerTyped ==
  ASSUME TypeInv, TigerValidate \/ \E c \in Counties : TigerGeocode(c)
  PROVE  TypeInv'
<1>1. CASE Reply(NoMatch)
  BY <1>1, NoAnswerIsTyped
<1>2. CASE \E r \in TigerRows :
             Reply([row |-> r, confidence |-> RatingConfidence(r.rating), fuzzy |-> FALSE])
  <2>1. PICK r \in TigerRows :
             Reply([row |-> r, confidence |-> RatingConfidence(r.rating), fuzzy |-> FALSE])
    BY <1>2
  <2>2. RatingConfidence(r.rating) \in -1 .. 100
    BY RatingIsHundredths, RatingsAreInt
  <2>. DEFINE a == [row |-> r, confidence |-> RatingConfidence(r.rating), fuzzy |-> FALSE]
  <2>3. a.row = r /\ a.confidence = RatingConfidence(r.rating) /\ a.fuzzy = FALSE
    OBVIOUS
  <2>4. Reply(a)
    BY <2>1
  <2>. HIDE DEF a
  <2>. QED BY <2>2, <2>3, <2>4, ReplyingTyped
<1>3. CASE TigerValidate
  <2>1. PICK c \in {0, 40} : Reply([row |-> Absent, confidence |-> c, fuzzy |-> FALSE])
    BY <1>3 DEF TigerValidate
  <2>. DEFINE a == [row |-> Absent, confidence |-> c, fuzzy |-> FALSE]
  <2>2. a.row = Absent /\ a.confidence = c /\ a.fuzzy = FALSE
    OBVIOUS
  <2>3. Reply(a) /\ c \in -1 .. 100
    BY <2>1
  <2>. HIDE DEF a
  <2>. QED BY <2>2, <2>3, ReplyingTyped
<1>. QED BY <1>1, <1>2, <1>3 DEF TigerGeocode

LEMMA LoadCommitsTyped ==
  ASSUME TypeInv, NEW r \in Points, LoadCommits(r)
  PROVE  TypeInv'
<1>1. /\ points' = {s \in points : s.source # r.source \/ s.id # r.id} \cup {r}
      /\ always' \subseteq points' /\ always' \subseteq always
      /\ UNCHANGED <<task, pc, cands, answer, outage>>
  BY DEF LoadCommits
<1>2. points' \subseteq Points /\ IsTable(points')
  BY <1>1 DEF TypeInv, TypeOK, IsTable
<1>. QED BY <1>1, <1>2 DEF TypeInv, TypeOK

LEMMA TypesAreKept == TypeInv /\ [Next]_vars => TypeInv'
<1>. SUFFICES ASSUME TypeInv, [Next]_vars PROVE TypeInv'
  OBVIOUS
<1>1. CASE ParseAddress
  <2>1. Kind \in TableKinds \cup {"fuzzy", "tiger"}
    BY DEF TypeInv, TypeOK, Tasks, Kind, TableKinds
  <2>2. Goto("tiger") \/ Goto("query") \/ Goto("exact") \/ Reply(NoMatch)
    BY <1>1, <2>1 DEF ParseAddress, TableKinds
  <2>. QED BY <2>2, GoingOnTyped, NoAnswerIsTyped
<1>2. CASE OaGeocode \/ OaValidate \/ NadGeocode \/ NadValidate \/ MaconGeocode \/ MaconValidate
  BY <1>2, LookupTyped DEF OaGeocode, OaValidate, NadGeocode, NadValidate, MaconGeocode,
     MaconValidate, OaLookup, NadLookup, MaconLookup
<1>3. CASE TigerValidate \/ \E c \in Counties : TigerGeocode(c)
  BY <1>3, TigerTyped
<1>4. CASE Interrupted
  <2>1. /\ pc' = "done" /\ outage' = TRUE /\ UNCHANGED <<points, task, cands, always>>
        /\ answer' = Failed
    BY <1>4 DEF Interrupted
  <2>2. Failed.row = Absent /\ Failed.confidence \in -1 .. 100
    BY DEF Failed
  <2>3. Failed.fuzzy \in BOOLEAN
    BY Zenon DEF Failed
  <2>. QED BY <2>1, <2>2, <2>3 DEF TypeInv, TypeOK, IsTable
<1>5. CASE UNCHANGED vars
  BY <1>5 DEF vars, TypeInv, TypeOK, IsTable
<1>. QED BY <1>1, <1>2, <1>3, <1>4, <1>5, QueryTyped, PickFuzzyTyped, LoadCommitsTyped
   DEF Next, Proceed

LEMMA TypesInitially == Init => TypeInv
<1>. SUFFICES ASSUME Init PROVE TypeInv
  OBVIOUS
<1>1. NoMatch.row = Absent /\ NoMatch.confidence \in -1 .. 100
  BY DEF NoMatch
<1>2. NoMatch.fuzzy \in BOOLEAN
  BY Zenon DEF NoMatch
<1>3. Cardinality({}) <= Limit
  BY FS_EmptySet, NumbersAreNat
<1>. QED BY <1>1, <1>2, <1>3 DEF Init, TypeInv, TypeOK

(* Tables keep one row for an id while loads change them, the fuzzy query  *)
(* returns at most its LIMIT, and every confidence, scaled, halved or      *)
(* clamped, is between 0 and 1 (_upsert_batch, find_fuzzy_match,           *)
(* TigerGeocodingProvider.geocode).                                        *)
THEOREM LookupTypesHold == Spec => []TypeOK
<1>1. TypeInv => TypeOK
  BY DEF TypeInv
<1>. QED BY <1>1, TypesInitially, TypesAreKept, PTL DEF Spec

-----------------------------------------------------------------------------
(* An address that the table holds throughout is found, in its oldest row, *)
(* and is not called fuzzy (_find_oa_match, _find_nad_match,               *)
(* _find_macon_bibb_match).                                                *)
THEOREM ExactAlwaysWins == Spec => []ExactRowWins
<1>1. IInv => ExactRowWins
  BY DEF IInv
<1>. QED BY <1>1, LookupInvariant, PTL

(* The neighbouring house a geocoding falls back to is within the maximal  *)
(* distance, and none held throughout is nearer (_find_oa_fuzzy_match).    *)
THEOREM NearestAlwaysWins == Spec => []NearestHouseWins
<1>1. IInv => NearestHouseWins
  BY DEF IInv
<1>. QED BY <1>1, LookupInvariant, PTL

(* A geocoding's row for another address is marked as fuzzy and worth at   *)
(* most half (OAGeocodingProvider.geocode).                                *)
THEOREM OtherPlacesAlwaysMarked == Spec => []OtherPlacesAreMarked
<1>1. IInv => OtherPlacesAreMarked
  BY DEF IInv
<1>. QED BY <1>1, LookupInvariant, PTL

(* No answer hides a row that was there all the time and that any of the   *)
(* statements would have found (OAGeocodingProvider.geocode,               *)
(* find_fuzzy_match).                                                      *)
THEOREM NoMatchAlwaysTrue == Spec => []NoMatchIsTrue
<1>1. IInv => NoMatchIsTrue
  BY DEF IInv
<1>. QED BY <1>1, LookupInvariant, PTL

(* The fuzzy answer is beaten in both sound and score by no row that was   *)
(* there all the time, whether or not the tiebreak query worked            *)
(* (find_fuzzy_match).                                                     *)
THEOREM FuzzyAnswerUndominated == Spec => []NoBetterCandidate
<1>1. IInv => NoBetterCandidate
  BY DEF IInv
<1>. QED BY <1>1, LookupInvariant, PTL
=============================================================================
