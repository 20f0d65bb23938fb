---------------------------- MODULE CascadeProofs ----------------------------
(***************************************************************************)
(* Proofs about Cascade, for any providers, weights, places and ZIP codes, *)
(* and any decisions of admins between the statements of a request.        *)
(***************************************************************************)
EXTENDS Cascade, TLAPS

Undecided == {"fuzzy", "llm", "consensus", "admin", "persist"}

(* Where a request is says what it can have done. *)
ShapeInv ==
  /\ pc \notin {"pointer", "row", "reply"} => ~committed
  /\ pc = "reply" => committed
  /\ pc \in {"idle", "cached", "exact"} => cands = {} /\ txRow = NoRows
  /\ pc \in {"idle", "exact", "official"} \cup Undecided => ~reply.hit
  /\ pc = "cached" => reply.hit
  /\ pc \in {"idle", "cached", "exact", "fuzzy", "llm", "consensus"} => winner = {}
  /\ pc \in {"admin", "persist", "official"} => winner # {}
  /\ pc = "official" => ~dry
  /\ txOff # NoProvider => pc = "commit"
  /\ reply.hit => cands = {}

(* Candidates are geocoders, one of a name; the LLM's are on their own.    *)
CandsInv ==
  /\ \A c \in cands : c.name \in Geocoders
  /\ \A c, d \in cands : c.name = d.name => c = d
  /\ \A c, d \in cands : c.kind = "llm" => d.kind = "llm"
  /\ \A c \in cands : /\ c.kind = "exact" => c.name \in Asked
                      /\ c.kind = "fuzzy" => c.name \in Fuzzy
                      /\ c.kind # "row"
                      /\ c.kind = "llm" => \E k \in correction : PassesGuardrails(k)
  /\ pc = "fuzzy" => \A c \in cands : c.kind = "exact"
  /\ pc = "llm" => cands = {}

WinnerInv ==
  \A c \in winner : /\ winner = {c} /\ (c.high \/ cands # {c})
                    /\ reply.outliers = OutliersOf(cands, c)

(* What the request has written, by what it elected. *)
WriteInv ==
  /\ \A p \in Provider : txRow[p] # Absent => p \in Geocoders
  /\ pc \in Undecided => \A p \in Provider : txRow[p] # Absent => p \in Remote
  /\ pc \in Undecided /\ (\A c \in cands : c.kind = "llm") =>
       \A p \in Provider : txRow[p] \notin Places
  /\ pc \in Undecided => \A c \in cands : HasRow(c) => txRow[c.name] = c.place
  /\ \A c \in winner : c.kind = "llm" =>
       \A p \in Provider \ {c.name} : txRow[p] \notin Places
  /\ pc = "official" => \A c \in winner : txRow[c.name] = c.place
  /\ txOff # NoProvider =>
       ~dry /\ \E c \in winner : txOff = c.name /\ txRow[c.name] = c.place

(* No one else gives a geocoder's row to an address that had none. *)
MissInv ==
  pc # "idle" /\ ~reply.hit /\ ~committed => \A p \in Geocoders : rows[p] = Absent

(* p has, had or will have value v, or its row is hidden by v. *)
Accounted(p, v) ==
  \/ <<p, v>> \in held
  \/ ~committed /\ v # Absent /\ txRow[p] = v
  \/ \E c \in winner : c.kind = "llm" /\ c.name = p /\ v = NoPlace

HistoryInv ==
  /\ override => official # NoProvider
  /\ official # NoProvider => rows[official] # Absent
  /\ pc # "idle" => official \in named /\ Pairs(rows) \subseteq held
  /\ pc # "idle" => \A p \in Provider : seen[p] # Absent => Accounted(p, seen[p])

ReplyInv ==
  /\ pc = "row" => reply.official # NoProvider
  /\ reply.official # NoProvider =>
       pc \in {"row", "commit", "reply"} /\ reply.official \in named
  /\ pc \in {"commit", "reply"} /\ reply.official # NoProvider =>
       Accounted(reply.official, reply.shows)
  /\ reply.would # NoProvider => pc \in {"pointer", "row", "commit", "reply"}
  /\ ~reply.hit /\ reply.would # NoProvider =>
       /\ dry /\ pc \in {"commit", "reply"}
       /\ \E c \in winner :
            /\ reply.would = c.name
            /\ \/ <<c.name, c.place>> \in held
               \/ ~committed /\ txRow[c.name] = c.place

ChoiceInv ==
  winner # {} =>
    /\ pc \in {"pointer", "row"} => reply.would = NoProvider /\ official # NoProvider
    /\ txOff # NoProvider => reply.would = NoProvider /\ reply.official = NoProvider
    /\ pc = "commit" =>
         (reply.would = NoProvider <=> reply.official # NoProvider \/ txOff # NoProvider)
    /\ pc = "reply" => (reply.would = NoProvider <=> reply.official # NoProvider)

IInv == /\ TypeOK /\ ShapeInv /\ CandsInv /\ WinnerInv /\ WriteInv /\ MissInv
        /\ HistoryInv /\ ReplyInv /\ ChoiceInv

-----------------------------------------------------------------------------
LEMMA WeightIsPositive == \A p : Weight(p) \in Nat \ {0}
BY WeightsArePositive DEF Weight

LEMMA WinnerIsCandidate == \A cs, c : MayWin(cs, c) => c \in cs
BY DEF MayWin

(* Answers of providers in S give candidates of S, one of a name.          *)
LEMMA MatchesAreCandidates ==
  ASSUME NEW S, S \subseteq Asked, NEW a \in AnswersOf(S), NEW kind \in Kinds
  PROVE  /\ DOMAIN a \subseteq S
         /\ \A p \in DOMAIN a : a[p] \in Answer
         /\ Matches(a, kind) \subseteq Candidate
         /\ \A c \in Matches(a, kind) :
              /\ c.name \in DOMAIN a /\ c.kind = kind
              /\ c.place \in Places /\ c.place = a[c.name].place
              /\ c.high = a[c.name].high
         /\ \A p \in DOMAIN a : a[p].place \in Places => \E c \in Matches(a, kind) : c.name = p
         /\ \A c, d \in Matches(a, kind) : c.name = d.name => c = d
<1>1. PICK T \in SUBSET S : a \in [T -> Answer]
  BY DEF AnswersOf
<1>2. DOMAIN a = T /\ \A p \in T : a[p] \in Answer
  BY <1>1
<1>3. \A c \in Matches(a, kind) : \E p \in T :
        /\ a[p].place # NoPlace
        /\ c = Make(p, a[p].place, a[p].high, kind, Weight(p))
  BY <1>2 DEF Matches
<1>4. ASSUME NEW p \in T, a[p].place # NoPlace
      PROVE  Make(p, a[p].place, a[p].high, kind, Weight(p)) \in Candidate
  <2>1. a[p].place \in Places /\ a[p].high \in BOOLEAN /\ p \in Provider
    BY <1>2, <1>4 DEF Answer, Provider, Geocoders
  <2>. QED BY <2>1, WeightIsPositive DEF Make, Candidate
<1>5. Matches(a, kind) \subseteq Candidate
  BY <1>3, <1>4
<1>6. ASSUME NEW c \in Matches(a, kind)
      PROVE  /\ c.name \in T /\ c.kind = kind
             /\ c.place \in Places /\ c.place = a[c.name].place
             /\ c.high = a[c.name].high
             /\ c = Make(c.name, a[c.name].place, a[c.name].high, kind, Weight(c.name))
  BY <1>2, <1>3 DEF Make, Answer
<1>7. ASSUME NEW p \in T, a[p].place \in Places
      PROVE  \E c \in Matches(a, kind) : c.name = p
  <2>1. Make(p, a[p].place, a[p].high, kind, Weight(p)) \in Matches(a, kind)
    BY <1>2, <1>7, PlacesDiffer DEF Matches
  <2>. QED BY <2>1 DEF Make
<1>8. ASSUME NEW c \in Matches(a, kind), NEW d \in Matches(a, kind), c.name = d.name
      PROVE  c = d
  BY <1>6, <1>8
<1>. QED BY <1>1, <1>2, <1>5, <1>6, <1>7, <1>8

LEMMA OutliersAreProviders ==
  ASSUME NEW cs, cs \subseteq Candidate, NEW c
  PROVE  OutliersOf(cs, c) \subseteq Provider
BY DEF OutliersOf, Candidate

(* Each change of the reply is one of a field or two. *)
LEMMA ReplyUpdates ==
  ASSUME NEW r \in Reply
  PROVE  /\ \A v \in BOOLEAN : LET s == [r EXCEPT !.hit = v] IN
              s \in Reply /\ s.hit = v /\ s.official = r.official /\ s.would = r.would
         /\ \A v \in Provider \cup {NoProvider} : LET s == [r EXCEPT !.would = v] IN
              /\ s \in Reply /\ s.hit = r.hit /\ s.official = r.official
              /\ s.shows = r.shows /\ s.would = v /\ s.outliers = r.outliers
         /\ \A v \in Provider \cup {NoProvider} : LET s == [r EXCEPT !.official = v] IN
              /\ s \in Reply /\ s.hit = r.hit /\ s.official = v
              /\ s.shows = r.shows /\ s.would = r.would /\ s.outliers = r.outliers
         /\ \A v \in Row : LET s == [r EXCEPT !.shows = v] IN
              /\ s \in Reply /\ s.hit = r.hit /\ s.official = r.official
              /\ s.shows = v /\ s.would = r.would /\ s.outliers = r.outliers
         /\ \A v \in SUBSET Provider : LET s == [r EXCEPT !.outliers = v] IN
              /\ s \in Reply /\ s.hit = r.hit /\ s.official = r.official
              /\ s.shows = r.shows /\ s.would = r.would /\ s.outliers = v
BY DEF Reply

LEMMA NoReplyIsReply == NoReply \in Reply
BY DEF NoReply, Reply, Row

LEMMA Initial == Init => IInv
<1>. SUFFICES ASSUME Init PROVE IInv
  OBVIOUS
<1>1. TypeOK
  BY DEF Init, TypeOK, NoRows, NoReply, Row, Reply, Stages, PCs
<1>2. ShapeInv /\ CandsInv /\ WinnerInv /\ MissInv
  BY DEF Init, ShapeInv, CandsInv, WinnerInv, MissInv, NoReply, Undecided
<1>3. WriteInv
  BY DEF Init, WriteInv, NoRows, Undecided
<1>4. HistoryInv /\ ReplyInv /\ ChoiceInv
  BY DEF Init, HistoryInv, ReplyInv, ChoiceInv, NoReply
<1>. QED BY <1>1, <1>2, <1>3, <1>4 DEF IInv

-----------------------------------------------------------------------------
(* The steps of the request, one lemma each.                               *)
LEMMA LookupKeeps == ASSUME IInv, Lookup PROVE IInv'
<1>a. /\ reply' \in Reply /\ reply'.hit = (rows # NoRows) /\ reply'.official = NoProvider
      /\ reply'.would = NoProvider
  BY NoReplyIsReply, ReplyUpdates DEF Lookup, NoReply

<1>b. /\ pc = "idle" /\ pc' = IF rows = NoRows THEN "exact" ELSE "cached"
      /\ dry' \in BOOLEAN /\ seen' = rows /\ cands = {} /\ winner = {} /\ ~committed
      /\ txRow = NoRows /\ txOff = NoProvider
      /\ UNCHANGED <<tables, txRow, txOff, cands, winner, correction, committed>>
  BY DEF Lookup, IInv, TypeOK, ShapeInv
<1>c. named' = {official} /\ held' = Pairs(rows)
  BY DEF Lookup, Pairs
<1>1. TypeOK'
  <2>1. held' \subseteq Provider \X Row
    BY <1>c DEF IInv, TypeOK, Pairs
  <2>. QED BY <1>a, <1>b, <1>c, <2>1 DEF IInv, TypeOK, tables, PCs
<1>2. ShapeInv'
  BY <1>a, <1>b, <1>c DEF IInv, ShapeInv, Undecided, tables
<1>3. CandsInv'
  BY <1>a, <1>b, <1>c DEF IInv, CandsInv, tables
<1>4. WinnerInv'
  BY <1>a, <1>b, <1>c DEF IInv, WinnerInv, tables
<1>5. WriteInv'
  BY <1>a, <1>b, <1>c DEF IInv, WriteInv, Undecided, tables, NoRows
<1>6. MissInv'
  BY <1>a, <1>b, <1>c DEF IInv, MissInv, tables, NoRows, Geocoders, Provider
<1>7. HistoryInv'
  BY <1>a, <1>b, <1>c DEF IInv, HistoryInv, Accounted, Pairs, tables
<1>8. ReplyInv'
  BY <1>a, <1>b, <1>c DEF IInv, ReplyInv, Accounted, tables
<1>9. ChoiceInv'
  BY <1>a, <1>b, <1>c DEF IInv, ChoiceInv, tables
<1>. QED BY <1>1, <1>2, <1>3, <1>4, <1>5, <1>6, <1>7, <1>8, <1>9 DEF IInv

LEMMA CacheHitKeeps == ASSUME IInv, CacheHit PROVE IInv'
<1>a. /\ reply' \in Reply /\ reply'.hit = reply.hit
      /\ reply'.official = reply.official /\ reply'.shows = reply.shows
  <2>1. CASE UNCHANGED reply
    BY <2>1 DEF IInv, TypeOK
  <2>2. CASE ~UNCHANGED reply
    <3>1. PICK a \in AnswersOf(Local) :
            \E c \in {Make(p, seen[p], FALSE, "row", Weight(p)) :
                        p \in {p \in Provider : seen[p] \in Places}}
                      \cup Matches(a, "exact") :
              reply' = [reply EXCEPT !.would = c.name,
                          !.outliers = OutliersOf({Make(p, seen[p], FALSE, "row", Weight(p)) :
                             p \in {p \in Provider : seen[p] \in Places}}
                             \cup Matches(a, "exact"), c)]
      BY <2>2 DEF CacheHit
    <3>. DEFINE kept == {Make(p, seen[p], FALSE, "row", Weight(p)) :
                           p \in {p \in Provider : seen[p] \in Places}}
    <3>2. kept \subseteq Candidate
      <4>1. \A p \in Provider : seen[p] \in Places =>
              Make(p, seen[p], FALSE, "row", Weight(p)) \in Candidate
        BY WeightIsPositive DEF Make, Candidate, Kinds
      <4>. QED BY <4>1
    <3>3. Matches(a, "exact") \subseteq Candidate
      BY MatchesAreCandidates DEF Asked, Kinds
    <3>. DEFINE all == kept \cup Matches(a, "exact")
    <3>4. PICK c \in all :
            reply' = [reply EXCEPT !.would = c.name, !.outliers = OutliersOf(all, c)]
      BY <3>1
    <3>5. all \subseteq Candidate
      BY <3>2, <3>3
    <3>. HIDE DEF all
    <3>6. c.name \in Provider
      BY <3>5 DEF Candidate
    <3>7. OutliersOf(all, c) \in SUBSET Provider
      BY <3>5, OutliersAreProviders
    <3>8. reply \in Reply
      BY DEF IInv, TypeOK
    <3>. QED BY <3>4, <3>6, <3>7, <3>8 DEF Reply
  <2>. QED BY <2>1, <2>2
<1>b. /\ pc = "cached" /\ pc' = "pointer" /\ winner = {}
      /\ UNCHANGED <<tables, dry, seen, txRow, txOff, cands, winner, correction,
                     committed, history>>
  BY DEF CacheHit, IInv, ShapeInv
<1>1. TypeOK'
  BY <1>a, <1>b DEF IInv, TypeOK, history, tables, PCs
<1>2. ShapeInv'
  BY <1>a, <1>b DEF IInv, ShapeInv, Undecided, tables, history
<1>3. CandsInv'
  BY <1>a, <1>b DEF IInv, CandsInv, tables, history
<1>4. WinnerInv'
  BY <1>a, <1>b DEF IInv, WinnerInv, tables, history
<1>5. WriteInv'
  BY <1>a, <1>b DEF IInv, WriteInv, Undecided, tables, history
<1>6. MissInv'
  BY <1>a, <1>b DEF IInv, ShapeInv, MissInv, tables
<1>7. HistoryInv'
  BY <1>b DEF IInv, TypeOK, HistoryInv, Accounted, Pairs, history, tables
<1>8. ReplyInv'
  <2>1. winner = {} /\ reply.official = NoProvider /\ pc = "cached"
    BY <1>b DEF IInv, ShapeInv, ReplyInv
  <2>2. reply.hit
    BY <1>b DEF IInv, ShapeInv
  <2>. QED BY <1>a, <1>b, <2>1, <2>2 DEF ReplyInv
<1>9. ChoiceInv'
  BY <1>a, <1>b DEF IInv, ChoiceInv, tables, history
<1>. QED BY <1>1, <1>2, <1>3, <1>4, <1>5, <1>6, <1>7, <1>8, <1>9 DEF IInv

LEMMA ExactMatchKeeps == ASSUME IInv, ExactMatch PROVE IInv'
<1>. DEFINE Upserted(a, old) == [p \in Provider |->
              IF p \in Remote \cap DOMAIN a THEN a[p].place ELSE old[p]]
<1>a. PICK a \in AnswersOf(Asked) :
        /\ txRow' = Upserted(a, txRow) /\ seen' = Upserted(a, seen)
        /\ cands' = Matches(a, "exact")
  BY DEF ExactMatch
<1>b. /\ DOMAIN a \subseteq Asked
      /\ \A p \in DOMAIN a : a[p] \in Answer
      /\ cands' \subseteq Candidate
      /\ \A c \in cands' : /\ c.name \in DOMAIN a /\ c.kind = "exact"
                           /\ c.place \in Places /\ c.place = a[c.name].place
      /\ \A p \in DOMAIN a : a[p].place \in Places => \E c \in cands' : c.name = p
      /\ \A c, d \in cands' : c.name = d.name => c = d
  BY <1>a, MatchesAreCandidates DEF Kinds
<1>c. /\ pc = "exact" /\ pc' \in {"consensus", "fuzzy"} /\ txRow = NoRows
      /\ winner = {} /\ ~reply.hit /\ ~committed
      /\ UNCHANGED <<tables, dry, txOff, winner, correction, committed, reply, history>>
  BY DEF ExactMatch, IInv, ShapeInv
<1>d. \A p \in Provider :
        /\ p \in Remote \cap DOMAIN a =>
             txRow'[p] = a[p].place /\ seen'[p] = a[p].place /\ a[p].place \in {NoPlace} \cup Places
        /\ p \notin Remote \cap DOMAIN a => txRow'[p] = Absent /\ seen'[p] = seen[p]
  BY <1>a, <1>b, <1>c DEF NoRows, Answer
<1>1. TypeOK'
  <2>1. txRow' \in [Provider -> Row]
    BY <1>a, <1>b DEF IInv, TypeOK, Answer, Row
  <2>2. seen' \in [Provider -> Row]
    BY <1>a, <1>b DEF IInv, TypeOK, Answer, Row
  <2>. QED BY <1>b, <1>c, <2>1, <2>2 DEF IInv, TypeOK, tables, history, PCs
<1>2. ShapeInv'
  BY <1>b, <1>c, <1>d DEF IInv, ShapeInv, Undecided, tables, history
<1>3. CandsInv'
  BY <1>b, <1>c DEF CandsInv, Geocoders
<1>4. WinnerInv'
  BY <1>b, <1>c, <1>d DEF IInv, WinnerInv, tables, history
<1>5. WriteInv'
  BY <1>b, <1>c, <1>d, PlacesDiffer
  DEF IInv, ShapeInv, WriteInv, HasRow, Geocoders, Asked, Provider
<1>6. MissInv'
  BY <1>b, <1>c, <1>d DEF IInv, MissInv, tables, history
<1>7. HistoryInv'
  <2>1. \A p \in Provider : txRow[p] = Absent
    BY <1>c DEF NoRows
  <2>. QED BY <1>c, <1>d, <2>1 DEF IInv, HistoryInv, Accounted, tables, history
<1>8. ReplyInv'
  BY <1>b, <1>c, <1>d DEF IInv, ReplyInv, Accounted, tables, history
<1>9. ChoiceInv'
  BY <1>b, <1>c, <1>d DEF IInv, ChoiceInv, tables, history
<1>. QED BY <1>1, <1>2, <1>3, <1>4, <1>5, <1>6, <1>7, <1>8, <1>9 DEF IInv

LEMMA FuzzyMatchKeeps == ASSUME IInv, FuzzyMatch PROVE IInv'
<1>a. /\ pc = "fuzzy" /\ pc' = (IF cands' = {} THEN "llm" ELSE "consensus")
      /\ winner = {} /\ ~reply.hit
      /\ UNCHANGED <<tables, dry, seen, txRow, txOff, winner, correction, committed,
                     reply, history>>
  BY DEF FuzzyMatch, IInv, ShapeInv, Undecided
<1>b. \/ cands' = cands
      \/ \E c \in Candidate : /\ c.name \in Fuzzy /\ c.kind = "fuzzy"
                              /\ cands' = cands \cup {c}
  <2>1. ASSUME NEW f \in Fuzzy, NEW at \in Places, NEW w \in FuzzyTrust
        PROVE  /\ Make(f, at, FALSE, "fuzzy", w) \in Candidate
               /\ Make(f, at, FALSE, "fuzzy", w).name = f
               /\ Make(f, at, FALSE, "fuzzy", w).kind = "fuzzy"
    BY WeightsArePositive DEF Make, Candidate, Kinds, Provider, Geocoders
  <2>. QED BY <2>1 DEF FuzzyMatch
<1>1. TypeOK'
  BY <1>a, <1>b DEF IInv, TypeOK, tables, history, PCs
<1>2. ShapeInv'
  BY <1>a, <1>b DEF IInv, ShapeInv, Undecided, tables, history
<1>3. CandsInv'
  BY <1>a, <1>b, NamesDiffer DEF IInv, CandsInv, Geocoders
<1>4. WinnerInv'
  BY <1>a, <1>b DEF IInv, WinnerInv, tables, history
<1>5. WriteInv'
  <2>1. \A c \in cands : c.kind # "llm"
    BY <1>a DEF IInv, CandsInv
  <2>2. (\A c \in cands' : c.kind = "llm") => cands = {}
    BY <1>b, <2>1
  <2>3. \A c \in cands' : HasRow(c) => c \in cands
    BY <1>b DEF HasRow
  <2>. QED BY <1>a, <2>2, <2>3 DEF IInv, ShapeInv, WriteInv, Undecided, HasRow
<1>6. MissInv'
  BY <1>a, <1>b DEF IInv, MissInv, tables, history
<1>7. HistoryInv'
  BY <1>a, <1>b DEF IInv, HistoryInv, Accounted, Pairs, tables, history
<1>8. ReplyInv'
  BY <1>a, <1>b DEF IInv, ReplyInv, Accounted, tables, history
<1>9. ChoiceInv'
  BY <1>a, <1>b DEF IInv, ChoiceInv, tables, history
<1>. QED BY <1>1, <1>2, <1>3, <1>4, <1>5, <1>6, <1>7, <1>8, <1>9 DEF IInv

LEMMA LlmCorrectionKeeps == ASSUME IInv, LlmCorrection PROVE IInv'
<1>a. /\ pc = "llm" /\ pc' = "consensus" /\ cands = {} /\ winner = {} /\ ~reply.hit
      /\ UNCHANGED <<tables, dry, seen, txRow, txOff, winner, committed, reply, history>>
  BY DEF LlmCorrection, IInv, ShapeInv, CandsInv, Undecided
<1>b. /\ cands' \subseteq Candidate /\ correction' \subseteq Correction
      /\ \A c \in cands' : /\ c.name \in Asked /\ c.kind = "llm"
                           /\ \E k \in correction' : PassesGuardrails(k)
      /\ \A c, d \in cands' : c.name = d.name => c = d
  <2>1. CASE UNCHANGED <<cands, correction>>
    BY <1>a, <2>1 DEF IInv, TypeOK
  <2>2. ASSUME NEW k \in Correction, NEW a \in AnswersOf(Asked), PassesGuardrails(k),
               correction' = {k}, cands' = cands \cup Matches(a, "llm")
        PROVE  <1>b!:
    <3>1. /\ DOMAIN a \subseteq Asked
          /\ Matches(a, "llm") \subseteq Candidate
          /\ \A c \in Matches(a, "llm") : c.name \in DOMAIN a /\ c.kind = "llm"
          /\ \A c, d \in Matches(a, "llm") : c.name = d.name => c = d
      BY MatchesAreCandidates DEF Kinds
    <3>2. cands' = Matches(a, "llm")
      BY <1>a, <2>2
    <3>. QED BY <2>2, <3>1, <3>2
  <2>. QED BY <2>1, <2>2 DEF LlmCorrection
<1>1. TypeOK'
  BY <1>a, <1>b DEF IInv, TypeOK, tables, history, PCs
<1>2. ShapeInv'
  BY <1>a, <1>b DEF IInv, ShapeInv, Undecided, tables, history
<1>3. CandsInv'
  BY <1>a, <1>b DEF CandsInv, Geocoders
<1>4. WinnerInv'
  BY <1>a, <1>b DEF IInv, WinnerInv, tables, history
<1>5. WriteInv'
  <2>1. \A c \in cands' : ~HasRow(c)
    BY <1>b DEF HasRow
  <2>. QED BY <1>a, <2>1 DEF IInv, ShapeInv, WriteInv, Undecided, HasRow
<1>6. MissInv'
  BY <1>a, <1>b DEF IInv, MissInv, tables, history
<1>7. HistoryInv'
  BY <1>a, <1>b DEF IInv, HistoryInv, Accounted, Pairs, tables, history
<1>8. ReplyInv'
  BY <1>a, <1>b DEF IInv, ReplyInv, Accounted, tables, history
<1>9. ChoiceInv'
  BY <1>a, <1>b DEF IInv, ChoiceInv, tables, history
<1>. QED BY <1>1, <1>2, <1>3, <1>4, <1>5, <1>6, <1>7, <1>8, <1>9 DEF IInv

LEMMA ElectByConsensusKeeps == ASSUME IInv, ElectByConsensus PROVE IInv'
<1>a. /\ pc = "consensus" /\ winner = {} /\ ~reply.hit
      /\ UNCHANGED <<tables, dry, seen, txRow, txOff, cands, correction, committed, history>>
  BY DEF ElectByConsensus, IInv, ShapeInv, Undecided
<1>b. \/ pc' = "commit" /\ winner' = {} /\ UNCHANGED reply
      \/ \E c \in cands :
           /\ reply' = [reply EXCEPT !.outliers = OutliersOf(cands, c)]
           /\ \/ pc' = "commit" /\ winner' = {}
              \/ pc' = "admin" /\ winner' = {c} /\ (c.high \/ cands # {c})
  BY <1>a, WinnerIsCandidate DEF ElectByConsensus
<1>c. /\ reply' \in Reply /\ reply'.hit = reply.hit /\ reply'.official = reply.official
      /\ reply'.shows = reply.shows /\ reply'.would = reply.would
      /\ \/ pc' = "commit" /\ winner' = {}
         \/ /\ pc' = "admin"
            /\ \E c \in cands : /\ winner' = {c} /\ (c.high \/ cands # {c})
                                /\ reply'.outliers = OutliersOf(cands, c)
  <2>1. reply \in Reply /\ cands \subseteq Candidate
    BY DEF IInv, TypeOK
  <2>2. \A c \in cands : OutliersOf(cands, c) \in SUBSET Provider
    BY <2>1, OutliersAreProviders
  <2>3. ASSUME NEW c \in cands, reply' = [reply EXCEPT !.outliers = OutliersOf(cands, c)]
        PROVE  /\ reply' \in Reply /\ reply'.hit = reply.hit
               /\ reply'.official = reply.official
               /\ reply'.shows = reply.shows /\ reply'.would = reply.would
               /\ reply'.outliers = OutliersOf(cands, c)
    BY <2>1, <2>2, <2>3, ReplyUpdates
  <2>. QED BY <1>b, <2>1, <2>3
<1>1. TypeOK'
  BY <1>a, <1>c DEF IInv, TypeOK, tables, history, PCs
<1>2. ShapeInv'
  BY <1>a, <1>c DEF IInv, ShapeInv, Undecided, tables, history
<1>3. CandsInv'
  BY <1>a, <1>c DEF IInv, CandsInv, tables, history
<1>4. WinnerInv'
  BY <1>a, <1>c DEF IInv, WinnerInv, tables, history
<1>5. WriteInv'
  <2>1. \A c \in winner' : c.kind = "llm" => \A d \in cands : d.kind = "llm"
    BY <1>c DEF IInv, CandsInv
  <2>. QED BY <1>a, <1>c, <2>1 DEF IInv, ShapeInv, WriteInv, Undecided, HasRow
<1>6. MissInv'
  BY <1>a, <1>c DEF IInv, MissInv, tables, history
<1>7. HistoryInv'
  BY <1>a, <1>c DEF IInv, HistoryInv, Accounted, Pairs, tables, history
<1>8. ReplyInv'
  BY <1>a, <1>c DEF IInv, ReplyInv, tables, history
<1>9. ChoiceInv'
  BY <1>a, <1>c DEF IInv, ChoiceInv, ShapeInv, ReplyInv, tables, history
<1>. QED BY <1>1, <1>2, <1>3, <1>4, <1>5, <1>6, <1>7, <1>8, <1>9 DEF IInv

LEMMA AdminCheckKeeps == ASSUME IInv, AdminCheck PROVE IInv'
<1>a. PICK c \in winner :
         IF official = Admin \/ override
         THEN pc' = "pointer" /\ UNCHANGED reply
         ELSE IF HasRow(c) THEN pc' = AfterPersist /\ Foretell(c)
         ELSE pc' = "persist" /\ UNCHANGED reply
  BY DEF AdminCheck
<1>b. /\ pc = "admin" /\ ~reply.hit /\ reply.would = NoProvider
       /\ reply.official = NoProvider /\ txOff = NoProvider
       /\ winner = {c} /\ c \in cands /\ ~committed
       /\ UNCHANGED <<tables, dry, txRow, txOff, cands, winner, correction, committed, history>>
  BY DEF AdminCheck, IInv, TypeOK, ShapeInv, Undecided, ReplyInv, WinnerInv
<1>c. /\ reply' \in Reply /\ reply'.hit = reply.hit /\ reply'.official = reply.official
       /\ reply'.shows = reply.shows /\ reply'.outliers = reply.outliers
       /\ \/ pc' = "pointer" /\ reply'.would = NoProvider /\ (official = Admin \/ override)
          \/ pc' = "persist" /\ reply'.would = NoProvider
          \/ HasRow(c) /\ dry /\ pc' = "commit" /\ reply'.would = c.name
          \/ HasRow(c) /\ ~dry /\ pc' = "official" /\ reply'.would = NoProvider
  <2>1. reply \in Reply /\ c.name \in Provider
    BY <1>b DEF IInv, TypeOK, Candidate
  <2>2. CASE ~(HasRow(c) /\ pc' = AfterPersist /\ Foretell(c))
    BY <1>a, <1>b, <2>1, <2>2
  <2>3. CASE HasRow(c) /\ pc' = AfterPersist /\ Foretell(c)
    <3>1. HasRow(c) /\ pc' = AfterPersist /\ Foretell(c)
      BY <2>3
    <3>2. reply' = [reply EXCEPT !.would = IF dry THEN c.name ELSE @]
      BY <3>1 DEF Foretell
    <3>3. CASE dry
      <4>1. reply' = [reply EXCEPT !.would = c.name]
        BY <3>2, <3>3
      <4>2. pc' = "commit"
        BY <3>1, <3>3 DEF AfterPersist
      <4>. QED BY <2>1, <3>1, <3>3, <4>1, <4>2, ReplyUpdates
    <3>4. CASE ~dry
      <4>1. reply' = [reply EXCEPT !.would = reply.would]
        BY <2>1, <3>2, <3>4
      <4>2. UNCHANGED reply
        BY <2>1, <4>1 DEF Reply
      <4>3. pc' = "official"
        BY <3>1, <3>4 DEF AfterPersist
      <4>. QED BY <1>b, <2>1, <3>1, <3>4, <4>2, <4>3
    <3>. QED BY <3>3, <3>4
  <2>. QED BY <2>2, <2>3
<1>d. /\ seen' \in [Provider -> Row]
       /\ \A p \in Provider : seen'[p] = seen[p] \/ seen'[p] = rows[p]
  BY DEF AdminCheck, IInv, TypeOK
<1>1. TypeOK'
  BY <1>b, <1>c, <1>d DEF IInv, TypeOK, tables, history, PCs
<1>2. ShapeInv'
  BY <1>b, <1>c, <1>d DEF IInv, ShapeInv, Undecided, tables, history
<1>3. CandsInv'
  BY <1>b, <1>c, <1>d DEF IInv, CandsInv, tables, history
<1>4. WinnerInv'
  BY <1>b, <1>c, <1>d DEF IInv, WinnerInv, tables, history
<1>5. WriteInv'
  BY <1>b, <1>c, <1>d DEF IInv, WriteInv, Undecided, HasRow, tables, history
<1>6. MissInv'
  BY <1>b, <1>c, <1>d DEF IInv, MissInv, tables, history
<1>7. HistoryInv'
  BY <1>b, <1>c, <1>d DEF IInv, HistoryInv, Accounted, Pairs, tables, history
<1>8. ReplyInv'
  <2>1. HasRow(c) => txRow[c.name] = c.place
    BY <1>b DEF IInv, WriteInv, Undecided
  <2>. QED BY <1>b, <1>c, <2>1 DEF ReplyInv
<1>9. ChoiceInv'
  <2>1. c.name # NoProvider
    BY <1>b, NamesDiffer DEF IInv, TypeOK, Candidate
  <2>2. official = Admin \/ override => official # NoProvider
    BY NamesDiffer DEF IInv, HistoryInv, Provider
  <2>. QED BY <1>b, <1>c, <2>1, <2>2 DEF ChoiceInv, tables
<1>. QED BY <1>1, <1>2, <1>3, <1>4, <1>5, <1>6, <1>7, <1>8, <1>9 DEF IInv

LEMMA PersistWinnerKeeps == ASSUME IInv, PersistWinner PROVE IInv'
<1>a. PICK c \in winner : txRow' = [txRow EXCEPT ![c.name] = c.place] /\ Foretell(c)
  BY DEF PersistWinner
<1>b. /\ pc = "persist" /\ pc' = AfterPersist /\ ~reply.hit /\ reply.would = NoProvider
      /\ reply.official = NoProvider /\ txOff = NoProvider
      /\ winner = {c} /\ c \in cands /\ ~committed
      /\ UNCHANGED <<tables, dry, seen, txOff, cands, winner, correction, committed, history>>
  BY DEF PersistWinner, IInv, TypeOK, ShapeInv, Undecided, ReplyInv, WinnerInv
<1>c. /\ reply \in Reply /\ c.name \in Provider /\ c.name \in Geocoders /\ c.place \in Places
      /\ txRow \in [Provider -> Row]
  BY <1>b DEF IInv, TypeOK, Candidate, CandsInv
<1>d. /\ reply' \in Reply /\ reply'.hit = reply.hit /\ reply'.official = reply.official
      /\ reply'.shows = reply.shows /\ reply'.outliers = reply.outliers
      /\ \/ dry /\ pc' = "commit" /\ reply'.would = c.name
         \/ ~dry /\ pc' = "official" /\ reply'.would = NoProvider
  <2>1. reply' = [reply EXCEPT !.would = IF dry THEN c.name ELSE @]
    BY <1>a DEF Foretell
  <2>2. CASE dry
    <3>1. reply' = [reply EXCEPT !.would = c.name]
      BY <2>1, <2>2
    <3>2. pc' = "commit"
      BY <1>b, <2>2 DEF AfterPersist
    <3>. QED BY <1>c, <2>2, <3>1, <3>2, ReplyUpdates
  <2>3. CASE ~dry
    <3>1. UNCHANGED reply
      BY <1>c, <2>1, <2>3 DEF Reply
    <3>2. pc' = "official"
      BY <1>b, <2>3 DEF AfterPersist
    <3>. QED BY <1>b, <1>c, <2>3, <3>1, <3>2
  <2>. QED BY <2>2, <2>3
<1>e. /\ txRow' \in [Provider -> Row] /\ txRow'[c.name] = c.place
      /\ \A p \in Provider : p # c.name => txRow'[p] = txRow[p]
  BY <1>a, <1>c DEF Row
<1>1. TypeOK'
  BY <1>b, <1>d, <1>e DEF IInv, TypeOK, tables, history, PCs
<1>2. ShapeInv'
  BY <1>b, <1>d, <1>e DEF IInv, ShapeInv, Undecided, tables, history
<1>3. CandsInv'
  BY <1>b, <1>d, <1>e DEF IInv, CandsInv, tables, history
<1>4. WinnerInv'
  BY <1>b, <1>d, <1>e DEF IInv, WinnerInv, tables, history
<1>5. WriteInv'
  <2>1. \A p \in Provider : txRow[p] # Absent => p \in Geocoders
    BY DEF IInv, WriteInv
  <2>2. c.kind = "llm" => \A p \in Provider : txRow[p] \notin Places
    BY <1>b DEF IInv, WriteInv, CandsInv, Undecided
  <2>. QED BY <1>b, <1>c, <1>d, <1>e, <2>1, <2>2 DEF WriteInv, Undecided
<1>6. MissInv'
  BY <1>b, <1>d, <1>e DEF IInv, MissInv, tables, history
<1>7. HistoryInv'
  <2>1. ASSUME NEW p \in Provider, seen[p] # Absent
        PROVE  Accounted(p, seen[p])'
    <3>1. Accounted(p, seen[p])
      BY <1>b, <2>1 DEF IInv, HistoryInv
    <3>2. CASE p # c.name
      BY <1>b, <1>e, <3>1, <3>2 DEF Accounted, history
    <3>3. CASE p = c.name /\ txRow[p] # Absent /\ txRow[p] = seen[p]
      <4>1. (p \in Remote /\ ~HasRow(c)) \/ txRow[p] = c.place
        BY <1>b, <3>3 DEF IInv, WriteInv, Undecided
      <4>2. CASE txRow[p] = c.place
        BY <1>b, <1>e, <3>3, <4>2 DEF Accounted
      <4>3. CASE p \in Remote /\ ~HasRow(c)
        <5>1. c.kind = "llm"
          BY <1>b, <3>3, <4>3, NamesDiffer
          DEF HasRow, IInv, TypeOK, Candidate, Kinds, CandsInv, Asked
        <5>2. txRow[p] \in Row /\ txRow[p] \notin Places
          BY <1>b, <1>c, <5>1 DEF IInv, CandsInv, WriteInv, Undecided
        <5>3. seen[p] = NoPlace
          BY <3>3, <5>2 DEF Row
        <5>. QED BY <1>b, <3>3, <5>1, <5>3 DEF Accounted
      <4>. QED BY <4>1, <4>2, <4>3
    <3>. QED BY <1>b, <2>1, <3>1, <3>2, <3>3 DEF Accounted, history
  <2>. QED BY <1>b, <1>d, <2>1 DEF IInv, HistoryInv, tables, history
<1>8. ReplyInv'
  BY <1>b, <1>d, <1>e DEF IInv, ReplyInv, tables, history
<1>9. ChoiceInv'
  BY <1>b, <1>c, <1>d, NamesDiffer DEF ChoiceInv
<1>. QED BY <1>1, <1>2, <1>3, <1>4, <1>5, <1>6, <1>7, <1>8, <1>9 DEF IInv

LEMMA WriteOfficialKeeps == ASSUME IInv, WriteOfficial PROVE IInv'
<1>a. PICK c \in winner : txOff' = c.name
  BY DEF WriteOfficial
<1>b. /\ pc = "official" /\ pc' = "commit" /\ ~dry /\ reply.would = NoProvider
      /\ reply.official = NoProvider /\ winner = {c} /\ c \in cands
      /\ txRow[c.name] = c.place /\ c.name \in Provider /\ c.name # NoProvider
      /\ UNCHANGED <<tables, dry, seen, txRow, cands, winner, correction, committed,
                     reply, history>>
  BY NamesDiffer
  DEF WriteOfficial, IInv, TypeOK, ShapeInv, ReplyInv, WinnerInv, WriteInv, Candidate
<1>1. TypeOK'
  BY <1>a, <1>b DEF IInv, TypeOK, tables, history, PCs
<1>2. ShapeInv'
  BY <1>a, <1>b DEF IInv, ShapeInv, Undecided, tables, history
<1>3. CandsInv'
  BY <1>a, <1>b DEF IInv, CandsInv, tables, history
<1>4. WinnerInv'
  BY <1>a, <1>b DEF IInv, WinnerInv, tables, history
<1>5. WriteInv'
  BY <1>a, <1>b DEF IInv, WriteInv, Undecided, tables, history
<1>6. MissInv'
  BY <1>a, <1>b DEF IInv, MissInv, tables, history
<1>7. HistoryInv'
  BY <1>a, <1>b DEF IInv, HistoryInv, Accounted, Pairs, tables, history
<1>8. ReplyInv'
  BY <1>a, <1>b DEF IInv, ReplyInv, tables, history
<1>9. ChoiceInv'
  BY <1>a, <1>b DEF IInv, ChoiceInv, tables, history
<1>. QED BY <1>1, <1>2, <1>3, <1>4, <1>5, <1>6, <1>7, <1>8, <1>9 DEF IInv

LEMMA ReadPointerKeeps == ASSUME IInv, ReadPointer PROVE IInv'
<1>a. /\ pc = "pointer" /\ reply.official = NoProvider /\ txOff = NoProvider
      /\ pc' \in {"row", "commit", "reply"}
      /\ pc' = "row" <=> official # NoProvider
      /\ pc' = "commit" => ~committed
      /\ pc' = "reply" => committed
      /\ UNCHANGED <<tables, dry, seen, txRow, txOff, cands, winner, correction,
                     committed, history>>
  BY DEF ReadPointer, IInv, ShapeInv, ReplyInv
<1>b. /\ reply' \in Reply /\ reply'.hit = reply.hit /\ reply'.official = official
      /\ reply'.would = reply.would /\ reply'.outliers = reply.outliers
  <2>1. reply \in Reply /\ official \in Provider \cup {NoProvider}
    BY DEF IInv, TypeOK
  <2>2. reply' = [reply EXCEPT !.official = official]
    BY DEF ReadPointer
  <2>. QED BY <2>1, <2>2, ReplyUpdates
<1>1. TypeOK'
  BY <1>a, <1>b DEF IInv, TypeOK, tables, history, PCs
<1>2. ShapeInv'
  BY <1>a, <1>b DEF IInv, ShapeInv, Undecided, tables, history
<1>3. CandsInv'
  BY <1>a, <1>b DEF IInv, CandsInv, tables, history
<1>4. WinnerInv'
  BY <1>a, <1>b DEF IInv, WinnerInv, tables, history
<1>5. WriteInv'
  BY <1>a, <1>b DEF IInv, WriteInv, Undecided, tables, history
<1>6. MissInv'
  BY <1>a, <1>b DEF IInv, MissInv, tables, history
<1>7. HistoryInv'
  BY <1>a, <1>b DEF IInv, HistoryInv, Accounted, Pairs, tables, history
<1>8. ReplyInv'
  BY <1>a, <1>b DEF IInv, ReplyInv, HistoryInv, tables, history
<1>9. ChoiceInv'
  BY <1>a, <1>b DEF IInv, ChoiceInv, tables, history
<1>. QED BY <1>1, <1>2, <1>3, <1>4, <1>5, <1>6, <1>7, <1>8, <1>9 DEF IInv

LEMMA ReadRowKeeps == ASSUME IInv, ReadRow PROVE IInv'
<1>a. /\ pc = "row" /\ txOff = NoProvider /\ reply.official \in Provider
      /\ reply.official # NoProvider
      /\ pc' = IF committed THEN "reply" ELSE "commit"
      /\ UNCHANGED <<tables, dry, seen, txRow, txOff, cands, winner, correction,
                     committed, history>>
  BY DEF ReadRow, IInv, TypeOK, Reply, ShapeInv, ReplyInv
<1>b. PICK v \in {seen[reply.official], rows[reply.official]} :
        /\ reply' = [reply EXCEPT !.shows = v]
        /\ v = rows[reply.official] \/ seen[reply.official] # Absent
  BY DEF ReadRow
<1>c. /\ reply' \in Reply /\ reply'.hit = reply.hit /\ reply'.official = reply.official
      /\ reply'.shows = v /\ reply'.would = reply.would /\ reply'.outliers = reply.outliers
  <2>1. reply \in Reply /\ v \in Row
    BY <1>a DEF IInv, TypeOK
  <2>. QED BY <1>b, <2>1, ReplyUpdates
<1>d. Accounted(reply.official, v)
  <2>1. <<reply.official, rows[reply.official]>> \in held
    BY <1>a DEF IInv, HistoryInv, Pairs
  <2>. QED BY <1>a, <1>b, <2>1 DEF IInv, HistoryInv, Accounted
<1>1. TypeOK'
  BY <1>a, <1>c DEF IInv, TypeOK, tables, history, PCs
<1>2. ShapeInv'
  BY <1>a, <1>c DEF IInv, ShapeInv, Undecided, tables, history
<1>3. CandsInv'
  BY <1>a, <1>c DEF IInv, CandsInv, tables, history
<1>4. WinnerInv'
  BY <1>a, <1>c DEF IInv, WinnerInv, tables, history
<1>5. WriteInv'
  BY <1>a, <1>c DEF IInv, WriteInv, Undecided, tables, history
<1>6. MissInv'
  BY <1>a, <1>c DEF IInv, MissInv, tables, history
<1>7. HistoryInv'
  BY <1>a, <1>c DEF IInv, HistoryInv, Accounted, Pairs, tables, history
<1>8. ReplyInv'
  BY <1>a, <1>c, <1>d DEF IInv, ReplyInv, Accounted, history
<1>9. ChoiceInv'
  BY <1>a, <1>c DEF IInv, ChoiceInv, tables, history
<1>. QED BY <1>1, <1>2, <1>3, <1>4, <1>5, <1>6, <1>7, <1>8, <1>9 DEF IInv

LEMMA CommitKeeps == ASSUME IInv, Commit PROVE IInv'
<1>a. /\ pc = "commit" /\ committed' /\ txRow' = NoRows /\ txOff' = NoProvider /\ ~committed
      /\ pc' \in {"reply", "pointer"} /\ (pc' = "reply" <=> txOff = NoProvider)
      /\ official' = IF txOff = NoProvider THEN official ELSE txOff
      /\ UNCHANGED <<override, dry, seen, cands, winner, correction, reply>>
      /\ named' = named \cup {official'} /\ held' = held \cup Pairs(rows')
  BY DEF Commit, IInv, ShapeInv
<1>b. /\ rows' \in [Provider -> Row]
      /\ \A p \in Provider : rows'[p] = IF txRow[p] = Absent THEN rows[p] ELSE txRow[p]
  BY DEF Commit, IInv, TypeOK
<1>c. \A p \in Provider : <<p, rows'[p]>> \in held' /\ <<p, rows'[p]>> \in Provider \X Row
  BY <1>a, <1>b DEF Pairs
<1>d. \A p \in Provider : \A v : Accounted(p, v) => Accounted(p, v)'
  BY <1>a, <1>b, <1>c DEF Accounted
<1>1. TypeOK'
  <2>1. Pairs(rows') \subseteq Provider \X Row
    BY <1>c DEF Pairs
  <2>2. stage' \in Stages
    <3>1. \A cs, c : StageOf(cs, c) \in Stages
      BY DEF StageOf, Stages
    <3>. QED BY <3>1 DEF Commit, IInv, TypeOK
  <2>. QED BY <1>a, <1>b, <2>1, <2>2 DEF IInv, TypeOK, NoRows, Row, PCs
<1>2. ShapeInv'
  BY <1>a, <1>b, PlacesDiffer DEF IInv, TypeOK, ShapeInv, Undecided, tables, history
<1>3. CandsInv'
  BY <1>a, <1>b, PlacesDiffer DEF IInv, TypeOK, CandsInv, tables, history
<1>4. WinnerInv'
  BY <1>a, <1>b, PlacesDiffer DEF IInv, TypeOK, WinnerInv, tables, history
<1>5. WriteInv'
  BY <1>a, <1>b, PlacesDiffer DEF IInv, TypeOK, WriteInv, Undecided, NoRows, tables, history
<1>6. MissInv'
  BY <1>a, <1>b, PlacesDiffer DEF IInv, TypeOK, MissInv, tables, history
<1>7. HistoryInv'
  <2>1. Pairs(rows)' \subseteq held'
    BY <1>c DEF Pairs
  <2>2. override' => official' # NoProvider
    BY <1>a DEF IInv, HistoryInv
  <2>3. official' # NoProvider => rows'[official'] # Absent
    <3>1. txOff # NoProvider => txOff \in Provider /\ txRow[txOff] # Absent
      BY PlacesDiffer DEF IInv, TypeOK, WriteInv, Candidate
    <3>. QED BY <1>a, <1>b, <3>1 DEF IInv, TypeOK, HistoryInv
  <2>. QED BY <1>a, <1>d, <2>1, <2>2, <2>3 DEF IInv, HistoryInv
<1>8. ReplyInv'
  <2>1. reply.official # NoProvider => Accounted(reply.official, reply.shows)'
    BY <1>a, <1>d DEF IInv, TypeOK, Reply, ReplyInv
  <2>2. reply.would # NoProvider /\ ~reply.hit =>
          \E c \in winner : reply.would = c.name /\ <<c.name, c.place>> \in held'
    <3>1. \A c \in winner : c.name \in Provider /\ c.place \in Places
      BY DEF IInv, TypeOK, Candidate
    <3>. QED BY <1>a, <1>b, <1>c, <3>1, PlacesDiffer DEF IInv, ReplyInv
  <2>3. reply.would # NoProvider /\ ~reply.hit => txOff = NoProvider
    BY DEF IInv, ReplyInv, WriteInv
  <2>4. reply.official # NoProvider => pc' = "reply"
    BY <1>a DEF IInv, ChoiceInv, WriteInv
  <2>. QED BY <1>a, <2>1, <2>2, <2>3, <2>4 DEF IInv, ReplyInv
<1>9. ChoiceInv'
  BY <1>a, <1>b, PlacesDiffer DEF IInv, TypeOK, ChoiceInv, ReplyInv, tables, history
<1>. QED BY <1>1, <1>2, <1>3, <1>4, <1>5, <1>6, <1>7, <1>8, <1>9 DEF IInv

LEMMA CloseKeeps == ASSUME IInv, Close PROVE IInv'
<1>1. TypeOK'
  BY NoReplyIsReply DEF IInv, TypeOK, Close, tables, NoRows, Row, PCs
<1>2. ShapeInv'
  BY DEF IInv, Close, ShapeInv, Undecided, NoReply
<1>3. CandsInv'
  BY DEF IInv, Close, CandsInv, NoReply
<1>4. WinnerInv'
  BY DEF IInv, Close, WinnerInv, NoReply
<1>5. WriteInv'
  BY DEF IInv, Close, WriteInv, Undecided, NoReply, NoRows
<1>6. MissInv'
  BY DEF IInv, Close, MissInv, NoReply
<1>7. HistoryInv'
  BY DEF IInv, Close, HistoryInv, Accounted, Pairs, NoReply, tables
<1>8. ReplyInv'
  BY DEF IInv, Close, ReplyInv, Accounted, NoReply
<1>9. ChoiceInv'
  BY DEF IInv, Close, ChoiceInv, NoReply
<1>. QED BY <1>1, <1>2, <1>3, <1>4, <1>5, <1>6, <1>7, <1>8, <1>9 DEF IInv

-----------------------------------------------------------------------------
(* Others change the official provider to one that there is, and no row of *)
(* a geocoder.                                                             *)
LEMMA ElsewhereKeeps ==
  ASSUME IInv, Elsewhere, txOff = NoProvider \/ pc = "idle",
         official' \in Provider, rows' \in [Provider -> Row], rows'[official'] # Absent,
         stage' = stage,
         override' \in BOOLEAN,
         pc # "idle" => \A p \in Geocoders : rows'[p] = rows[p]
  PROVE  IInv'
<1>1. UNCHANGED <<pc, dry, seen, txRow, txOff, cands, winner, correction, committed, reply>>
  BY DEF Elsewhere
<1>2. /\ pc # "idle" => named' = named \cup {official'} /\ held' = held \cup Pairs(rows')
      /\ pc = "idle" => UNCHANGED history
  BY DEF Elsewhere
<1>3. Pairs(rows') \subseteq Provider \X Row
  BY DEF Pairs
<1>4. TypeOK'
  BY <1>1, <1>2, <1>3 DEF IInv, TypeOK, history
<1>5. ShapeInv' /\ CandsInv' /\ WinnerInv' /\ WriteInv' /\ MissInv'
  BY <1>1 DEF IInv, ShapeInv, CandsInv, WinnerInv, WriteInv, MissInv
<1>6. official' # NoProvider
  BY NamesDiffer
<1>7. \A p, v : Accounted(p, v) => Accounted(p, v)'
  BY <1>1, <1>2 DEF Accounted, history
<1>8. HistoryInv'
  BY <1>1, <1>2, <1>6, <1>7 DEF IInv, HistoryInv
<1>9. ReplyInv'
  BY <1>1, <1>2, <1>7 DEF IInv, ReplyInv, history
<1>10. ChoiceInv'
  BY <1>1, <1>6 DEF IInv, ChoiceInv
<1>. QED BY <1>4, <1>5, <1>8, <1>9, <1>10 DEF IInv

LEMMA Induction == IInv /\ [Next]_vars => IInv'
<1>. SUFFICES ASSUME IInv, [Next]_vars PROVE IInv'
  OBVIOUS
<1>1. CASE UNCHANGED vars
  BY <1>1 DEF vars, tables, history, IInv, TypeOK, ShapeInv, CandsInv, WinnerInv, WriteInv,
     MissInv, HistoryInv, ReplyInv, ChoiceInv, Accounted
<1>2. CASE Serve
  BY <1>2, LookupKeeps, CacheHitKeeps, ExactMatchKeeps, FuzzyMatchKeeps, LlmCorrectionKeeps,
     ElectByConsensusKeeps, AdminCheckKeeps, PersistWinnerKeeps, WriteOfficialKeeps,
     ReadPointerKeeps, ReadRowKeeps, CommitKeeps, CloseKeeps
  DEF Serve, Respond, Abort
<1>3. ASSUME NEW p \in Provider, SelectOfficial(p)
      PROVE  IInv'
  <2>1. /\ official' = p /\ rows' = rows /\ override' = override /\ stage' = stage
        /\ Elsewhere /\ txOff = NoProvider
        /\ rows[p] # Absent
    BY <1>3 DEF SelectOfficial
  <2>. QED BY <2>1, ElsewhereKeeps DEF IInv, TypeOK
<1>4. ASSUME NEW at \in Places, OverrideOfficial(at)
      PROVE  IInv'
  <2>1. /\ official' = Admin /\ rows' = [rows EXCEPT ![Admin] = at] /\ override' = TRUE
        /\ stage' = stage /\ Elsewhere /\ txOff = NoProvider
    BY <1>4 DEF OverrideOfficial
  <2>2. /\ rows' \in [Provider -> Row] /\ rows'[Admin] # Absent
        /\ \A p \in Geocoders : rows'[p] = rows[p]
    BY <2>1, NamesDiffer, PlacesDiffer DEF IInv, TypeOK, Row, Provider
  <2>. QED BY <2>1, <2>2, ElsewhereKeeps DEF Provider
<1>5. ASSUME NEW at \in Places, ImportFeature(at)
      PROVE  IInv'
  <2>1. /\ official' = Gis /\ rows' = [rows EXCEPT ![Gis] = at] /\ override' = override
        /\ stage' = stage /\ Elsewhere /\ pc = "idle"
    BY <1>5 DEF ImportFeature
  <2>2. rows' \in [Provider -> Row] /\ rows'[Gis] # Absent /\ override \in BOOLEAN
    BY <2>1, PlacesDiffer DEF IInv, TypeOK, Row, Provider
  <2>. QED BY <2>1, <2>2, ElsewhereKeeps DEF Provider
<1>. QED BY <1>1, <1>2, <1>3, <1>4, <1>5 DEF Next

THEOREM InvHolds == Spec => []IInv
BY Initial, Induction, PTL DEF Spec

(* Every variable of the cascade keeps its type, for any providers.        *)
THEOREM TypesHold == Spec => []TypeOK
<1>1. IInv => TypeOK
  BY DEF IInv
<1>. QED BY <1>1, InvHolds, PTL

(* A reply agrees with the tables of the time while its request ran.       *)
THEOREM ReplyIsHonestHolds == Spec => []ReplyIsHonest
<1>1. ASSUME IInv, pc = "reply", reply.official # NoProvider
      PROVE  /\ reply.official \in named
             /\ <<reply.official, reply.shows>> \in held \/ HiddenByOldObject
  <2>1. committed /\ reply.official \in named /\ Accounted(reply.official, reply.shows)
    BY <1>1 DEF IInv, ShapeInv, ReplyInv
  <2>. QED BY <2>1 DEF Accounted, HiddenByOldObject
<1>2. ASSUME IInv, pc = "reply", ~reply.hit, reply.would # NoProvider
      PROVE  /\ dry /\ reply.would \notin reply.outliers
             /\ \E c \in winner : /\ reply.would = c.name
                                 /\ <<c.name, c.place>> \in held
  <2>1. committed /\ dry
    BY <1>2 DEF IInv, ShapeInv, ReplyInv
  <2>2. PICK c \in winner : reply.would = c.name /\ <<c.name, c.place>> \in held
    BY <1>2, <2>1 DEF IInv, ReplyInv
  <2>3. c \in cands /\ reply.outliers = OutliersOf(cands, c)
    BY <1>2 DEF IInv, TypeOK, WinnerInv
  <2>4. \A d \in cands : d.name = c.name => d = c
    BY <1>2, <2>3 DEF IInv, CandsInv
  <2>5. c.name \notin OutliersOf(cands, c)
    BY <2>4 DEF OutliersOf
  <2>. QED BY <2>1, <2>2, <2>3, <2>5
<1>3. ASSUME IInv, pc = "reply", winner # {}
      PROVE  (reply.would = NoProvider) <=> (reply.official # NoProvider)
  BY <1>3 DEF IInv, ChoiceInv
<1>4. IInv => ReplyIsHonest
  BY <1>1, <1>2, <1>3 DEF ReplyIsHonest
<1>. QED BY <1>4, InvHolds, PTL

-----------------------------------------------------------------------------
(* Of the steps of a request only the commit changes the tables.           *)
LEMMA RequestStep ==
  ASSUME Serve
  PROVE  (UNCHANGED tables /\ (committed' => committed)) \/ Commit
BY DEF Serve, Lookup, CacheHit, ExactMatch, FuzzyMatch, LlmCorrection, ElectByConsensus,
   AdminCheck, PersistWinner, WriteOfficial, ReadPointer, ReadRow, Respond, Abort, Close

LEMMA CommitIsEarned ==
  ASSUME IInv, Commit, <<official, stage>>' # <<official, stage>>
  PROVE  /\ ~dry
         /\ \E c \in winner :
              /\ official' = c.name /\ rows'[c.name] = c.place
              /\ c.high \/ cands # {c}
              /\ \A d \in cands : (d.kind = "llm") <=> (c.kind = "llm")
              /\ c.kind = "llm" =>
                   /\ \A p \in Geocoders \ {c.name} : rows'[p] \notin Places
                   /\ \E k \in correction :
                        /\ NoState \in {k.from, k.to} \/ k.from = k.to
                        /\ NoState \in {k.zip, k.to} \/ k.to \in ZipStates[k.zip]
              /\ stage' = "fuzzy_consensus" =>
                   \E d \in Cluster(cands, c.place) : d.kind = "fuzzy"
<1>1. /\ txOff # NoProvider /\ official' = txOff /\ pc = "commit"
      /\ \E c \in winner : stage' = StageOf(cands, c)
  BY DEF Commit
<1>2. PICK c \in winner : txOff = c.name /\ txRow[c.name] = c.place
  BY <1>1 DEF IInv, WriteInv
<1>3. /\ winner = {c} /\ (c.high \/ cands # {c}) /\ c \in cands /\ ~dry
      /\ c.name \in Provider /\ c.place \in Places
  BY <1>1 DEF IInv, TypeOK, WinnerInv, WriteInv, Candidate
<1>4. \A p \in Provider : rows'[p] = IF txRow[p] = Absent THEN rows[p] ELSE txRow[p]
  BY DEF Commit
<1>5. rows'[c.name] = c.place
  BY <1>2, <1>3, <1>4, PlacesDiffer
<1>6. \A d \in cands : (d.kind = "llm") <=> (c.kind = "llm")
  BY <1>3 DEF IInv, CandsInv
<1>7. ASSUME c.kind = "llm"
      PROVE  /\ \A p \in Geocoders \ {c.name} : rows'[p] \notin Places
             /\ \E k \in correction :
                  /\ NoState \in {k.from, k.to} \/ k.from = k.to
                  /\ NoState \in {k.zip, k.to} \/ k.to \in ZipStates[k.zip]
  <2>1. \A p \in Geocoders : rows[p] = Absent
    BY <1>1, <1>3 DEF IInv, ShapeInv, MissInv
  <2>2. \A p \in Provider \ {c.name} : txRow[p] \notin Places
    BY <1>7 DEF IInv, WriteInv
  <2>3. \E k \in correction : PassesGuardrails(k)
    BY <1>3, <1>7 DEF IInv, CandsInv
  <2>. QED BY <1>4, <2>1, <2>2, <2>3, PlacesDiffer DEF Provider, PassesGuardrails
<1>8. stage' = "fuzzy_consensus" => \E d \in Cluster(cands, c.place) : d.kind = "fuzzy"
  BY <1>1, <1>3 DEF StageOf
<1>. QED BY <1>1, <1>2, <1>3, <1>5, <1>6, <1>7, <1>8

(* Whatever answers there are, a cascade makes official what the tables    *)
(* and the vote justify.                                                   *)
THEOREM OfficialIsEarnedHolds == Spec => OfficialIsEarned
<1>1. ASSUME IInv, [Next]_vars, ~committed, committed',
             <<official, stage>>' # <<official, stage>>
      PROVE  Commit
  <2>1. CASE UNCHANGED vars
    BY <1>1, <2>1 DEF vars
  <2>2. CASE Serve
    BY <1>1, <2>2, RequestStep
  <2>3. ASSUME Elsewhere PROVE FALSE
    BY <1>1, <2>3 DEF Elsewhere
  <2>. QED BY <1>1, <2>1, <2>2, <2>3 DEF Next, SelectOfficial, OverrideOfficial, ImportFeature
<1>2. IInv /\ [Next]_vars =>
        [~committed /\ committed' /\ <<official, stage>>' # <<official, stage>> =>
           /\ ~dry
           /\ \E c \in winner :
                /\ official' = c.name /\ rows'[c.name] = c.place
                /\ c.high \/ cands # {c}
                /\ \A d \in cands : (d.kind = "llm") <=> (c.kind = "llm")
                /\ c.kind = "llm" =>
                     /\ \A p \in Geocoders \ {c.name} : rows'[p] \notin Places
                     /\ \E k \in correction :
                          /\ NoState \in {k.from, k.to} \/ k.from = k.to
                          /\ NoState \in {k.zip, k.to} \/ k.to \in ZipStates[k.zip]
                /\ stage' = "fuzzy_consensus" =>
                     \E d \in Cluster(cands, c.place) : d.kind = "fuzzy"]_vars
  BY <1>1, CommitIsEarned
<1>. QED BY <1>2, InvHolds, PTL DEF Spec, OfficialIsEarned

-----------------------------------------------------------------------------
(* The refinement of OfficialLedger, whose only address this is.           *)

LEMMA LedgerNames ==
  Ledger!Provider = Provider /\ Ledger!Geocoders = Geocoders
BY DEF Ledger!Provider, Ledger!Geocoders, Provider, Geocoders, Asked

LEMMA RowsGained ==
  ASSUME NEW S, \A p \in Provider : rows'[p] # rows[p] => p \in S /\ rows'[p] # Absent
  PROVE  Ledger!Gains(Address, S)
BY LedgerNames DEF Ledger!Gains

LEMMA CommitIsGeocode ==
  ASSUME IInv, Commit
  PROVE  Ledger!Geocode(Address)
<1>1. \A p \in Provider :
        /\ rows'[p] = IF txRow[p] = Absent THEN rows[p] ELSE txRow[p]
        /\ txRow[p] # Absent => p \in Geocoders
  BY DEF Commit, IInv, WriteInv
<1>2. Ledger!Gains(Address, Geocoders)
  BY <1>1, RowsGained
<1>3. UNCHANGED override
  BY DEF Commit
<1>4. CASE txOff = NoProvider
  <2>1. UNCHANGED official
    BY <1>4 DEF Commit
  <2>. QED BY <1>2, <1>3, <2>1, LedgerNames DEF Ledger!Geocode
<1>5. CASE txOff # NoProvider
  <2>1. official' = txOff
    BY <1>5 DEF Commit
  <2>2. PICK c \in winner : txOff = c.name /\ txRow[c.name] = c.place
    BY <1>5 DEF IInv, WriteInv
  <2>3. c.name \in Geocoders /\ c.place \in Places
    BY DEF IInv, TypeOK, Candidate, CandsInv
  <2>4. rows'[c.name] \in Places
    BY <1>1, <2>2, <2>3, PlacesDiffer DEF Provider
  <2>5. rows'[c.name] # Absent /\ rows'[c.name] # NoPlace
    BY <2>4, PlacesDiffer
  <2>. QED BY <1>2, <1>3, <2>1, <2>2, <2>3, <2>5, LedgerNames
       DEF Ledger!Geocode, Ledger!Electable, Provider
<1>. QED BY <1>4, <1>5

LEMMA LedgerStep == IInv /\ [Next]_vars => [Ledger!Next]_(Ledger!vars)
<1>. SUFFICES ASSUME IInv, [Next]_vars PROVE [Ledger!Next]_(Ledger!vars)
  OBVIOUS
<1>1. CASE UNCHANGED tables
  BY <1>1 DEF tables, Ledger!vars
<1>2. CASE Commit
  BY <1>2, CommitIsGeocode DEF Ledger!Next
<1>3. ASSUME NEW p \in Provider, SelectOfficial(p)
      PROVE  Ledger!Next
  <2>1. rows[p] # Absent /\ official' = p /\ UNCHANGED <<rows, override>>
    BY <1>3 DEF SelectOfficial
  <2>2. Ledger!Select(Address)
    BY <2>1, LedgerNames DEF Ledger!Select
  <2>. QED BY <2>2 DEF Ledger!Next
<1>4. ASSUME NEW at \in Places, OverrideOfficial(at)
      PROVE  Ledger!Next
  <2>1. /\ official' = Admin /\ rows' = [rows EXCEPT ![Admin] = at] /\ override' = TRUE
        /\ at # Absent /\ at # NoPlace
    BY <1>4, PlacesDiffer DEF OverrideOfficial
  <2>2. /\ rows'[Admin] = at /\ Admin \in Provider
        /\ \A p \in Provider : p # Admin => rows'[p] = rows[p]
    BY <2>1 DEF IInv, TypeOK, Provider
  <2>3. Ledger!Gains(Address, {Admin})
    BY <2>1, <2>2, RowsGained
  <2>4. Ledger!Override(Address)
    BY <2>1, <2>2, <2>3 DEF Ledger!Override
  <2>. QED BY <2>4 DEF Ledger!Next
<1>5. ASSUME NEW at \in Places, ImportFeature(at)
      PROVE  Ledger!Next
  <2>1. /\ official' = Gis /\ rows' = [rows EXCEPT ![Gis] = at] /\ UNCHANGED override
        /\ at # Absent /\ at # NoPlace /\ rows = NoRows
    BY <1>5, PlacesDiffer DEF ImportFeature
  <2>2. /\ rows'[Gis] = at /\ Gis \in Provider
        /\ \A p \in Provider : p # Gis => rows'[p] = rows[p]
    BY <2>1 DEF IInv, TypeOK, Provider
  <2>3. Ledger!Gains(Address, {Gis})
    BY <2>1, <2>2, RowsGained
  <2>4. official = NoProvider
    BY <2>1 DEF IInv, TypeOK, HistoryInv, NoRows
  <2>5. Ledger!Import(Address)
    BY <2>1, <2>2, <2>3, <2>4 DEF Ledger!Import
  <2>. QED BY <2>5 DEF Ledger!Next
<1>. QED BY <1>1, <1>2, <1>3, <1>4, <1>5, RequestStep DEF Next, vars, tables

(* A cascade is one geocoding of the ledger, or none of it.                *)
THEOREM OneGeocodingHolds == Spec => OneGeocoding
<1>1. Init => Ledger!Init
  BY LedgerNames DEF Init, Ledger!Init, NoRows
<1>. QED BY <1>1, LedgerStep, InvHolds, PTL DEF Spec, OneGeocoding, Ledger!Spec
=============================================================================
